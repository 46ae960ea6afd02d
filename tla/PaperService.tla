---------------------------- MODULE PaperService ----------------------------
(***************************************************************************)
(* The order lifecycle of backend/binance_paper/service.py: intents wait   *)
(* in memory for their simulated latency, every transition of an order is  *)
(* also a durable row, and three callers take turns under one lock -- the  *)
(* book callback (on_book), the evaluation loop (run) and the HTTP         *)
(* handlers.  A handler is a sequence of steps because the process can die *)
(* between any two database writes; `mode' says which handler is running   *)
(* and how far it is.                                                      *)
(*                                                                         *)
(* Time is the age of the pending intents, in ticks no shorter than        *)
(* sample_interval_ms.  What an account has lost is one level read by the  *)
(* governor.  Prices and sizes appear only as the choices they decide.     *)
(***************************************************************************)
EXTENDS Integers, FiniteSets, GovernorModes

CONSTANTS
  Strategies,     \* strategies of the registry
  OrderIds,       \* order ids; an id is used again once its order is terminal
  PositionIds,    \* position ids, likewise
  LossLevels,     \* loss severities the accounts can show
  Latency,        \* latency_ms
  Ttl,            \* valid_until_ms - timestamp_ms of a decision
  OverdueAfter,   \* pending_unknown_ms
  MaxFaults,      \* bound of the failed database writes
  MaxRestarts,    \* bound of the crashes and shutdowns
  None            \* no position

ASSUME ServiceAssumption ==
  /\ LossLevels \subseteq Severities
  /\ LossLevels # {}
  /\ Latency \in Nat
  /\ Ttl \in Nat
  /\ OverdueAfter \in Nat
  /\ MaxFaults \in Nat
  /\ MaxRestarts \in Nat
  /\ None \notin PositionIds

VARIABLES
  mode,         \* where the holder of the service lock is
  work,         \* what the running loop has left: orders, positions, strategies
  current,      \* the fill whose aftermath is being handled, or None
  healthy,      \* the book being handled makes a HEALTHY snapshot
  pending,      \* _pending
  invalidated,  \* _post_fill_invalidated
  active,       \* runtime_active
  integrity,    \* _integrity_error is set
  sampled,      \* the portfolio was maintained less than a tick ago
  hard,         \* config.hard_enabled
  orders,       \* ids of the orders whose last durable event is PENDING
  positions,    \* OPEN rows of binance_paper_positions
  enabled,      \* enabled column of binance_paper_strategy_configs
  loss,         \* loss_severity of the accounts
  faults, restarts

handler == <<mode, work, current, healthy>>
durable == <<orders, positions, enabled, loss>>
flags   == <<active, integrity, hard>>
bounds  == <<faults, restarts>>
vars == <<handler, pending, invalidated, flags, sampled, durable, bounds>>

Handlers ==
  {"down", "recovering", "idle", "latching", "evaluate", "pending", "post", "exits"}

\* Nobody holds the lock.  While run is in its exception handler the HTTP
\* handlers, which have threads of their own, may take it; on_book and shutdown
\* share the event loop with run.
LockFree == {"idle", "latching"}

\* An age above OverdueAfter is as old as an intent gets.
AgeCap == OverdueAfter + 1

Intent ==
  [order : OrderIds, strategy : Strategies, op : {"ENTRY", "EXIT"},
   age : 0..AgeCap, position : PositionIds \cup {None}, reversal : BOOLEAN]

\* `ripe': maximum_holding_seconds have passed.  `dead': _post_fill_geometry
\* found the entry fill not admissible.
Position ==
  [id : PositionIds, strategy : Strategies, ripe : BOOLEAN, dead : BOOLEAN]

\* A committed fill; `reverse': an exit that carries a reversal decision.
Fill == [strategy : Strategies, reverse : BOOLEAN]

TypeOK ==
  /\ mode \in Handlers
  /\ work \subseteq OrderIds \cup PositionIds \cup Strategies
  /\ current \in (IF mode = "post" THEN Fill ELSE {None})
  /\ healthy \in BOOLEAN
  /\ pending \subseteq Intent
  /\ invalidated \subseteq Strategies
  /\ active \in BOOLEAN /\ integrity \in BOOLEAN /\ hard \in BOOLEAN
  /\ sampled \in BOOLEAN
  /\ orders \subseteq OrderIds
  /\ positions \subseteq Position
  /\ enabled \in [Strategies -> BOOLEAN]
  /\ loss \in LossLevels
  /\ faults \in 0..MaxFaults
  /\ restarts \in 0..MaxRestarts

----------------------------------------------------------------------------
Ids(intents) == {i.order : i \in intents}

Entries(s) == {i \in pending : i.op = "ENTRY" /\ i.strategy = s}

AllEntries == {i \in pending : i.op = "ENTRY"}

NeverInFlight(s) == FALSE

\* _pending_entry_for
EntryInFlight(s) == Entries(s) # {}

\* portfolio.position_for
HasPosition(s) == \E p \in positions : p.strategy = s

ExitOfStrategyPending(p) == \E i \in pending : i.strategy = p.strategy /\ i.reversal

\* An exit of this position is already pending.
ExitPending(p) == \E i \in pending : i.op = "EXIT" /\ i.position = p.id

FreshOrders == OrderIds \ (Ids(pending) \cup orders)

FreshPositions == PositionIds \ {p.id : p \in positions}

\* The last durable event of the order is PENDING: append_order_event accepts
\* any terminal event.  An order without an event may still be REJECTED, but
\* validate_order_transition raises on its CANCELLED and its FILLED.
Mirrored(i) == i.order \in orders

\* What _governor_decision puts before the governor.
GovernorFacts(severity, fresh) ==
  [severity |-> severity, ruined |-> FALSE, invalid |-> FALSE,
   starved |-> FALSE, integrity |-> integrity,
   overdue |-> \E i \in pending : i.age > OverdueAfter, healthy |-> fresh]

GovernorMode(severity, fresh) == Mode(GovernorFacts(severity, fresh))

MayOpen == CanOpen(GovernorMode(loss, healthy))

\* signal_expired_before_arrival
Expired(i) == i.age > Ttl

PauseForgotten(i) ==
  ~hard \/ ~enabled[i.strategy] \/ HasPosition(i.strategy) \/ ~MayOpen \/ Expired(i)

\* The checks an entry meets when it arrives, price limits aside.
EntryRefused(i) ==
  \/ ~hard
  \/ ~active
  \/ ~enabled[i.strategy]
  \/ HasPosition(i.strategy)
  \/ ~MayOpen
  \/ Expired(i)

\* The governor and evaluate_entry, as far as they read modelled state.
EntryApproved(s) ==
  /\ hard
  /\ active
  /\ enabled[s]
  /\ ~HasPosition(s)
  /\ MayOpen

EntryIntent(o, s) ==
  [order |-> o, strategy |-> s, op |-> "ENTRY", age |-> 0, position |-> None,
   reversal |-> FALSE]

WholeRowExit(o, p, reversal) ==
  [order |-> o, strategy |-> p.strategy, op |-> "EXIT", age |-> 0,
   position |-> p, reversal |-> reversal]

ExitIntent(o, p, reversal) ==
  [order |-> o, strategy |-> p.strategy, op |-> "EXIT", age |-> 0,
   position |-> p.id, reversal |-> reversal]

\* A handler returns or raises; either way the lock is free.
Release ==
  /\ mode' = "idle"
  /\ work' = {}
  /\ current' = None
  /\ healthy' = TRUE

\* A database write fails.
Fault == faults < MaxFaults /\ faults' = faults + 1

\* _pending[order_id] = intent, then the PENDING event.
Enqueue(i) ==
  /\ pending' = pending \cup {i}
  /\ orders' = orders \cup {i.order}

\* The PENDING event fails after the intent is in _pending.
EnqueueFails(i) ==
  /\ Fault
  /\ pending' = pending \cup {i}
  /\ UNCHANGED orders

CancelNothing(E) == UNCHANGED <<pending, orders, faults>>

\* _cancel_pending_entries: the loop cancels all of E or stops with an
\* exception at an order that has no PENDING event or at a failed write.
CancelEntries(E) ==
  \E C \in SUBSET {i \in E : Mirrored(i)} :
    /\ pending' = pending \ C
    /\ orders' = orders \ Ids(C)
    /\ \/ C = E /\ UNCHANGED faults
       \/ (\E i \in E \ C : ~Mirrored(i)) /\ UNCHANGED faults
       \/ C # E /\ Fault

Init ==
  /\ mode = "down" /\ work = {} /\ current = None /\ healthy = TRUE
  /\ pending = {} /\ invalidated = {}
  /\ active = FALSE /\ integrity = FALSE /\ hard = FALSE /\ sampled = FALSE
  /\ orders = {} /\ positions = {}
  /\ enabled = [s \in Strategies |-> TRUE]
  /\ loss \in LossLevels
  /\ faults = 0 /\ restarts = 0

----------------------------------------------------------------------------
(***************************************************************************)
(* Process start and end.                                                  *)
(***************************************************************************)

\* initialize up to reconcile_or_raise, in a process with a given environment.
Initialize(gate) ==
  /\ mode = "down"
  /\ mode' = "recovering"
  /\ hard' = gate
  /\ UNCHANGED <<work, current, healthy, pending, invalidated, active,
                 integrity, sampled, durable, bounds>>

\* One iteration of cancel_orphan_pending_orders.
CancelOrphan(o) ==
  /\ mode = "recovering"
  /\ o \in orders
  /\ orders' = orders \ {o}
  /\ UNCHANGED <<handler, pending, invalidated, flags, sampled, positions,
                 enabled, loss, bounds>>

OrphansIgnored == TRUE

\* The loop has been through every orphan.
NoOrphans == orders = {}

RecoveryDone ==
  /\ mode = "recovering"
  /\ NoOrphans
  /\ Release
  /\ UNCHANGED <<pending, invalidated, flags, sampled, durable, bounds>>

\* The process ends: what it held in memory is gone.
Terminate ==
  /\ restarts < MaxRestarts
  /\ restarts' = restarts + 1
  /\ mode' = "down" /\ work' = {} /\ current' = None /\ healthy' = TRUE
  /\ pending' = {} /\ invalidated' = {}
  /\ active' = FALSE /\ integrity' = FALSE /\ sampled' = FALSE
  /\ UNCHANGED <<hard, durable, faults>>

\* shutdown: under the lock; pending orders keep their PENDING event.
Shutdown == mode = "idle" /\ Terminate

Crash == mode \notin {"down", "idle"} /\ Terminate

----------------------------------------------------------------------------
(***************************************************************************)
(* The environment: time passes, positions reach their maximum holding.    *)
(***************************************************************************)
Tick ==
  /\ mode = "idle"
  /\ pending' = {[i EXCEPT !.age = IF @ = AgeCap THEN @ ELSE @ + 1] : i \in pending}
  /\ sampled' = FALSE
  /\ UNCHANGED <<handler, invalidated, flags, durable, bounds>>

HoldExpires(p) ==
  /\ mode = "idle"
  /\ p \in positions
  /\ positions' = (positions \ {p}) \cup {[p EXCEPT !.ripe = TRUE]}
  /\ UNCHANGED <<handler, pending, invalidated, flags, sampled, orders, enabled,
                 loss, bounds>>

----------------------------------------------------------------------------
(***************************************************************************)
(* on_book.                                                                *)
(***************************************************************************)

DueExactly(i) == i.age = Latency

Due(i) == i.age >= Latency

\* The callback takes the lock; _process_pending collects what is due.
BookArrives(fresh) ==
  /\ mode = "idle"
  /\ mode' = "pending"
  /\ healthy' = fresh
  /\ work' = Ids({i \in pending : Due(i)})
  /\ UNCHANGED <<current, pending, invalidated, flags, sampled, durable, bounds>>

\* due.sort(key=(arrival_ts_ms, operation)): within a tick the milliseconds, and
\* so the operations, may be in any order.
NextDue(i) ==
  /\ mode = "pending"
  /\ i \in pending
  /\ i.order \in work
  /\ \A j \in pending : j.order \in work => i.age >= j.age

\* A terminal event is written and the intent forgotten.
Settle(i) ==
  /\ pending' = pending \ {i}
  /\ orders' = orders \ {i.order}
  /\ work' = work \ {i.order}

\* _cancel_pending_intent: an entry that is refused, or whose price limits the
\* book breaks, which can be any entry.
CancelDue(i) ==
  /\ NextDue(i)
  /\ i.op = "ENTRY"
  /\ Mirrored(i)
  /\ Settle(i)
  /\ UNCHANGED <<mode, current, healthy, invalidated, flags, sampled, positions,
                 enabled, loss, bounds>>

\* The simulator fills nothing: REJECTED, and no aftermath.  REJECTED may follow
\* PENDING or be the first event of the order.
RejectDue(i) ==
  /\ NextDue(i)
  /\ i.op = "ENTRY" => ~EntryRefused(i)
  /\ Settle(i)
  /\ UNCHANGED <<mode, current, healthy, invalidated, flags, sampled, positions,
                 enabled, loss, bounds>>

Marked(s, dead) == IF dead THEN invalidated \cup {s} ELSE invalidated

\* The entry fills and its transaction commits: fill, order event, position.
FillEntry(i, dead) ==
  /\ NextDue(i)
  /\ i.op = "ENTRY"
  /\ ~EntryRefused(i)
  /\ Mirrored(i)
  /\ Settle(i)
  /\ \E id \in FreshPositions :
       positions' = positions \cup
         {[id |-> id, strategy |-> i.strategy, ripe |-> FALSE, dead |-> dead]}
  /\ invalidated' = Marked(i.strategy, dead)
  /\ mode' = "post"
  /\ current' = [strategy |-> i.strategy, reverse |-> FALSE]
  /\ UNCHANGED <<healthy, flags, sampled, enabled, loss, bounds>>

\* open_position raises -- the cash no longer covers margin and fee -- or the
\* transaction fails.  It rolls back; the marker in memory does not.
FillEntryRaises(i, dead) ==
  /\ NextDue(i)
  /\ i.op = "ENTRY"
  /\ ~EntryRefused(i)
  /\ Mirrored(i)
  /\ invalidated' = Marked(i.strategy, dead)
  /\ Release
  /\ UNCHANGED <<pending, flags, sampled, durable, bounds>>

\* The exit fills.  The simulator refuses a stale book.
FillExit(i) ==
  /\ NextDue(i)
  /\ i.op = "EXIT"
  /\ healthy
  /\ Mirrored(i)
  /\ Settle(i)
  /\ positions' = {p \in positions : p.id # i.position}
  /\ mode' = "post"
  /\ current' = [strategy |-> i.strategy, reverse |-> i.reversal]
  /\ UNCHANGED <<healthy, invalidated, flags, sampled, enabled, loss, bounds>>

\* The order has no PENDING event: on_book raises when it would cancel the entry
\* or when the simulator fills it; an exit only the simulator can fill.
IntentRaises(i) ==
  /\ NextDue(i)
  /\ ~Mirrored(i)
  /\ i.op = "EXIT" => healthy
  /\ Release
  /\ UNCHANGED <<pending, invalidated, flags, sampled, durable, bounds>>

\* One strategy of the drain of _post_fill_invalidated.  A queueing error is
\* swallowed.
Unwind(s) ==
  /\ mode = "post"
  /\ s \in invalidated
  /\ invalidated' = invalidated \ {s}
  /\ \/ /\ \A p \in positions : p.strategy = s => ExitPending(p)
        /\ UNCHANGED <<pending, orders, faults>>
     \/ \E p \in positions, o \in FreshOrders :
          /\ p.strategy = s
          /\ ~ExitPending(p)
          /\ \/ Enqueue(ExitIntent(o, p, FALSE)) /\ UNCHANGED faults
             \/ EnqueueFails(ExitIntent(o, p, FALSE))
  /\ UNCHANGED <<handler, flags, sampled, positions, enabled, loss, restarts>>

\* The reversal: the thesis is asked again on this book and a new entry passes
\* the gates, or nothing is queued.
Reverse ==
  /\ mode = "post"
  /\ invalidated = {}
  /\ current.reverse
  /\ \/ UNCHANGED <<pending, orders, faults, work>> /\ mode' = "pending"
        /\ current' = None /\ UNCHANGED healthy
     \/ \E o \in FreshOrders :
          /\ EntryApproved(current.strategy)
          /\ \/ /\ Enqueue(EntryIntent(o, current.strategy))
                /\ mode' = "pending" /\ current' = None
                /\ UNCHANGED <<faults, work, healthy>>
             \/ EnqueueFails(EntryIntent(o, current.strategy)) /\ Release
  /\ UNCHANGED <<invalidated, flags, sampled, positions, enabled, loss, restarts>>

NextIntent ==
  /\ mode = "post"
  /\ invalidated = {}
  /\ ~current.reverse
  /\ mode' = "pending"
  /\ current' = None
  /\ UNCHANGED <<work, healthy, pending, invalidated, flags, sampled, durable, bounds>>

FrozenWithoutGate == ~hard

\* CLOSE_ONLY, not FROZEN: without the gate there is work only for inventory.
NothingToMaintain == ~hard /\ positions = {}

SkipMaintenance ==
  /\ mode = "pending"
  /\ work = {}
  /\ NothingToMaintain \/ sampled
  /\ Release
  /\ UNCHANGED <<pending, invalidated, flags, sampled, durable, bounds>>

WithoutFlatten(flatten, chosen) == {p \in positions : p.ripe \/ p \in chosen}

\* Positions that leave: all of them under EMERGENCY_FLATTEN on a healthy book,
\* else the ripe ones and those a stop, target or thesis closes.
Leaving(flatten, chosen) ==
  {p \in positions : flatten \/ p.ripe \/ p \in chosen}

\* mark, apply_funding, the governor and its cancellations.
Maintain ==
  /\ mode = "pending"
  /\ work = {}
  /\ ~NothingToMaintain
  /\ sampled' = TRUE
  /\ loss' \in LossLevels
  /\ LET ruling == GovernorMode(loss', healthy)
         doomed == IF CanOpen(ruling) THEN {} ELSE AllEntries
     IN  /\ CancelEntries(doomed)
         /\ IF doomed \cap pending' = {}
              THEN \E chosen \in SUBSET positions :
                     /\ mode' = "exits"
                     /\ work' = {p.id : p \in Leaving(MustFlatten(ruling) /\ healthy, chosen)}
                     /\ UNCHANGED <<current, healthy>>
              ELSE Release
  /\ UNCHANGED <<invalidated, flags, positions, enabled, restarts>>

\* One _queue_exit of _queue_governor_exits or _queue_triggered_exits.
QueueExit(p) ==
  /\ mode = "exits"
  /\ p \in positions
  /\ p.id \in work
  /\ \/ /\ ExitPending(p)
        /\ work' = work \ {p.id}
        /\ UNCHANGED <<mode, current, healthy, pending, orders, faults>>
     \/ /\ ~ExitPending(p)
        /\ \E o \in FreshOrders :
             \/ /\ Enqueue(ExitIntent(o, p, FALSE))
                /\ work' = work \ {p.id}
                /\ UNCHANGED <<mode, current, healthy, faults>>
             \/ EnqueueFails(ExitIntent(o, p, FALSE)) /\ Release
  /\ UNCHANGED <<invalidated, flags, sampled, positions, enabled, loss, restarts>>

BookDone ==
  /\ mode = "exits"
  /\ work = {}
  /\ Release
  /\ UNCHANGED <<pending, invalidated, flags, sampled, durable, bounds>>

\* Any other write of on_book fails: nothing is committed and on_book raises.
BookWriteFails ==
  /\ mode \in {"pending", "post", "exits"}
  /\ Fault
  /\ Release
  /\ UNCHANGED <<pending, invalidated, flags, sampled, durable, restarts>>

----------------------------------------------------------------------------
(***************************************************************************)
(* run: one evaluation of the enabled strategies.                          *)
(***************************************************************************)
StartEvaluation ==
  /\ mode = "idle"
  /\ hard /\ active
  /\ mode' = "evaluate"
  /\ work' = {s \in Strategies : enabled[s]}
  /\ UNCHANGED <<current, healthy, pending, invalidated, flags, sampled, durable, bounds>>

\* An exception leaves the lock and sets _integrity_error; pending intents stay.
Latch ==
  /\ mode' = "latching" /\ work' = {} /\ current' = None /\ healthy' = TRUE
  /\ integrity' = TRUE
  /\ UNCHANGED <<active, hard>>

Evaluated(s) == work' = work \ {s} /\ UNCHANGED <<mode, current, healthy, flags>>

\* A signal against the open position asks for its close and a reversal.
OpposeSignal(s) ==
  \E p \in positions, o \in FreshOrders :
    /\ p.strategy = s
    /\ ~ExitPending(p)
    /\ \/ Enqueue(ExitIntent(o, p, TRUE)) /\ Evaluated(s) /\ UNCHANGED faults
       \/ EnqueueFails(ExitIntent(o, p, TRUE)) /\ Latch

EntrySignal(s) ==
  /\ ~EntryInFlight(s)
  /\ EntryApproved(s)
  /\ \E o \in FreshOrders :
       \/ Enqueue(EntryIntent(o, s)) /\ Evaluated(s) /\ UNCHANGED faults
       \/ EnqueueFails(EntryIntent(o, s)) /\ Latch

\* No signal, an old one, a suppressed or a blocked one.
NoOrder(s) == Evaluated(s) /\ UNCHANGED <<pending, orders, faults>>

Evaluate(s) ==
  /\ mode = "evaluate"
  /\ s \in work
  /\ OpposeSignal(s) \/ EntrySignal(s) \/ NoOrder(s)
  /\ UNCHANGED <<invalidated, sampled, positions, enabled, loss, restarts>>

\* decide, record_signal or a query raises.
EvaluationFails ==
  /\ mode = "evaluate"
  /\ Latch
  /\ UNCHANGED <<pending, invalidated, sampled, durable, bounds>>

\* The rest of the exception handler, without the lock: the event, then the stop
\* of the engine.
StopEngine ==
  /\ mode = "latching"
  /\ active' = FALSE
  /\ Release
  /\ UNCHANGED <<pending, invalidated, integrity, hard, sampled, durable, bounds>>

\* The event cannot be written: run ends with the engine still active, and the
\* task supervisor starts it again.
LatchFails ==
  /\ mode = "latching"
  /\ Fault
  /\ Release
  /\ UNCHANGED <<pending, invalidated, flags, sampled, durable, restarts>>

EvaluationDone ==
  /\ mode = "evaluate"
  /\ work = {}
  /\ Release
  /\ UNCHANGED <<pending, invalidated, flags, sampled, durable, bounds>>

----------------------------------------------------------------------------
(***************************************************************************)
(* The HTTP handlers.                                                      *)
(***************************************************************************)
StartEngine ==
  /\ mode \in LockFree
  /\ hard
  /\ active' = TRUE
  /\ UNCHANGED <<handler, pending, invalidated, integrity, hard, sampled, durable, bounds>>

PauseEngine ==
  /\ mode \in LockFree
  /\ active' = FALSE
  /\ CancelEntries(AllEntries)
  /\ UNCHANGED <<handler, invalidated, integrity, hard, sampled, positions,
                 enabled, loss, restarts>>

UpdateStrategy(s, on) ==
  /\ mode \in LockFree
  /\ enabled' = [enabled EXCEPT ![s] = on]
  /\ CancelEntries(IF on THEN {} ELSE Entries(s))
  /\ UNCHANGED <<handler, invalidated, flags, sampled, positions, loss, restarts>>

\* close_position, and each iteration of close_all.  It needs a fresh book, not
\* the gate.
ClosePosition(p) ==
  /\ mode \in LockFree
  /\ p \in positions
  /\ ~ExitPending(p)
  /\ \E o \in FreshOrders :
       \/ Enqueue(ExitIntent(o, p, FALSE)) /\ UNCHANGED faults
       \/ EnqueueFails(ExitIntent(o, p, FALSE))
  /\ UNCHANGED <<handler, invalidated, flags, sampled, positions, enabled, loss, restarts>>

----------------------------------------------------------------------------
Process ==
  \/ \E gate \in BOOLEAN : Initialize(gate)
  \/ \E o \in OrderIds : CancelOrphan(o)
  \/ RecoveryDone
  \/ Shutdown
  \/ Crash

OnBook ==
  \/ \E fresh \in BOOLEAN : BookArrives(fresh)
  \/ \E i \in pending :
       \/ CancelDue(i)
       \/ RejectDue(i)
       \/ \E dead \in BOOLEAN : FillEntry(i, dead) \/ FillEntryRaises(i, dead)
       \/ FillExit(i)
       \/ IntentRaises(i)
  \/ \E s \in Strategies : Unwind(s)
  \/ Reverse
  \/ NextIntent
  \/ SkipMaintenance
  \/ Maintain
  \/ \E p \in positions : QueueExit(p)
  \/ BookDone
  \/ BookWriteFails

Run ==
  \/ StartEvaluation
  \/ \E s \in Strategies : Evaluate(s)
  \/ EvaluationFails
  \/ StopEngine
  \/ LatchFails
  \/ EvaluationDone

Requests ==
  \/ StartEngine
  \/ PauseEngine
  \/ \E s \in Strategies, on \in BOOLEAN : UpdateStrategy(s, on)
  \/ \E p \in positions : ClosePosition(p)

Next ==
  \/ Process
  \/ Tick
  \/ \E p \in positions : HoldExpires(p)
  \/ OnBook
  \/ Run
  \/ Requests

Spec == Init /\ [][Next]_vars
----------------------------------------------------------------------------
(***************************************************************************)
(* Properties.                                                             *)
(***************************************************************************)

\* One slot per strategy ("ONE ENTRY IN FLIGHT PER STRATEGY", service.py): at
\* most one open position, at most one pending entry and never both; an exit
\* is for an open position of its strategy, one exit per position; no order or
\* position id stands for two things.
OnePositionEach ==
  \A p, q \in positions : p.strategy = q.strategy \/ p.id = q.id => p = q

OneIntentEach ==
  \A i, j \in pending :
    \/ i.order = j.order
    \/ i.op = "ENTRY" /\ j.op = "ENTRY" /\ i.strategy = j.strategy
    \/ i.op = "EXIT" /\ j.op = "EXIT" /\ i.position = j.position
    => i = j

EntryNeedsFreeSlot == \A i \in pending : i.op = "ENTRY" => ~HasPosition(i.strategy)

ExitHasPosition ==
  \A i \in pending :
    i.op = "EXIT" =>
      \E p \in positions : p.id = i.position /\ p.strategy = i.strategy

SlotExclusion ==
  OnePositionEach /\ OneIntentEach /\ EntryNeedsFreeSlot /\ ExitHasPosition

Serving == mode \notin {"down", "recovering"}

\* While the service runs, memory and the order table agree: an order the table
\* shows PENDING has its intent, and unless a write has failed every intent
\* has its row.  After a restart nothing stays PENDING without an intent.
DurableMirror ==
  Serving => /\ orders \subseteq Ids(pending)
             /\ faults = 0 => orders = Ids(pending)

\* A pending entry belongs to an enabled strategy in a process whose gate is on
\* and whose engine runs; only the exception handler of run stops the engine
\* without cancelling entries, and only a failed write cuts a cancellation short.
EntryAuthority ==
  faults = 0 =>
    \A i \in pending :
      i.op = "ENTRY" => hard /\ enabled[i.strategy] /\ (active \/ integrity)

\* "If the economics are dead it is UNWOUND": whenever no handler runs, a
\* position whose entry fill was not admissible has an exit on its way.
DeadIsUnwound ==
  mode = "idle" => \A p \in positions : p.dead => ExitPending(p)

\* _post_fill_invalidated holds "positions whose entry economics died between
\* decision and fill": what its drain is about to unwind is dead.  The code does not
\* keep this (README, section 6) and no run checks it.
UnwindsOnlyDead ==
  mode = "post" =>
    \A p \in positions : p.strategy \in invalidated => p.dead

----------------------------------------------------------------------------
(***************************************************************************)
(* The abstract lifecycle.                                                 *)
(***************************************************************************)
Phase(s) ==
  IF HasPosition(s)
    THEN IF \E i \in pending : i.op = "EXIT" /\ i.strategy = s
           THEN "EXITING" ELSE "OPEN"
    ELSE IF EntryInFlight(s) THEN "ENTERING" ELSE "FLAT"

phase == [s \in Strategies |-> Phase(s)]

armed == [s \in Strategies |-> hard /\ active /\ enabled[s]]

Lifecycle == INSTANCE PaperLifecycle WITH phase <- phase, armed <- armed

\* Every step of the service is a legal step of each strategy's lifecycle.
LifecycleSpec == Lifecycle!Spec

----------------------------------------------------------------------------
(***************************************************************************)
(* Liveness, when no write fails.                                          *)
(*                                                                         *)
(* A handler that holds the lock runs on.  Books keep coming and time      *)
(* passes; both wait for the lock, so their fairness is strong.  The feed  *)
(* is assumed not to be stale exactly whenever an exit or the maintenance  *)
(* is due, and the market to fill an exit that is tried again and again.   *)
(***************************************************************************)
Handling ==
  \/ \E gate \in BOOLEAN : Initialize(gate)
  \/ \E o \in OrderIds : CancelOrphan(o)
  \/ RecoveryDone
  \/ \E i \in pending :
       \/ CancelDue(i)
       \/ RejectDue(i)
       \/ \E dead \in BOOLEAN : FillEntry(i, dead) \/ FillEntryRaises(i, dead)
       \/ FillExit(i)
       \/ IntentRaises(i)
  \/ \E s \in Strategies : Unwind(s) \/ Evaluate(s)
  \/ Reverse
  \/ NextIntent
  \/ SkipMaintenance
  \/ Maintain
  \/ \E p \in positions : QueueExit(p)
  \/ BookDone
  \/ EvaluationFails
  \/ StopEngine
  \/ EvaluationDone

ExitDue(s) ==
  \E i \in pending : i.op = "EXIT" /\ i.strategy = s /\ Due(i)

Fairness ==
  /\ WF_vars(Handling)
  /\ SF_vars(Tick)
  /\ SF_vars(BookArrives(TRUE) /\ ~sampled)
  /\ \A s \in Strategies :
       /\ SF_vars(BookArrives(TRUE) /\ ExitDue(s))
       /\ SF_vars(\E i \in pending : i.strategy = s /\ FillExit(i))

FairSpec == Spec /\ Fairness

\* An order that was queued is settled, whatever raises on the way: the TTL of
\* the decision, or for one without a TTL the overdue rule of the governor, ends
\* an entry that cannot open.
IntentResolves ==
  \A o \in OrderIds : o \in Ids(pending) ~> o \notin Ids(pending)

\* A position held past its maximum is closed, with the gate on or off ("an
\* existing position is still marked, still charged funding, and can still
\* exit").
HeldPositionCloses ==
  \A id \in PositionIds :
    (\E p \in positions : p.id = id /\ p.ripe)
      ~> ~(\E p \in positions : p.id = id /\ p.ripe)

\* A loss beyond the emergency limit that lasts leaves no position open.
EmergencyFlattens ==
  <>[](loss = "severe") => <>[](positions = {})
=============================================================================
