------------------------- MODULE PaperServiceProofs -------------------------
(***************************************************************************)
(* Proofs about PaperService, for any number of strategies and ids and any *)
(* bounds.                                                                 *)
(***************************************************************************)
EXTENDS PaperService, TLAPS

----------------------------------------------------------------------------
(***************************************************************************)
(* Types.                                                                  *)
(***************************************************************************)

\* What the handlers put into _pending is an intent.
LEMMA EntryIntentType ==
  ASSUME NEW o \in OrderIds, NEW s \in Strategies
  PROVE  EntryIntent(o, s) \in Intent
BY ServiceAssumption DEF EntryIntent, Intent, AgeCap

\* An exit of an open position is an intent for that position's id.
LEMMA ExitIntentType ==
  ASSUME NEW o \in OrderIds, NEW p \in Position, NEW r \in BOOLEAN
  PROVE  ExitIntent(o, p, r) \in Intent
BY ServiceAssumption DEF ExitIntent, Intent, Position, AgeCap

\* A cancellation only takes away, and it spends at most one fault.
LEMMA CancelType ==
  ASSUME TypeOK, NEW E, CancelEntries(E)
  PROVE  /\ pending' \subseteq pending
         /\ pending' \subseteq Intent
         /\ orders' \subseteq OrderIds
         /\ faults' \in 0..MaxFaults
BY ServiceAssumption DEF CancelEntries, Fault, TypeOK

\* Queueing an intent, with its event or without, keeps memory and table typed.
LEMMA EnqueueType ==
  ASSUME TypeOK, NEW i \in Intent,
         (Enqueue(i) /\ UNCHANGED faults) \/ EnqueueFails(i)
  PROVE  /\ pending' \subseteq Intent
         /\ orders' \subseteq OrderIds
         /\ faults' \in 0..MaxFaults
BY ServiceAssumption DEF Enqueue, EnqueueFails, Fault, TypeOK, Intent

\* An intent one tick older, its age capped, is an intent.
LEMMA TickType ==
  ASSUME TypeOK, Tick
  PROVE  pending' \subseteq Intent
<1> SUFFICES ASSUME NEW j \in pending'
             PROVE  j \in Intent
  OBVIOUS
<1>1. PICK i \in pending : j = [i EXCEPT !.age = IF @ = AgeCap THEN @ ELSE @ + 1]
  BY DEF Tick
<1>2. i \in Intent
  BY DEF TypeOK
<1>3. (IF i.age = AgeCap THEN i.age ELSE i.age + 1) \in 0..AgeCap
  BY <1>2, ServiceAssumption DEF Intent, AgeCap
<1> QED
  BY <1>1, <1>2, <1>3 DEF Intent

\* The process starts down, with nothing in memory and an empty order table.
LEMMA TypeInit == Init => TypeOK
<1> SUFFICES ASSUME Init
             PROVE  TypeOK
  OBVIOUS
<1>1. enabled \in [Strategies -> BOOLEAN]
  BY DEF Init
<1>2. /\ healthy \in BOOLEAN /\ active \in BOOLEAN /\ integrity \in BOOLEAN
      /\ hard \in BOOLEAN /\ sampled \in BOOLEAN
  BY DEF Init
<1>3. faults \in 0..MaxFaults /\ restarts \in 0..MaxRestarts
  BY ServiceAssumption DEF Init
<1> QED
  BY <1>1, <1>2, <1>3 DEF Init, TypeOK, Handlers

\* Starting, recovering and ending the process keep the types.
LEMMA TypeProcess == TypeOK /\ Process => TypeOK'
<1> SUFFICES ASSUME TypeOK, Process
             PROVE  TypeOK'
  OBVIOUS
<1>1. ASSUME NEW gate \in BOOLEAN, Initialize(gate)
      PROVE  TypeOK'
  BY <1>1 DEF TypeOK, Initialize, Handlers, durable, bounds
<1>2. ASSUME NEW o \in OrderIds, CancelOrphan(o)
      PROVE  TypeOK'
  BY <1>2 DEF TypeOK, CancelOrphan, handler, flags, bounds
<1>3. CASE RecoveryDone
  BY <1>3 DEF TypeOK, RecoveryDone, Release, Handlers, durable, flags, bounds
<1>4. CASE Shutdown \/ Crash
  <2>1. Terminate
    BY <1>4 DEF Shutdown, Crash
  <2>2. /\ healthy' \in BOOLEAN /\ active' \in BOOLEAN /\ integrity' \in BOOLEAN
        /\ hard' \in BOOLEAN /\ sampled' \in BOOLEAN
    BY <2>1 DEF Terminate, TypeOK
  <2>3. restarts' \in 0..MaxRestarts
    BY <2>1, ServiceAssumption DEF Terminate, TypeOK
  <2> QED
    BY <2>1, <2>2, <2>3 DEF TypeOK, Terminate, Handlers, durable
<1> QED
  BY <1>1, <1>2, <1>3, <1>4 DEF Process

\* The steps of on_book up to the fills.
LEMMA TypeSettle ==
  ASSUME TypeOK, NEW i, Settle(i)
  PROVE  /\ pending' \subseteq Intent
         /\ orders' \subseteq OrderIds
         /\ work' \subseteq OrderIds \cup PositionIds \cup Strategies
BY DEF Settle, TypeOK

\* Every fate of a due intent keeps the types.
LEMMA TypeDue ==
  ASSUME TypeOK, NEW i \in pending, NEW dead \in BOOLEAN,
         \/ CancelDue(i) \/ RejectDue(i) \/ FillEntry(i, dead)
         \/ FillEntryRaises(i, dead) \/ FillExit(i) \/ IntentRaises(i)
  PROVE  TypeOK'
<1>1. i \in Intent
  BY DEF TypeOK
<1>2. CASE CancelDue(i) \/ RejectDue(i)
  <2>1. Settle(i)
    BY <1>2 DEF CancelDue, RejectDue
  <2> QED
    BY <1>2, <2>1, TypeSettle DEF CancelDue, RejectDue, TypeOK, flags, bounds
<1>3. CASE FillEntry(i, dead)
  <2>1. Settle(i)
    BY <1>3 DEF FillEntry
  <2>2. positions' \subseteq Position
    <3>1. PICK id \in FreshPositions :
            positions' = positions \cup
              {[id |-> id, strategy |-> i.strategy, ripe |-> FALSE, dead |-> dead]}
      BY <1>3 DEF FillEntry
    <3>2. [id |-> id, strategy |-> i.strategy, ripe |-> FALSE, dead |-> dead] \in Position
      BY <1>1 DEF Intent, Position, FreshPositions
    <3> QED
      BY <3>1, <3>2 DEF TypeOK
  <2>3. invalidated' \subseteq Strategies
    BY <1>1, <1>3 DEF FillEntry, Marked, TypeOK, Intent
  <2>4. current' \in Fill
    BY <1>1, <1>3 DEF FillEntry, Fill, Intent
  <2>5. mode' \in Handlers
    BY <1>3 DEF FillEntry, Handlers
  <2> QED
    BY <1>3, <2>1, <2>2, <2>3, <2>4, <2>5, TypeSettle
       DEF FillEntry, TypeOK, flags, bounds
<1>4. CASE FillEntryRaises(i, dead)
  <2>1. invalidated' \subseteq Strategies
    BY <1>1, <1>4 DEF FillEntryRaises, Marked, TypeOK, Intent
  <2> QED
    BY <1>4, <2>1
       DEF FillEntryRaises, Release, TypeOK, Handlers, flags, durable, bounds
<1>5. CASE FillExit(i)
  <2>1. Settle(i)
    BY <1>5 DEF FillExit
  <2>2. current' \in Fill
    BY <1>1, <1>5 DEF FillExit, Fill, Intent
  <2>3. mode' \in Handlers
    BY <1>5 DEF FillExit, Handlers
  <2>4. positions' \subseteq Position
    BY <1>5 DEF FillExit, TypeOK
  <2> QED
    BY <1>5, <2>1, <2>2, <2>3, <2>4, TypeSettle DEF FillExit, TypeOK, flags, bounds
<1>6. CASE IntentRaises(i)
  BY <1>6 DEF IntentRaises, Release, TypeOK, Handlers, flags, durable, bounds
<1> QED
  BY <1>2, <1>3, <1>4, <1>5, <1>6

\* What a queueing step changes keeps its type.
LEMMA TypeQueueExit ==
  ASSUME TypeOK, NEW p \in positions, NEW o \in FreshOrders, NEW r \in BOOLEAN,
         \/ Enqueue(ExitIntent(o, p, r)) /\ UNCHANGED faults
         \/ EnqueueFails(ExitIntent(o, p, r))
  PROVE  /\ pending' \subseteq Intent
         /\ orders' \subseteq OrderIds
         /\ faults' \in 0..MaxFaults
<1>1. ExitIntent(o, p, r) \in Intent
  BY ExitIntentType DEF TypeOK, FreshOrders
<1> QED
  BY <1>1, EnqueueType

\* A queued entry keeps the types.
LEMMA TypeQueueEntry ==
  ASSUME TypeOK, NEW s \in Strategies, NEW o \in FreshOrders,
         \/ Enqueue(EntryIntent(o, s)) /\ UNCHANGED faults
         \/ EnqueueFails(EntryIntent(o, s))
  PROVE  /\ pending' \subseteq Intent
         /\ orders' \subseteq OrderIds
         /\ faults' \in 0..MaxFaults
<1>1. EntryIntent(o, s) \in Intent
  BY EntryIntentType DEF FreshOrders
<1> QED
  BY <1>1, EnqueueType

\* The unwind drain and the reversal after a fill keep the types.
LEMMA TypeAftermath ==
  ASSUME TypeOK,
         (\E s \in Strategies : Unwind(s)) \/ Reverse \/ NextIntent \/ SkipMaintenance
  PROVE  TypeOK'
<1>1. ASSUME NEW s \in Strategies, Unwind(s)
      PROVE  TypeOK'
  <2>1. /\ pending' \subseteq Intent
        /\ orders' \subseteq OrderIds
        /\ faults' \in 0..MaxFaults
    <3>1. CASE UNCHANGED <<pending, orders, faults>>
      BY <3>1 DEF TypeOK
    <3>2. CASE \E p \in positions, o \in FreshOrders :
                 \/ Enqueue(ExitIntent(o, p, FALSE)) /\ UNCHANGED faults
                 \/ EnqueueFails(ExitIntent(o, p, FALSE))
      BY <3>2, TypeQueueExit
    <3> QED
      BY <1>1, <3>1, <3>2 DEF Unwind
  <2> QED
    BY <1>1, <2>1 DEF Unwind, TypeOK, handler, flags
<1>2. CASE Reverse
  <2>1. /\ mode' \in Handlers /\ mode' # "post"
        /\ current' = None /\ healthy' \in BOOLEAN
        /\ work' \subseteq OrderIds \cup PositionIds \cup Strategies
    BY <1>2 DEF Reverse, Release, Handlers, TypeOK
  <2>2. /\ pending' \subseteq Intent
        /\ orders' \subseteq OrderIds
        /\ faults' \in 0..MaxFaults
    <3>1. CASE UNCHANGED <<pending, orders, faults>>
      BY <3>1 DEF TypeOK
    <3>2. CASE \E o \in FreshOrders :
                 /\ EntryApproved(current.strategy)
                 /\ \/ /\ Enqueue(EntryIntent(o, current.strategy))
                       /\ UNCHANGED faults
                    \/ EnqueueFails(EntryIntent(o, current.strategy))
      <4>1. current.strategy \in Strategies
        BY <1>2 DEF Reverse, TypeOK, Fill
      <4> QED
        BY <3>2, <4>1, TypeQueueEntry
    <3> QED
      BY <1>2, <3>1, <3>2 DEF Reverse
  <2> QED
    BY <1>2, <2>1, <2>2 DEF Reverse, TypeOK, flags
<1>3. CASE NextIntent
  BY <1>3 DEF NextIntent, TypeOK, Handlers, flags, durable, bounds
<1>4. CASE SkipMaintenance
  BY <1>4 DEF SkipMaintenance, Release, TypeOK, Handlers, flags, durable, bounds
<1> QED
  BY <1>1, <1>2, <1>3, <1>4

\* Marking, the governor's cancellations and its exits keep the types.
LEMMA TypeMaintenance ==
  ASSUME TypeOK,
         Maintain \/ (\E p \in positions : QueueExit(p)) \/ BookDone \/ BookWriteFails
  PROVE  TypeOK'
<1>1. CASE Maintain
  <2>1. /\ pending' \subseteq Intent
        /\ orders' \subseteq OrderIds
        /\ faults' \in 0..MaxFaults
    BY <1>1, CancelType DEF Maintain
  <2>2. /\ mode' \in Handlers
        /\ work' \subseteq OrderIds \cup PositionIds \cup Strategies
        /\ current' \in (IF mode' = "post" THEN Fill ELSE {None})
        /\ healthy' \in BOOLEAN
    <3>1. CASE Release
      BY <3>1 DEF Release, Handlers
    <3>2. CASE \E L \in SUBSET positions :
                 /\ mode' = "exits"
                 /\ work' = {p.id : p \in L}
                 /\ UNCHANGED <<current, healthy>>
      BY <1>1, <3>2 DEF Maintain, TypeOK, Position, Handlers
    <3> QED
      BY <1>1, <3>1, <3>2 DEF Maintain, Leaving
  <2> QED
    BY <1>1, <2>1, <2>2 DEF Maintain, TypeOK, flags
<1>2. ASSUME NEW p \in positions, QueueExit(p)
      PROVE  TypeOK'
  <2>1. /\ pending' \subseteq Intent
        /\ orders' \subseteq OrderIds
        /\ faults' \in 0..MaxFaults
    <3>1. CASE UNCHANGED <<pending, orders, faults>>
      BY <3>1 DEF TypeOK
    <3>2. CASE \E o \in FreshOrders :
                 \/ Enqueue(ExitIntent(o, p, FALSE)) /\ UNCHANGED faults
                 \/ EnqueueFails(ExitIntent(o, p, FALSE))
      BY <3>2, TypeQueueExit
    <3> QED
      BY <1>2, <3>1, <3>2 DEF QueueExit
  <2>2. /\ mode' \in Handlers
        /\ work' \subseteq OrderIds \cup PositionIds \cup Strategies
        /\ current' \in (IF mode' = "post" THEN Fill ELSE {None})
        /\ healthy' \in BOOLEAN
    BY <1>2 DEF QueueExit, Release, TypeOK, Handlers
  <2> QED
    BY <1>2, <2>1, <2>2 DEF QueueExit, TypeOK, flags
<1>3. CASE BookDone
  BY <1>3 DEF BookDone, Release, TypeOK, Handlers, flags, durable, bounds
<1>4. CASE BookWriteFails
  BY <1>4, ServiceAssumption
     DEF BookWriteFails, Fault, Release, TypeOK, Handlers, flags, durable
<1> QED
  BY <1>1, <1>2, <1>3, <1>4

\* Every step of the book callback keeps the types.
LEMMA TypeOnBook == TypeOK /\ OnBook => TypeOK'
<1> SUFFICES ASSUME TypeOK, OnBook
             PROVE  TypeOK'
  OBVIOUS
<1>1. ASSUME NEW fresh \in BOOLEAN, BookArrives(fresh)
      PROVE  TypeOK'
  BY <1>1 DEF BookArrives, Ids, TypeOK, Intent, Handlers, flags, durable, bounds
<1> QED
  BY <1>1, TypeDue, TypeAftermath, TypeMaintenance DEF OnBook

\* Every step of the evaluation loop keeps the types.
LEMMA TypeRun == TypeOK /\ Run => TypeOK'
<1> SUFFICES ASSUME TypeOK, Run
             PROVE  TypeOK'
  OBVIOUS
<1>1. CASE StartEvaluation
  BY <1>1 DEF StartEvaluation, TypeOK, Handlers, flags, durable, bounds
<1>2. ASSUME NEW s \in Strategies, Evaluate(s)
      PROVE  TypeOK'
  <2>1. /\ pending' \subseteq Intent
        /\ orders' \subseteq OrderIds
        /\ faults' \in 0..MaxFaults
    <3>1. CASE OpposeSignal(s)
      BY <3>1, TypeQueueExit DEF OpposeSignal
    <3>2. CASE EntrySignal(s)
      BY <3>2, TypeQueueEntry DEF EntrySignal
    <3>3. CASE NoOrder(s)
      BY <3>3 DEF NoOrder, TypeOK
    <3> QED
      BY <1>2, <3>1, <3>2, <3>3 DEF Evaluate
  <2>2. Latch \/ Evaluated(s)
    BY <1>2 DEF Evaluate, OpposeSignal, EntrySignal, NoOrder
  <2>3. /\ mode' \in Handlers
        /\ work' \subseteq OrderIds \cup PositionIds \cup Strategies
        /\ current' \in (IF mode' = "post" THEN Fill ELSE {None})
    BY <2>2 DEF Latch, Evaluated, Release, TypeOK, Handlers
  <2>4. /\ healthy' \in BOOLEAN
        /\ active' \in BOOLEAN /\ integrity' \in BOOLEAN /\ hard' \in BOOLEAN
    BY <2>2 DEF Latch, Evaluated, Release, TypeOK, flags
  <2> QED
    BY <1>2, <2>1, <2>3, <2>4 DEF Evaluate, TypeOK
<1>3. CASE EvaluationFails
  <2>1. /\ healthy' \in BOOLEAN
        /\ active' \in BOOLEAN /\ integrity' \in BOOLEAN /\ hard' \in BOOLEAN
    BY <1>3 DEF EvaluationFails, Latch, Release, TypeOK
  <2> QED
    BY <1>3, <2>1 DEF EvaluationFails, Latch, Release, TypeOK, Handlers, durable, bounds
<1>4. CASE EvaluationDone
  BY <1>4 DEF EvaluationDone, Release, TypeOK, Handlers, flags, durable, bounds
<1>5. CASE StopEngine
  <2>1. active' \in BOOLEAN
    BY <1>5 DEF StopEngine
  <2> QED
    BY <1>5, <2>1 DEF StopEngine, Release, TypeOK, Handlers, durable, bounds
<1>6. CASE LatchFails
  BY <1>6, ServiceAssumption
     DEF LatchFails, Fault, Release, TypeOK, Handlers, flags, durable
<1> QED
  BY <1>1, <1>2, <1>3, <1>4, <1>5, <1>6 DEF Run

\* Every HTTP handler keeps the types.
LEMMA TypeRequests == TypeOK /\ Requests => TypeOK'
<1> SUFFICES ASSUME TypeOK, Requests
             PROVE  TypeOK'
  OBVIOUS
<1>1. CASE StartEngine
  BY <1>1 DEF StartEngine, TypeOK, handler, durable, bounds
<1>2. CASE PauseEngine
  <2>1. active' \in BOOLEAN
    BY <1>2 DEF PauseEngine
  <2> QED
    BY <1>2, <2>1, CancelType DEF PauseEngine, TypeOK, handler
<1>3. ASSUME NEW s \in Strategies, NEW on \in BOOLEAN, UpdateStrategy(s, on)
      PROVE  TypeOK'
  <2>1. enabled' \in [Strategies -> BOOLEAN]
    BY <1>3 DEF UpdateStrategy, TypeOK
  <2> QED
    BY <1>3, <2>1, CancelType DEF UpdateStrategy, TypeOK, handler, flags
<1>4. ASSUME NEW p \in positions, ClosePosition(p)
      PROVE  TypeOK'
  <2>1. /\ pending' \subseteq Intent
        /\ orders' \subseteq OrderIds
        /\ faults' \in 0..MaxFaults
    BY <1>4, TypeQueueExit DEF ClosePosition
  <2> QED
    BY <1>4, <2>1 DEF ClosePosition, TypeOK, handler, flags
<1> QED
  BY <1>1, <1>2, <1>3, <1>4 DEF Requests

\* Every step of the service, or none, keeps the types.
LEMMA TypeNext == TypeOK /\ [Next]_vars => TypeOK'
<1> SUFFICES ASSUME TypeOK, [Next]_vars
             PROVE  TypeOK'
  OBVIOUS
<1>1. CASE Tick
  <2>1. pending' \subseteq Intent
    BY <1>1, TickType
  <2>2. sampled' \in BOOLEAN
    BY <1>1 DEF Tick
  <2> QED
    BY <1>1, <2>1, <2>2 DEF Tick, TypeOK, handler, flags, durable, bounds
<1>2. ASSUME NEW p \in positions, HoldExpires(p)
      PROVE  TypeOK'
  <2>1. [p EXCEPT !.ripe = TRUE] \in Position
    BY DEF TypeOK, Position
  <2> QED
    BY <1>2, <2>1 DEF HoldExpires, TypeOK, handler, flags, bounds
<1>3. CASE UNCHANGED vars
  BY <1>3 DEF TypeOK, vars, handler, flags, durable, bounds
<1> QED
  BY <1>1, <1>2, <1>3, TypeProcess, TypeOnBook, TypeRun, TypeRequests DEF Next

\* Every variable keeps its type: the service never holds an intent, a position
\* or a row of another shape than its handlers expect.
THEOREM TypeCorrect == Spec => []TypeOK
BY TypeInit, TypeNext, PTL DEF Spec
----------------------------------------------------------------------------
(***************************************************************************)
(* Slot exclusion.  What a step does to _pending and to the open positions *)
(* is one of seven effects; each has its lemma.                            *)
(***************************************************************************)

\* SlotExclusion is not inductive: a reversal queues its entry without asking
\* _pending_entry_for.  It needs the strategy whose exit just filled to have no
\* entry in flight.
ReversalSlotFree ==
  mode = "post" /\ current.reverse => ~EntryInFlight(current.strategy)

SlotInv == TypeOK /\ SlotExclusion /\ ReversalSlotFree

\* Intents leave; positions stay.
LEMMA SlotShrink ==
  ASSUME SlotExclusion, pending' \subseteq pending, UNCHANGED positions
  PROVE  SlotExclusion'
BY DEF SlotExclusion, OnePositionEach, OneIntentEach, EntryNeedsFreeSlot,
       ExitHasPosition, HasPosition

\* An exit is queued for an open position that has none.
LEMMA SlotAddExit ==
  ASSUME SlotExclusion, NEW p \in positions, ~ExitPending(p),
         NEW o \in FreshOrders, NEW r,
         pending' = pending \cup {ExitIntent(o, p, r)}, UNCHANGED positions
  PROVE  SlotExclusion'
<1> DEFINE x == ExitIntent(o, p, r)
<1>1. x.op = "EXIT" /\ x.order = o /\ x.position = p.id /\ x.strategy = p.strategy
  BY DEF ExitIntent
<1>2. \A i \in pending : i.order # o
  BY DEF FreshOrders, Ids
<1>3. \A i \in pending : ~(i.op = "EXIT" /\ i.position = p.id)
  BY DEF ExitPending
<1>4. pending' = pending \cup {x}
  OBVIOUS
<1> HIDE DEF x
<1>5. OnePositionEach'
  BY DEF SlotExclusion, OnePositionEach
<1>6. OneIntentEach'
  BY <1>1, <1>2, <1>3, <1>4 DEF SlotExclusion, OneIntentEach
<1>7. EntryNeedsFreeSlot'
  BY <1>1, <1>4 DEF SlotExclusion, EntryNeedsFreeSlot, HasPosition
<1>8. ExitHasPosition'
  BY <1>1, <1>4 DEF SlotExclusion, ExitHasPosition
<1> QED
  BY <1>5, <1>6, <1>7, <1>8 DEF SlotExclusion

\* An entry is queued for a strategy with neither position nor entry.
LEMMA SlotAddEntry ==
  ASSUME SlotExclusion, NEW s \in Strategies, ~HasPosition(s), ~EntryInFlight(s),
         NEW o \in FreshOrders,
         pending' = pending \cup {EntryIntent(o, s)}, UNCHANGED positions
  PROVE  SlotExclusion'
<1> DEFINE x == EntryIntent(o, s)
<1>1. x.op = "ENTRY" /\ x.order = o /\ x.strategy = s
  BY DEF EntryIntent
<1>2. \A i \in pending : i.order # o
  BY DEF FreshOrders, Ids
<1>3. \A i \in pending : ~(i.op = "ENTRY" /\ i.strategy = s)
  BY DEF EntryInFlight, Entries
<1>4. pending' = pending \cup {x}
  OBVIOUS
<1> HIDE DEF x
<1>5. OnePositionEach'
  BY DEF SlotExclusion, OnePositionEach
<1>6. OneIntentEach'
  BY <1>1, <1>2, <1>3, <1>4 DEF SlotExclusion, OneIntentEach
<1>7. EntryNeedsFreeSlot'
  BY <1>1, <1>4 DEF SlotExclusion, EntryNeedsFreeSlot, HasPosition
<1>8. ExitHasPosition'
  BY <1>1, <1>4 DEF SlotExclusion, ExitHasPosition
<1> QED
  BY <1>5, <1>6, <1>7, <1>8 DEF SlotExclusion

\* Time passes.
LEMMA SlotTick ==
  ASSUME TypeOK, SlotExclusion, Tick
  PROVE  SlotExclusion'
<1> DEFINE Older(i) == [i EXCEPT !.age = IF @ = AgeCap THEN @ ELSE @ + 1]
<1>1. \A i \in pending :
        /\ Older(i).order = i.order /\ Older(i).strategy = i.strategy
        /\ Older(i).op = i.op /\ Older(i).position = i.position
  BY DEF TypeOK, Intent
<1>2. pending' = {Older(i) : i \in pending}
  BY DEF Tick
<1>3. positions' = positions
  BY DEF Tick, durable
<1> HIDE DEF Older
<1>4. OnePositionEach'
  BY <1>3 DEF SlotExclusion, OnePositionEach
<1>5. OneIntentEach'
  BY <1>1, <1>2 DEF SlotExclusion, OneIntentEach
<1>6. EntryNeedsFreeSlot'
  BY <1>1, <1>2, <1>3 DEF SlotExclusion, EntryNeedsFreeSlot, HasPosition
<1>7. ExitHasPosition'
  BY <1>1, <1>2, <1>3 DEF SlotExclusion, ExitHasPosition
<1> QED
  BY <1>4, <1>5, <1>6, <1>7 DEF SlotExclusion

\* A position reaches its maximum holding.
LEMMA SlotHold ==
  ASSUME TypeOK, SlotExclusion, NEW p \in positions, HoldExpires(p)
  PROVE  SlotExclusion'
<1> DEFINE q == [p EXCEPT !.ripe = TRUE]
<1>1. q.id = p.id /\ q.strategy = p.strategy
  BY DEF TypeOK, Position
<1>2. positions' = (positions \ {p}) \cup {q} /\ pending' = pending
  BY DEF HoldExpires
<1> HIDE DEF q
<1>3. OnePositionEach'
  BY <1>1, <1>2 DEF SlotExclusion, OnePositionEach
<1>4. OneIntentEach'
  BY <1>2 DEF SlotExclusion, OneIntentEach
<1>5. EntryNeedsFreeSlot'
  BY <1>1, <1>2 DEF SlotExclusion, EntryNeedsFreeSlot, HasPosition
<1>6. ExitHasPosition'
  BY <1>1, <1>2 DEF SlotExclusion, ExitHasPosition
<1> QED
  BY <1>3, <1>4, <1>5, <1>6 DEF SlotExclusion

\* An entry becomes the position of its strategy.
LEMMA SlotFillEntry ==
  ASSUME TypeOK, SlotExclusion, NEW i \in pending, NEW dead \in BOOLEAN,
         FillEntry(i, dead)
  PROVE  SlotExclusion'
<1>1. PICK id \in FreshPositions :
        positions' = positions \cup
          {[id |-> id, strategy |-> i.strategy, ripe |-> FALSE, dead |-> dead]}
  BY DEF FillEntry
<1> DEFINE q == [id |-> id, strategy |-> i.strategy, ripe |-> FALSE, dead |-> dead]
<1>2. q.id = id /\ q.strategy = i.strategy
  OBVIOUS
<1>3. positions' = positions \cup {q}
  BY <1>1
<1>4. \A p \in positions : p.id # id
  BY DEF FreshPositions
<1>5. \A p \in positions : p.strategy # i.strategy
  BY DEF FillEntry, SlotExclusion, EntryNeedsFreeSlot, HasPosition
<1>6. pending' = pending \ {i} /\ i.op = "ENTRY"
  BY DEF FillEntry, Settle
<1> HIDE DEF q
<1>7. OnePositionEach'
  BY <1>2, <1>3, <1>4, <1>5 DEF SlotExclusion, OnePositionEach
<1>8. OneIntentEach'
  BY <1>6 DEF SlotExclusion, OneIntentEach
<1>9. EntryNeedsFreeSlot'
  BY <1>2, <1>3, <1>6
     DEF SlotExclusion, EntryNeedsFreeSlot, HasPosition, OneIntentEach
<1>10. ExitHasPosition'
  BY <1>3, <1>6 DEF SlotExclusion, ExitHasPosition
<1> QED
  BY <1>7, <1>8, <1>9, <1>10 DEF SlotExclusion

\* An exit removes its position.
LEMMA SlotFillExit ==
  ASSUME SlotExclusion, NEW i \in pending, FillExit(i)
  PROVE  SlotExclusion'
<1>1. /\ pending' = pending \ {i} /\ i.op = "EXIT"
      /\ positions' = {p \in positions : p.id # i.position}
  BY DEF FillExit, Settle
<1>2. OnePositionEach' /\ OneIntentEach' /\ EntryNeedsFreeSlot'
  BY <1>1 DEF SlotExclusion, OnePositionEach, OneIntentEach, EntryNeedsFreeSlot,
              HasPosition
<1>3. ExitHasPosition'
  BY <1>1 DEF SlotExclusion, ExitHasPosition, OneIntentEach
<1> QED
  BY <1>2, <1>3 DEF SlotExclusion
\* The queueing handlers.
LEMMA SlotQueueExit ==
  ASSUME SlotExclusion, NEW p \in positions, ~ExitPending(p),
         NEW o \in FreshOrders, NEW r, UNCHANGED positions,
         Enqueue(ExitIntent(o, p, r)) \/ EnqueueFails(ExitIntent(o, p, r))
  PROVE  SlotExclusion'
BY SlotAddExit DEF Enqueue, EnqueueFails

\* The entry queued for a strategy with a free slot, its event written or not.
LEMMA SlotQueueEntry ==
  ASSUME SlotExclusion, NEW s \in Strategies, EntryApproved(s), ~EntryInFlight(s),
         NEW o \in FreshOrders, UNCHANGED positions,
         Enqueue(EntryIntent(o, s)) \/ EnqueueFails(EntryIntent(o, s))
  PROVE  SlotExclusion'
BY SlotAddEntry DEF Enqueue, EnqueueFails, EntryApproved

\* A cancellation of entries only takes intents away.
LEMMA SlotCancel ==
  ASSUME SlotExclusion, NEW E, CancelEntries(E), UNCHANGED positions
  PROVE  SlotExclusion'
<1>1. pending' \subseteq pending
  BY DEF CancelEntries
<1> QED
  BY <1>1, SlotShrink

\* A process that starts or ends leaves positions alone and starts with no intent.
LEMMA SlotProcess == SlotInv /\ Process => SlotExclusion'
<1> SUFFICES ASSUME SlotInv, Process
             PROVE  SlotExclusion'
  OBVIOUS
<1>1. pending' \subseteq pending /\ UNCHANGED positions
  BY DEF Process, Initialize, CancelOrphan, RecoveryDone, Shutdown, Crash,
         Terminate, durable
<1> QED
  BY <1>1, SlotShrink DEF SlotInv

\* The book callback: fills move an intent to a position or remove both, and the
\* aftermath and the maintenance queue only into free slots.
LEMMA SlotOnBook == SlotInv /\ OnBook => SlotExclusion'
<1> SUFFICES ASSUME SlotInv, OnBook
             PROVE  SlotExclusion'
  OBVIOUS
<1> USE DEF SlotInv
<1>1. CASE \/ \E fresh \in BOOLEAN : BookArrives(fresh)
           \/ NextIntent \/ SkipMaintenance \/ BookDone \/ BookWriteFails
  <2>1. pending' \subseteq pending /\ UNCHANGED positions
    BY <1>1 DEF BookArrives, NextIntent, SkipMaintenance, BookDone,
                BookWriteFails, durable
  <2> QED
    BY <2>1, SlotShrink
<1>2. ASSUME NEW i \in pending, NEW dead \in BOOLEAN,
             \/ CancelDue(i) \/ RejectDue(i) \/ FillEntry(i, dead)
             \/ FillEntryRaises(i, dead) \/ FillExit(i) \/ IntentRaises(i)
      PROVE  SlotExclusion'
  <2>1. CASE CancelDue(i) \/ RejectDue(i) \/ FillEntryRaises(i, dead) \/ IntentRaises(i)
    <3>1. pending' \subseteq pending /\ UNCHANGED positions
      BY <2>1 DEF CancelDue, RejectDue, FillEntryRaises, IntentRaises, Settle, durable
    <3> QED
      BY <3>1, SlotShrink
  <2> QED
    BY <1>2, <2>1, SlotFillEntry, SlotFillExit
<1>3. ASSUME NEW s \in Strategies, Unwind(s)
      PROVE  SlotExclusion'
  <2>1. UNCHANGED positions
    BY <1>3 DEF Unwind
  <2>2. CASE UNCHANGED pending
    BY <2>1, <2>2, SlotShrink
  <2>3. CASE \E p \in positions, o \in FreshOrders :
               /\ ~ExitPending(p)
               /\ Enqueue(ExitIntent(o, p, FALSE)) \/ EnqueueFails(ExitIntent(o, p, FALSE))
    BY <2>1, <2>3, SlotQueueExit
  <2> QED
    BY <1>3, <2>2, <2>3 DEF Unwind
<1>4. CASE Reverse
  <2>1. UNCHANGED positions
    BY <1>4 DEF Reverse
  <2>2. CASE UNCHANGED pending
    BY <2>1, <2>2, SlotShrink
  <2>3. CASE \E o \in FreshOrders :
               /\ EntryApproved(current.strategy)
               /\ \/ Enqueue(EntryIntent(o, current.strategy))
                  \/ EnqueueFails(EntryIntent(o, current.strategy))
    <3>1. current.strategy \in Strategies /\ ~EntryInFlight(current.strategy)
      BY <1>4 DEF Reverse, TypeOK, Fill, ReversalSlotFree
    <3> QED
      BY <2>1, <2>3, <3>1, SlotQueueEntry
  <2> QED
    BY <1>4, <2>2, <2>3 DEF Reverse
<1>5. CASE Maintain
  BY <1>5, SlotCancel DEF Maintain
<1>6. ASSUME NEW p \in positions, QueueExit(p)
      PROVE  SlotExclusion'
  <2>1. UNCHANGED positions
    BY <1>6 DEF QueueExit
  <2>2. CASE UNCHANGED pending
    BY <2>1, <2>2, SlotShrink
  <2>3. CASE \E o \in FreshOrders :
               /\ ~ExitPending(p)
               /\ Enqueue(ExitIntent(o, p, FALSE)) \/ EnqueueFails(ExitIntent(o, p, FALSE))
    BY <2>1, <2>3, SlotQueueExit
  <2> QED
    BY <1>6, <2>2, <2>3 DEF QueueExit
<1> QED
  BY <1>1, <1>2, <1>3, <1>4, <1>5, <1>6 DEF OnBook

\* The evaluation loop queues an exit only where none is pending, an entry only
\* where the slot is free.
LEMMA SlotRun == SlotInv /\ Run => SlotExclusion'
<1> SUFFICES ASSUME SlotInv, Run
             PROVE  SlotExclusion'
  OBVIOUS
<1> USE DEF SlotInv
<1>1. CASE StartEvaluation \/ EvaluationFails \/ EvaluationDone \/ StopEngine \/ LatchFails
  <2>1. pending' \subseteq pending /\ UNCHANGED positions
    BY <1>1 DEF StartEvaluation, EvaluationFails, EvaluationDone, StopEngine,
                LatchFails, durable
  <2> QED
    BY <2>1, SlotShrink
<1>2. ASSUME NEW s \in Strategies, Evaluate(s)
      PROVE  SlotExclusion'
  <2>1. UNCHANGED positions
    BY <1>2 DEF Evaluate
  <2>2. CASE OpposeSignal(s)
    BY <2>1, <2>2, SlotQueueExit DEF OpposeSignal
  <2>3. CASE EntrySignal(s)
    BY <2>1, <2>3, SlotQueueEntry DEF EntrySignal
  <2>4. CASE NoOrder(s)
    BY <2>1, <2>4, SlotShrink DEF NoOrder
  <2> QED
    BY <1>2, <2>2, <2>3, <2>4 DEF Evaluate
<1> QED
  BY <1>1, <1>2 DEF Run

\* The HTTP handlers cancel entries or queue a manual exit.
LEMMA SlotRequests == SlotInv /\ Requests => SlotExclusion'
<1> SUFFICES ASSUME SlotInv, Requests
             PROVE  SlotExclusion'
  OBVIOUS
<1> USE DEF SlotInv
<1>1. CASE StartEngine
  <2>1. pending' \subseteq pending /\ UNCHANGED positions
    BY <1>1 DEF StartEngine, durable
  <2> QED
    BY <2>1, SlotShrink
<1>2. CASE PauseEngine
  BY <1>2, SlotCancel DEF PauseEngine
<1>3. ASSUME NEW s \in Strategies, NEW on \in BOOLEAN, UpdateStrategy(s, on)
      PROVE  SlotExclusion'
  BY <1>3, SlotCancel DEF UpdateStrategy
<1>4. ASSUME NEW p \in positions, ClosePosition(p)
      PROVE  SlotExclusion'
  BY <1>4, SlotQueueExit DEF ClosePosition
<1> QED
  BY <1>1, <1>2, <1>3, <1>4 DEF Requests

\* No step of the service makes two occupants of a slot.
LEMMA SlotNext == SlotInv /\ [Next]_vars => SlotExclusion'
<1> SUFFICES ASSUME SlotInv, [Next]_vars
             PROVE  SlotExclusion'
  OBVIOUS
<1>1. CASE UNCHANGED vars
  <2>1. pending' \subseteq pending /\ UNCHANGED positions
    BY <1>1 DEF vars, durable
  <2> QED
    BY <2>1, SlotShrink DEF SlotInv
<1> QED
  BY <1>1, SlotProcess, SlotTick, SlotHold, SlotOnBook, SlotRun, SlotRequests
     DEF Next, SlotInv

\* Only a fill starts an aftermath, and only the drain of the markers runs in it.
LEMMA ReversalNext == SlotInv /\ [Next]_vars => ReversalSlotFree'
<1> SUFFICES ASSUME SlotInv, [Next]_vars, mode' = "post", current'.reverse
             PROVE  ~EntryInFlight(current.strategy)'
  BY DEF ReversalSlotFree
<1> USE DEF SlotInv
<1>1. ASSUME NEW i \in pending, FillExit(i)
      PROVE  ~EntryInFlight(current.strategy)'
  <2>1. current'.strategy = i.strategy /\ pending' = pending \ {i} /\ i.op = "EXIT"
    BY <1>1 DEF FillExit, Settle
  <2>2. HasPosition(i.strategy)
    BY <2>1 DEF SlotExclusion, ExitHasPosition, HasPosition
  <2> QED
    BY <2>1, <2>2 DEF EntryInFlight, Entries, SlotExclusion, EntryNeedsFreeSlot
<1>2. ASSUME NEW i \in pending, NEW dead \in BOOLEAN, FillEntry(i, dead)
      PROVE  FALSE
  BY <1>2 DEF FillEntry
<1>3. ASSUME NEW s \in Strategies, Unwind(s)
      PROVE  ~EntryInFlight(current.strategy)'
  <2>1. mode = "post" /\ current' = current
    BY <1>3 DEF Unwind, handler
  <2>2. \A j \in pending' : j.op = "ENTRY" => j \in pending
    BY <1>3 DEF Unwind, Enqueue, EnqueueFails, ExitIntent
  <2> QED
    BY <2>1, <2>2 DEF ReversalSlotFree, EntryInFlight, Entries
<1>4. CASE UNCHANGED vars
  BY <1>4 DEF vars, handler, ReversalSlotFree, EntryInFlight, Entries
<1>5. CASE Process \/ Tick \/ (\E p \in positions : HoldExpires(p)) \/ Requests \/ Run
  BY <1>5 DEF Process, Initialize, CancelOrphan, RecoveryDone, Shutdown, Crash,
              Terminate, Release, Tick, HoldExpires, Requests, StartEngine,
              PauseEngine, UpdateStrategy, ClosePosition, Run, StartEvaluation,
              Evaluate, OpposeSignal, EntrySignal, NoOrder, Evaluated, Latch,
              EvaluationFails, EvaluationDone, StopEngine, LatchFails, LockFree, handler
<1>6. CASE \/ \E fresh \in BOOLEAN : BookArrives(fresh)
           \/ \E i \in pending :
                \/ CancelDue(i) \/ RejectDue(i) \/ IntentRaises(i)
                \/ \E dead \in BOOLEAN : FillEntryRaises(i, dead)
           \/ Reverse \/ NextIntent \/ SkipMaintenance \/ Maintain
           \/ \E p \in positions : QueueExit(p)
           \/ BookDone \/ BookWriteFails
  BY <1>6 DEF BookArrives, CancelDue, RejectDue, NextDue, IntentRaises,
              FillEntryRaises, Reverse, NextIntent, SkipMaintenance, Maintain,
              QueueExit, BookDone, BookWriteFails, Release
<1> QED
  BY <1>1, <1>2, <1>3, <1>4, <1>5, <1>6 DEF Next, OnBook

\* No slot is taken when the process is first started.
LEMMA SlotInvInit == Init => SlotInv
BY TypeInit
   DEF Init, SlotInv, SlotExclusion, OnePositionEach, OneIntentEach,
       EntryNeedsFreeSlot, ExitHasPosition, ReversalSlotFree

\* At all times each strategy has one slot: an entry on its way or a position,
\* whatever handlers interleave, restart or fail to write.
THEOREM SlotsAreExclusive == Spec => []SlotExclusion
<1>1. SlotInv /\ [Next]_vars => SlotInv'
  BY TypeNext, SlotNext, ReversalNext DEF SlotInv
<1>2. SlotInv => SlotExclusion
  BY DEF SlotInv
<1> QED
  BY SlotInvInit, <1>1, <1>2, PTL DEF Spec
----------------------------------------------------------------------------
(***************************************************************************)
(* The service implements the abstract lifecycle.  The same effects, seen  *)
(* through the refinement mapping.                                         *)
(***************************************************************************)
Legal(s) == phase'[s] \in Lifecycle!Successors(phase[s], armed[s])

\* The phase of a strategy, read from the two facts that decide it.
LEMMA PhaseCases ==
  ASSUME NEW s \in Strategies
  PROVE  /\ phase[s] = Phase(s)
         /\ Phase(s) \in Lifecycle!Phases
         /\ phase'[s] = Phase(s)'
         /\ Phase(s)' \in Lifecycle!Phases
BY DEF phase, Phase, Lifecycle!Phases

\* A strategy whose position, entry and exit all stay as they are.
LEMMA LegalStutter ==
  ASSUME NEW s \in Strategies, Phase(s)' = Phase(s)
  PROVE  Legal(s)
BY PhaseCases DEF Legal, Lifecycle!Successors, Lifecycle!Phases

\* Cancelled entries bring their strategies from ENTERING back to FLAT.
LEMMA LegalShrink ==
  ASSUME NEW s \in Strategies, pending' \subseteq pending, UNCHANGED positions
  PROVE  Legal(s)
<1>1. HasPosition(s)' = HasPosition(s)
  BY DEF HasPosition
<1>2. EntryInFlight(s)' => EntryInFlight(s)
  BY DEF EntryInFlight, Entries
<1>3. (\E i \in pending : i.op = "EXIT" /\ i.strategy = s)'
        => \E i \in pending : i.op = "EXIT" /\ i.strategy = s
  OBVIOUS
<1>4. \/ Phase(s)' = Phase(s)
      \/ Phase(s) = "ENTERING" /\ Phase(s)' = "FLAT"
      \/ Phase(s) = "EXITING" /\ Phase(s)' = "OPEN"
  BY <1>1, <1>2, <1>3 DEF Phase
<1> QED
  BY <1>4, LegalStutter, PhaseCases DEF Legal, Lifecycle!Successors

\* A queued exit brings one strategy from OPEN to EXITING.
LEMMA LegalQueueExit ==
  ASSUME SlotExclusion, NEW s \in Strategies, NEW p \in positions,
         NEW o, NEW r, UNCHANGED positions,
         Enqueue(ExitIntent(o, p, r)) \/ EnqueueFails(ExitIntent(o, p, r))
  PROVE  Legal(s)
<1> DEFINE x == ExitIntent(o, p, r)
<1>1. x.op = "EXIT" /\ x.strategy = p.strategy
  BY DEF ExitIntent
<1>2. pending' = pending \cup {x}
  BY DEF Enqueue, EnqueueFails
<1> HIDE DEF x
<1>3. HasPosition(s)' = HasPosition(s) /\ EntryInFlight(s)' = EntryInFlight(s)
  BY <1>1, <1>2 DEF HasPosition, EntryInFlight, Entries
<1>4. CASE s = p.strategy
  <2>1. HasPosition(s)
    BY <1>4 DEF HasPosition
  <2>2. Phase(s) \in {"OPEN", "EXITING"} /\ Phase(s)' = "EXITING"
    BY <1>1, <1>2, <1>3, <1>4, <2>1 DEF Phase
  <2> QED
    BY <2>2, PhaseCases DEF Legal, Lifecycle!Successors
<1>5. CASE s # p.strategy
  <2>1. Phase(s)' = Phase(s)
    BY <1>1, <1>2, <1>3, <1>5 DEF Phase
  <2> QED
    BY <2>1, LegalStutter
<1> QED
  BY <1>4, <1>5

\* A queued entry brings one armed strategy from FLAT to ENTERING.
LEMMA LegalQueueEntry ==
  ASSUME NEW s \in Strategies, NEW q \in Strategies, EntryApproved(q),
         NEW o, UNCHANGED positions,
         Enqueue(EntryIntent(o, q)) \/ EnqueueFails(EntryIntent(o, q))
  PROVE  Legal(s)
<1> DEFINE x == EntryIntent(o, q)
<1>1. x.op = "ENTRY" /\ x.strategy = q
  BY DEF EntryIntent
<1>2. pending' = pending \cup {x}
  BY DEF Enqueue, EnqueueFails
<1> HIDE DEF x
<1>3. HasPosition(s)' = HasPosition(s)
  BY DEF HasPosition
<1>4. CASE s = q
  <2>1. ~HasPosition(s) /\ armed[s] = TRUE
    BY <1>4 DEF EntryApproved, armed
  <2>2. Phase(s) \in {"FLAT", "ENTERING"} /\ Phase(s)' = "ENTERING"
    BY <1>1, <1>2, <1>3, <1>4, <2>1 DEF Phase, EntryInFlight, Entries
  <2> QED
    BY <2>1, <2>2, PhaseCases DEF Legal, Lifecycle!Successors
<1>5. CASE s # q
  <2>1. Phase(s)' = Phase(s)
    BY <1>1, <1>2, <1>3, <1>5 DEF Phase, EntryInFlight, Entries
  <2> QED
    BY <2>1, LegalStutter
<1> QED
  BY <1>4, <1>5

\* Older intents are the same intents: no phase changes.
LEMMA LegalTick ==
  ASSUME TypeOK, NEW s \in Strategies, Tick
  PROVE  Legal(s)
<1> DEFINE Older(i) == [i EXCEPT !.age = IF @ = AgeCap THEN @ ELSE @ + 1]
<1>1. \A i \in pending : Older(i).strategy = i.strategy /\ Older(i).op = i.op
  BY DEF TypeOK, Intent
<1>2. pending' = {Older(i) : i \in pending} /\ positions' = positions
  BY DEF Tick, durable
<1> HIDE DEF Older
<1>3. Phase(s)' = Phase(s)
  BY <1>1, <1>2 DEF Phase, HasPosition, EntryInFlight, Entries
<1> QED
  BY <1>3, LegalStutter

\* A ripe position is the same position: no phase changes.
LEMMA LegalHold ==
  ASSUME TypeOK, NEW s \in Strategies, NEW p \in positions, HoldExpires(p)
  PROVE  Legal(s)
<1> DEFINE q == [p EXCEPT !.ripe = TRUE]
<1>1. q.strategy = p.strategy
  BY DEF TypeOK, Position
<1>2. positions' = (positions \ {p}) \cup {q} /\ pending' = pending
  BY DEF HoldExpires
<1> HIDE DEF q
<1>3. Phase(s)' = Phase(s)
  BY <1>1, <1>2 DEF Phase, HasPosition, EntryInFlight, Entries
<1> QED
  BY <1>3, LegalStutter

\* A filled entry brings one armed strategy from ENTERING to OPEN.
LEMMA LegalFillEntry ==
  ASSUME TypeOK, SlotExclusion, NEW s \in Strategies, NEW i \in pending,
         NEW dead \in BOOLEAN, FillEntry(i, dead)
  PROVE  Legal(s)
<1>1. PICK id \in FreshPositions :
        positions' = positions \cup
          {[id |-> id, strategy |-> i.strategy, ripe |-> FALSE, dead |-> dead]}
  BY DEF FillEntry
<1> DEFINE q == [id |-> id, strategy |-> i.strategy, ripe |-> FALSE, dead |-> dead]
<1>2. q.strategy = i.strategy /\ positions' = positions \cup {q}
  BY <1>1
<1>3. pending' = pending \ {i} /\ i.op = "ENTRY"
  BY DEF FillEntry, Settle
<1> HIDE DEF q
<1>4. CASE s = i.strategy
  <2>1. ~HasPosition(s) /\ HasPosition(s)'
    BY <1>2, <1>4 DEF FillEntry, EntryRefused, HasPosition
  <2>2. \A j \in pending' : ~(j.op = "EXIT" /\ j.strategy = s)
    BY <1>3, <2>1 DEF SlotExclusion, ExitHasPosition, HasPosition
  <2>3. Phase(s) = "ENTERING"
    BY <1>3, <1>4, <2>1 DEF Phase, EntryInFlight, Entries
  <2>4. Phase(s)' = "OPEN"
    BY <2>1, <2>2 DEF Phase
  <2>5. armed[s] = TRUE
    BY <1>4 DEF FillEntry, EntryRefused, armed
  <2> QED
    BY <2>3, <2>4, <2>5, PhaseCases DEF Legal, Lifecycle!Successors
<1>5. CASE s # i.strategy
  <2>1. Phase(s)' = Phase(s)
    BY <1>2, <1>3, <1>5 DEF Phase, HasPosition, EntryInFlight, Entries
  <2> QED
    BY <2>1, LegalStutter
<1> QED
  BY <1>4, <1>5

\* A filled exit brings one strategy from EXITING to FLAT.
LEMMA LegalFillExit ==
  ASSUME SlotExclusion, NEW s \in Strategies, NEW i \in pending, FillExit(i)
  PROVE  Legal(s)
<1>1. /\ pending' = pending \ {i} /\ i.op = "EXIT"
      /\ positions' = {p \in positions : p.id # i.position}
  BY DEF FillExit, Settle
<1>2. PICK p \in positions : p.id = i.position /\ p.strategy = i.strategy
  BY <1>1 DEF SlotExclusion, ExitHasPosition
<1>3. positions' = positions \ {p}
  BY <1>1, <1>2 DEF SlotExclusion, OnePositionEach
<1>4. CASE s = i.strategy
  <2>1. HasPosition(s) /\ ~HasPosition(s)'
    BY <1>2, <1>3, <1>4 DEF HasPosition, SlotExclusion, OnePositionEach
  <2>2. ~EntryInFlight(s)'
    BY <1>1, <2>1 DEF EntryInFlight, Entries, SlotExclusion, EntryNeedsFreeSlot
  <2>3. Phase(s) = "EXITING" /\ Phase(s)' = "FLAT"
    BY <1>1, <1>4, <2>1, <2>2 DEF Phase
  <2> QED
    BY <2>3, PhaseCases DEF Legal, Lifecycle!Successors
<1>5. CASE s # i.strategy
  <2>1. Phase(s)' = Phase(s)
    BY <1>1, <1>2, <1>3, <1>5 DEF Phase, HasPosition, EntryInFlight, Entries
  <2> QED
    BY <2>1, LegalStutter
<1> QED
  BY <1>4, <1>5

\* The end of the process drops intents: ENTERING to FLAT, EXITING to OPEN.
LEMMA LegalProcess ==
  ASSUME NEW s \in Strategies, Process
  PROVE  Legal(s)
<1>1. pending' \subseteq pending /\ UNCHANGED positions
  BY DEF Process, Initialize, CancelOrphan, RecoveryDone, Shutdown, Crash,
         Terminate, durable
<1> QED
  BY <1>1, LegalShrink

\* Each step of the book callback is a legal step of every strategy.
LEMMA LegalOnBook ==
  ASSUME SlotInv, NEW s \in Strategies, OnBook
  PROVE  Legal(s)
<1> USE DEF SlotInv
<1>1. CASE \/ \E fresh \in BOOLEAN : BookArrives(fresh)
           \/ NextIntent \/ SkipMaintenance \/ BookDone \/ BookWriteFails
  <2>1. pending' \subseteq pending /\ UNCHANGED positions
    BY <1>1 DEF BookArrives, NextIntent, SkipMaintenance, BookDone,
                BookWriteFails, durable
  <2> QED
    BY <2>1, LegalShrink
<1>2. ASSUME NEW i \in pending, NEW dead \in BOOLEAN,
             \/ CancelDue(i) \/ RejectDue(i) \/ FillEntry(i, dead)
             \/ FillEntryRaises(i, dead) \/ FillExit(i) \/ IntentRaises(i)
      PROVE  Legal(s)
  <2>1. CASE CancelDue(i) \/ RejectDue(i) \/ FillEntryRaises(i, dead) \/ IntentRaises(i)
    <3>1. pending' \subseteq pending /\ UNCHANGED positions
      BY <2>1 DEF CancelDue, RejectDue, FillEntryRaises, IntentRaises, Settle, durable
    <3> QED
      BY <3>1, LegalShrink
  <2> QED
    BY <1>2, <2>1, LegalFillEntry, LegalFillExit
<1>3. ASSUME NEW q \in Strategies, Unwind(q)
      PROVE  Legal(s)
  <2>1. UNCHANGED positions
    BY <1>3 DEF Unwind
  <2>2. CASE UNCHANGED pending
    BY <2>1, <2>2, LegalShrink
  <2>3. CASE \E p \in positions, o \in FreshOrders :
               Enqueue(ExitIntent(o, p, FALSE)) \/ EnqueueFails(ExitIntent(o, p, FALSE))
    BY <2>1, <2>3, LegalQueueExit
  <2> QED
    BY <1>3, <2>2, <2>3 DEF Unwind
<1>4. CASE Reverse
  <2>1. UNCHANGED positions
    BY <1>4 DEF Reverse
  <2>2. CASE UNCHANGED pending
    BY <2>1, <2>2, LegalShrink
  <2>3. CASE \E o \in FreshOrders :
               /\ EntryApproved(current.strategy)
               /\ \/ Enqueue(EntryIntent(o, current.strategy))
                  \/ EnqueueFails(EntryIntent(o, current.strategy))
    <3>1. current.strategy \in Strategies
      BY <1>4 DEF Reverse, TypeOK, Fill
    <3> QED
      BY <2>1, <2>3, <3>1, LegalQueueEntry
  <2> QED
    BY <1>4, <2>2, <2>3 DEF Reverse
<1>5. CASE Maintain
  <2>1. pending' \subseteq pending /\ UNCHANGED positions
    BY <1>5 DEF Maintain, CancelEntries
  <2> QED
    BY <2>1, LegalShrink
<1>6. ASSUME NEW p \in positions, QueueExit(p)
      PROVE  Legal(s)
  <2>1. UNCHANGED positions
    BY <1>6 DEF QueueExit
  <2>2. CASE UNCHANGED pending
    BY <2>1, <2>2, LegalShrink
  <2>3. CASE \E o \in FreshOrders :
               Enqueue(ExitIntent(o, p, FALSE)) \/ EnqueueFails(ExitIntent(o, p, FALSE))
    BY <2>1, <2>3, LegalQueueExit
  <2> QED
    BY <1>6, <2>2, <2>3 DEF QueueExit
<1> QED
  BY <1>1, <1>2, <1>3, <1>4, <1>5, <1>6 DEF OnBook

\* Each step of the evaluation loop is a legal step of every strategy.
LEMMA LegalRun ==
  ASSUME SlotInv, NEW s \in Strategies, Run
  PROVE  Legal(s)
<1> USE DEF SlotInv
<1>1. CASE StartEvaluation \/ EvaluationFails \/ EvaluationDone \/ StopEngine \/ LatchFails
  <2>1. pending' \subseteq pending /\ UNCHANGED positions
    BY <1>1 DEF StartEvaluation, EvaluationFails, EvaluationDone, StopEngine,
                LatchFails, durable
  <2> QED
    BY <2>1, LegalShrink
<1>2. ASSUME NEW q \in Strategies, Evaluate(q)
      PROVE  Legal(s)
  <2>1. UNCHANGED positions
    BY <1>2 DEF Evaluate
  <2>2. CASE OpposeSignal(q)
    BY <2>1, <2>2, LegalQueueExit DEF OpposeSignal
  <2>3. CASE EntrySignal(q)
    BY <2>1, <2>3, LegalQueueEntry DEF EntrySignal
  <2>4. CASE NoOrder(q)
    BY <2>1, <2>4, LegalShrink DEF NoOrder
  <2> QED
    BY <1>2, <2>2, <2>3, <2>4 DEF Evaluate
<1> QED
  BY <1>1, <1>2 DEF Run

\* Each HTTP handler is a legal step of every strategy.
LEMMA LegalRequests ==
  ASSUME SlotInv, NEW s \in Strategies, Requests
  PROVE  Legal(s)
<1>1. CASE StartEngine \/ PauseEngine
           \/ \E q \in Strategies, on \in BOOLEAN : UpdateStrategy(q, on)
  <2>1. pending' \subseteq pending /\ UNCHANGED positions
    BY <1>1 DEF StartEngine, PauseEngine, UpdateStrategy, CancelEntries, durable
  <2> QED
    BY <2>1, LegalShrink
<1>2. ASSUME NEW p \in positions, ClosePosition(p)
      PROVE  Legal(s)
  BY <1>2, LegalQueueExit DEF ClosePosition, SlotInv
<1> QED
  BY <1>1, <1>2 DEF Requests

\* Each step of the service is a legal step of every strategy.
LEMMA LegalNext ==
  ASSUME SlotInv, [Next]_vars, NEW s \in Strategies
  PROVE  Legal(s)
<1>1. CASE UNCHANGED vars
  <2>1. pending' \subseteq pending /\ UNCHANGED positions
    BY <1>1 DEF vars, durable
  <2> QED
    BY <2>1, LegalShrink
<1> QED
  BY <1>1, LegalProcess, LegalTick, LegalHold, LegalOnBook, LegalRun, LegalRequests
     DEF Next, SlotInv

\* The service refines PaperLifecycle: a strategy enters and fills only while
\* armed, an open position leaves only through an exit, and crashes, aborted
\* handlers and failed writes drop intents but never a position.
THEOREM ImplementsLifecycle == Spec => LifecycleSpec
<1>1. Init => Lifecycle!Init
  BY DEF Init, Lifecycle!Init, phase, armed, Phase, HasPosition, EntryInFlight, Entries
<1>2. SlotInv /\ [Next]_vars => [Lifecycle!Next]_<<phase, armed>>
  <2> SUFFICES ASSUME SlotInv, [Next]_vars
               PROVE  Lifecycle!Next
    OBVIOUS
  <2>1. armed' \in [Strategies -> BOOLEAN]
    BY DEF armed
  <2>2. phase' \in [Strategies -> Lifecycle!Phases]
    BY PhaseCases DEF phase
  <2>3. \A s \in Strategies : phase'[s] \in Lifecycle!Successors(phase[s], armed[s])
    BY LegalNext DEF Legal
  <2> QED
    BY <2>1, <2>2, <2>3 DEF Lifecycle!Next
<1>3. SlotInv /\ [Next]_vars => SlotInv'
  BY TypeNext, SlotNext, ReversalNext DEF SlotInv
<1> QED
  BY <1>1, <1>2, <1>3, SlotInvInit, PTL DEF Spec, LifecycleSpec, Lifecycle!Spec

----------------------------------------------------------------------------
(***************************************************************************)
(* Memory and the order table.                                             *)
(***************************************************************************)

\* DurableMirror needs a process that is not serving to hold no intents, and
\* ids that are unique among the intents.
NothingHeld == ~Serving => pending = {}

MirrorInv == SlotInv /\ DurableMirror /\ NothingHeld

Agree(table, intents, failures) ==
  table \subseteq Ids(intents) /\ (failures = 0 => table = Ids(intents))

\* The intents of C leave both sides.
LEMMA AgreeLess ==
  ASSUME NEW P, NEW O, NEW f, Agree(O, P, f), NEW C \in SUBSET P,
         \A i, j \in P : i.order = j.order => i = j
  PROVE  Agree(O \ Ids(C), P \ C, f)
BY DEF Agree, Ids

\* A cancellation writes an event for each intent it forgets and no other.
LEMMA MirrorCancel ==
  ASSUME SlotInv, Agree(orders, pending, faults), NEW E, E \subseteq pending,
         CancelEntries(E)
  PROVE  Agree(orders', pending', faults')
<1>1. PICK C \in SUBSET {i \in E : Mirrored(i)} :
        /\ pending' = pending \ C
        /\ orders' = orders \ Ids(C)
        /\ faults' = faults \/ faults' = faults + 1
  BY DEF CancelEntries, Fault
<1>2. \A i, j \in pending : i.order = j.order => i = j
  BY DEF SlotInv, SlotExclusion, OneIntentEach
<1>3. Agree(orders', pending', faults)
  BY <1>1, <1>2, AgreeLess
<1>4. faults' = 0 => faults = 0
  BY <1>1, ServiceAssumption DEF SlotInv, TypeOK
<1> QED
  BY <1>3, <1>4 DEF Agree

\* A settled intent leaves memory and the PENDING orders together.
LEMMA MirrorSettle ==
  ASSUME SlotInv, Agree(orders, pending, faults), NEW i \in pending, Settle(i),
         UNCHANGED faults
  PROVE  Agree(orders', pending', faults')
<1>1. \A j, k \in pending : j.order = k.order => j = k
  BY DEF SlotInv, SlotExclusion, OneIntentEach
<1>2. Ids({i}) = {i.order}
  BY DEF Ids
<1>3. pending' = pending \ {i} /\ orders' = orders \ Ids({i})
  BY <1>2 DEF Settle
<1> QED
  BY <1>1, <1>3, AgreeLess

\* A queued intent enters both, or memory alone when the write fails.
LEMMA MirrorEnqueue ==
  ASSUME TypeOK, Agree(orders, pending, faults), NEW i,
         (Enqueue(i) /\ UNCHANGED faults) \/ EnqueueFails(i)
  PROVE  Agree(orders', pending', faults')
<1>1. CASE Enqueue(i) /\ UNCHANGED faults
  BY <1>1 DEF Enqueue, Agree, Ids
<1>2. CASE EnqueueFails(i)
  <2>1. faults' # 0
    BY <1>2, ServiceAssumption DEF EnqueueFails, Fault, TypeOK
  <2> QED
    BY <1>2, <2>1 DEF EnqueueFails, Agree, Ids
<1> QED
  BY <1>1, <1>2

\* Nothing that matters here changes, but for a fault that may be counted.
LEMMA MirrorSame ==
  ASSUME TypeOK, Agree(orders, pending, faults), UNCHANGED <<pending, orders>>,
         faults' = faults \/ Fault
  PROVE  Agree(orders', pending', faults')
<1>1. faults' = 0 => faults = 0
  BY ServiceAssumption DEF Fault, TypeOK
<1> QED
  BY <1>1 DEF Agree

\* Time changes no order.
LEMMA MirrorTick ==
  ASSUME TypeOK, Agree(orders, pending, faults), Tick
  PROVE  Agree(orders', pending', faults')
<1> DEFINE Older(i) == [i EXCEPT !.age = IF @ = AgeCap THEN @ ELSE @ + 1]
<1>1. \A i \in pending : Older(i).order = i.order
  BY DEF TypeOK, Intent
<1>2. pending' = {Older(i) : i \in pending}
  BY DEF Tick
<1>3. orders' = orders /\ faults' = faults
  BY DEF Tick, durable, bounds
<1> HIDE DEF Older
<1>4. Ids(pending') = Ids(pending)
  BY <1>1, <1>2 DEF Ids
<1> QED
  BY <1>3, <1>4 DEF Agree
\* The steps of a serving process.
LEMMA MirrorOnBook ==
  ASSUME SlotInv, Agree(orders, pending, faults), OnBook
  PROVE  Agree(orders', pending', faults')
<1> USE DEF SlotInv
<1>1. CASE \/ \E fresh \in BOOLEAN : BookArrives(fresh)
           \/ NextIntent \/ SkipMaintenance \/ BookDone \/ BookWriteFails
  <2>1. UNCHANGED <<pending, orders>> /\ (faults' = faults \/ Fault)
    BY <1>1 DEF BookArrives, NextIntent, SkipMaintenance, BookDone,
                BookWriteFails, durable, bounds
  <2> QED
    BY <2>1, MirrorSame
<1>2. ASSUME NEW i \in pending, NEW dead \in BOOLEAN,
             \/ CancelDue(i) \/ RejectDue(i) \/ FillEntry(i, dead)
             \/ FillEntryRaises(i, dead) \/ FillExit(i) \/ IntentRaises(i)
      PROVE  Agree(orders', pending', faults')
  <2>1. CASE FillEntryRaises(i, dead) \/ IntentRaises(i)
    <3>1. UNCHANGED <<pending, orders>> /\ faults' = faults
      BY <2>1 DEF FillEntryRaises, IntentRaises, durable, bounds
    <3> QED
      BY <3>1, MirrorSame
  <2>2. CASE CancelDue(i) \/ RejectDue(i) \/ FillEntry(i, dead) \/ FillExit(i)
    <3>1. Settle(i) /\ UNCHANGED faults
      BY <2>2 DEF CancelDue, RejectDue, FillEntry, FillExit, bounds
    <3> QED
      BY <3>1, MirrorSettle
  <2> QED
    BY <1>2, <2>1, <2>2
<1>3. ASSUME NEW s \in Strategies, Unwind(s)
      PROVE  Agree(orders', pending', faults')
  BY <1>3, MirrorSame, MirrorEnqueue DEF Unwind
<1>4. CASE Reverse
  BY <1>4, MirrorSame, MirrorEnqueue DEF Reverse
<1>5. CASE Maintain
  <2>1. PICK E \in SUBSET pending : CancelEntries(E)
    BY <1>5 DEF Maintain, AllEntries
  <2> QED
    BY <2>1, MirrorCancel
<1>6. ASSUME NEW p \in positions, QueueExit(p)
      PROVE  Agree(orders', pending', faults')
  BY <1>6, MirrorSame, MirrorEnqueue DEF QueueExit
<1> QED
  BY <1>1, <1>2, <1>3, <1>4, <1>5, <1>6 DEF OnBook

\* The evaluation loop keeps memory and table in agreement.
LEMMA MirrorRun ==
  ASSUME SlotInv, Agree(orders, pending, faults), Run
  PROVE  Agree(orders', pending', faults')
<1> USE DEF SlotInv
<1>1. CASE StartEvaluation \/ EvaluationFails \/ EvaluationDone \/ StopEngine \/ LatchFails
  <2>1. UNCHANGED <<pending, orders>> /\ (faults' = faults \/ Fault)
    BY <1>1 DEF StartEvaluation, EvaluationFails, EvaluationDone, StopEngine,
                LatchFails, durable, bounds
  <2> QED
    BY <2>1, MirrorSame
<1>2. ASSUME NEW s \in Strategies, Evaluate(s)
      PROVE  Agree(orders', pending', faults')
  BY <1>2, MirrorSame, MirrorEnqueue
     DEF Evaluate, OpposeSignal, EntrySignal, NoOrder
<1> QED
  BY <1>1, <1>2 DEF Run

\* The HTTP handlers keep memory and table in agreement.
LEMMA MirrorRequests ==
  ASSUME SlotInv, Agree(orders, pending, faults), Requests
  PROVE  Agree(orders', pending', faults')
<1> USE DEF SlotInv
<1>1. CASE StartEngine
  BY <1>1, MirrorSame DEF StartEngine, durable, bounds
<1>2. CASE PauseEngine
  <2>1. PICK E \in SUBSET pending : CancelEntries(E)
    BY <1>2 DEF PauseEngine, AllEntries
  <2> QED
    BY <2>1, MirrorCancel
<1>3. ASSUME NEW s \in Strategies, NEW on \in BOOLEAN, UpdateStrategy(s, on)
      PROVE  Agree(orders', pending', faults')
  <2>1. PICK E \in SUBSET pending : CancelEntries(E)
    BY <1>3 DEF UpdateStrategy, Entries
  <2> QED
    BY <2>1, MirrorCancel
<1>4. ASSUME NEW p \in positions, ClosePosition(p)
      PROVE  Agree(orders', pending', faults')
  BY <1>4, MirrorEnqueue DEF ClosePosition
<1> QED
  BY <1>1, <1>2, <1>3, <1>4 DEF Requests

\* Only RecoveryDone makes a process serve, and only handlers of a serving
\* process queue.
LEMMA ServingNext ==
  ASSUME TypeOK, NothingHeld, [Next]_vars
  PROVE  /\ NothingHeld'
         /\ Serving' => Serving \/ (RecoveryDone /\ pending = {})
         /\ Serving /\ Serving' => ~Process \/ RecoveryDone
<1>1. CASE UNCHANGED vars
  BY <1>1 DEF vars, handler, Serving, NothingHeld, Process, Initialize, CancelOrphan,
              Shutdown, Crash, Terminate
<1>2. CASE Process
  BY <1>2 DEF Process, Initialize, CancelOrphan, RecoveryDone, Shutdown, Crash,
              Terminate, Release, handler, Serving, NothingHeld
<1>3. CASE Tick \/ (\E p \in positions : HoldExpires(p)) \/ Requests
  <2>1. mode \in LockFree /\ mode' = mode
    BY <1>3 DEF Tick, HoldExpires, Requests, StartEngine, PauseEngine,
                UpdateStrategy, ClosePosition, LockFree, handler
  <2> QED
    BY <2>1 DEF LockFree, Serving, NothingHeld, Process, Initialize, CancelOrphan,
                RecoveryDone, Shutdown, Crash, Terminate
<1>4. CASE OnBook \/ Run
  <2>1. Serving
    BY <1>4 DEF OnBook, BookArrives, CancelDue, RejectDue, FillEntry,
                FillEntryRaises, FillExit, IntentRaises, NextDue, Unwind, Reverse,
                NextIntent, SkipMaintenance, Maintain, QueueExit, BookDone,
                BookWriteFails, Run, StartEvaluation, Evaluate, EvaluationFails,
                EvaluationDone, StopEngine, LatchFails, Serving
  <2>2. Serving'
    BY <1>4 DEF OnBook, BookArrives, CancelDue, RejectDue, FillEntry,
                FillEntryRaises, FillExit, IntentRaises, NextDue, Unwind, Reverse,
                NextIntent, SkipMaintenance, Maintain, QueueExit, BookDone,
                BookWriteFails, Run, StartEvaluation, Evaluate, OpposeSignal,
                EntrySignal, NoOrder, Evaluated, Latch, EvaluationFails,
                EvaluationDone, StopEngine, LatchFails, Release, handler, Serving
  <2>3. ~(mode' = "down" \/ mode' = "recovering")
    BY <2>2 DEF Serving
  <2> QED
    BY <2>1, <2>2, <2>3 DEF Serving, NothingHeld, Process, Initialize, CancelOrphan,
                            RecoveryDone, Shutdown, Crash, Terminate, handler
<1> QED
  BY <1>1, <1>2, <1>3, <1>4 DEF Next

\* Every step of the service keeps memory and table in agreement.
LEMMA MirrorNext == MirrorInv /\ [Next]_vars => DurableMirror'
<1> SUFFICES ASSUME MirrorInv, [Next]_vars, Serving'
             PROVE  Agree(orders', pending', faults')
  BY DEF DurableMirror, Agree, Serving, Ids
<1> USE DEF MirrorInv
<1>1. CASE RecoveryDone
  <2>1. pending' = {} /\ orders' = {}
    BY <1>1 DEF RecoveryDone, NoOrphans, NothingHeld, Serving, durable
  <2> QED
    BY <2>1 DEF Agree, Ids
<1>2. CASE ~RecoveryDone
  <2>1. Serving /\ ~Process
    BY <1>2, ServingNext DEF SlotInv
  <2>2. Agree(orders, pending, faults)
    BY <2>1 DEF DurableMirror, Agree
  <2>3. CASE UNCHANGED vars
    BY <2>2, <2>3 DEF vars, durable, bounds, Agree
  <2>4. ASSUME NEW p \in positions, HoldExpires(p)
        PROVE  Agree(orders', pending', faults')
    BY <2>2, <2>4, MirrorSame DEF HoldExpires, bounds, SlotInv
  <2> QED
    BY <2>1, <2>2, <2>3, <2>4, MirrorTick, MirrorOnBook, MirrorRun, MirrorRequests
       DEF Next, SlotInv
<1> QED
  BY <1>1, <1>2

\* What the order table shows PENDING is in memory while the service runs, and
\* the two are equal unless a write has failed.
THEOREM TableMirrorsMemory == Spec => []DurableMirror
<1>1. Init => MirrorInv
  BY SlotInvInit DEF Init, MirrorInv, DurableMirror, NothingHeld, Serving, Ids
<1>2. MirrorInv /\ [Next]_vars => MirrorInv'
  BY MirrorNext, ServingNext, TypeNext, SlotNext, ReversalNext DEF MirrorInv, SlotInv
<1>3. MirrorInv => DurableMirror
  BY DEF MirrorInv
<1> QED
  BY <1>1, <1>2, <1>3, PTL DEF Spec

----------------------------------------------------------------------------
(***************************************************************************)
(* The authority of a pending entry.                                       *)
(***************************************************************************)

\* The exception handler of run stops the engine after it has set the error.
LatchIsRecorded == mode = "latching" => integrity

\* EntryAuthority needs DurableMirror: a cancellation stops at an intent without a
\* row, and only a failed write leaves one.
AuthorityInv == MirrorInv /\ EntryAuthority /\ LatchIsRecorded

Unraised == /\ hard' = hard /\ enabled' = enabled
            /\ active \/ integrity => active' \/ integrity'

\* No entry is added and no authority is withdrawn.
LEMMA AuthorityShrink ==
  ASSUME EntryAuthority, faults' = 0 => faults = 0, Unraised,
         \A j \in pending' : j.op = "ENTRY" => j \in pending
  PROVE  EntryAuthority'
BY DEF EntryAuthority, Unraised

\* A failed write is counted, and counted for good.
LEMMA FaultsStay ==
  ASSUME TypeOK, faults' = faults \/ Fault
  PROVE  faults' = 0 => faults = 0
BY ServiceAssumption DEF TypeOK, Fault

\* A queued exit is no entry.
LEMMA AuthorityQueueExit ==
  ASSUME TypeOK, EntryAuthority, Unraised, NEW o, NEW p, NEW r,
         \/ Enqueue(ExitIntent(o, p, r)) /\ UNCHANGED faults
         \/ EnqueueFails(ExitIntent(o, p, r))
  PROVE  EntryAuthority'
<1> DEFINE x == ExitIntent(o, p, r)
<1>1. x.op = "EXIT" /\ pending' = pending \cup {x}
  BY DEF ExitIntent, Enqueue, EnqueueFails
<1>2. faults' = faults \/ Fault
  BY DEF EnqueueFails
<1> HIDE DEF x
<1> QED
  BY <1>1, <1>2, FaultsStay, AuthorityShrink

\* An entry is queued with the engine running, the gate on and its strategy enabled.
LEMMA AuthorityQueueEntry ==
  ASSUME TypeOK, EntryAuthority, Unraised, active' = active \/ integrity',
         NEW o, NEW s, EntryApproved(s),
         \/ Enqueue(EntryIntent(o, s)) /\ UNCHANGED faults
         \/ EnqueueFails(EntryIntent(o, s))
  PROVE  EntryAuthority'
<1> DEFINE x == EntryIntent(o, s)
<1>1. x.op = "ENTRY" /\ x.strategy = s /\ pending' = pending \cup {x}
  BY DEF EntryIntent, Enqueue, EnqueueFails
<1>2. faults' = faults \/ Fault
  BY DEF EnqueueFails
<1>3. hard /\ active /\ enabled[s]
  BY DEF EntryApproved
<1> HIDE DEF x
<1> QED
  BY <1>1, <1>2, <1>3, FaultsStay DEF EntryAuthority, Unraised

\* While no write has failed a cancellation goes through: no intent lacks its row.
LEMMA CancelsAll ==
  ASSUME MirrorInv, Serving, NEW E, E \subseteq pending, CancelEntries(E), faults' = 0
  PROVE  faults = 0 /\ pending' = pending \ E
<1>1. PICK C \in SUBSET {i \in E : Mirrored(i)} :
        /\ pending' = pending \ C
        /\ \/ C = E /\ UNCHANGED faults
           \/ (\E i \in E \ C : ~Mirrored(i)) /\ UNCHANGED faults
           \/ Fault
  BY DEF CancelEntries
<1>2. faults = 0
  BY <1>1, FaultsStay DEF MirrorInv, SlotInv
<1>3. \A i \in E : Mirrored(i)
  BY <1>2 DEF MirrorInv, DurableMirror, Mirrored, Ids
<1>4. ~Fault
  BY <1>2, ServiceAssumption DEF Fault
<1> QED
  BY <1>1, <1>2, <1>3, <1>4

\* The book callback changes no authority and queues one kind of entry, the reversal,
\* through the same gates.
LEMMA AuthorityOnBook ==
  ASSUME AuthorityInv, OnBook
  PROVE  EntryAuthority'
<1> USE DEF AuthorityInv, MirrorInv, SlotInv
<1>1. CASE \/ \E fresh \in BOOLEAN : BookArrives(fresh)
           \/ NextIntent \/ SkipMaintenance \/ BookDone \/ BookWriteFails
  <2>1. UNCHANGED <<pending, enabled, flags>> /\ (faults' = faults \/ Fault)
    BY <1>1 DEF BookArrives, NextIntent, SkipMaintenance, BookDone,
                BookWriteFails, durable, bounds
  <2>2. Unraised
    BY <2>1 DEF flags, Unraised
  <2> QED
    BY <2>1, <2>2, FaultsStay, AuthorityShrink
<1>2. ASSUME NEW i \in pending, NEW dead \in BOOLEAN,
             \/ CancelDue(i) \/ RejectDue(i) \/ FillEntry(i, dead)
             \/ FillEntryRaises(i, dead) \/ FillExit(i) \/ IntentRaises(i)
      PROVE  EntryAuthority'
  <2>1. pending' \subseteq pending /\ faults' = faults /\ Unraised
    BY <1>2 DEF CancelDue, RejectDue, FillEntry, FillExit, FillEntryRaises,
                IntentRaises, Settle, durable, bounds, flags, Unraised
  <2> QED
    BY <2>1, AuthorityShrink
<1>3. ASSUME NEW s \in Strategies, Unwind(s)
      PROVE  EntryAuthority'
  <2>1. Unraised
    BY <1>3 DEF Unwind, flags, Unraised
  <2> QED
    BY <1>3, <2>1, AuthorityShrink, AuthorityQueueExit DEF Unwind
<1>4. CASE Reverse
  <2>1. Unraised /\ active' = active
    BY <1>4 DEF Reverse, flags, Unraised
  <2> QED
    BY <1>4, <2>1, AuthorityShrink, AuthorityQueueEntry DEF Reverse
<1>5. CASE Maintain
  <2>1. PICK E \in SUBSET pending : CancelEntries(E)
    BY <1>5 DEF Maintain, AllEntries
  <2>2. pending' \subseteq pending /\ (faults' = faults \/ Fault)
    BY <2>1 DEF CancelEntries
  <2>3. Unraised
    BY <1>5 DEF Maintain, flags, Unraised
  <2> QED
    BY <2>2, <2>3, FaultsStay, AuthorityShrink
<1>6. ASSUME NEW p \in positions, QueueExit(p)
      PROVE  EntryAuthority'
  <2>1. Unraised
    BY <1>6 DEF QueueExit, flags, Unraised
  <2> QED
    BY <1>6, <2>1, AuthorityShrink, AuthorityQueueExit DEF QueueExit
<1> QED
  BY <1>1, <1>2, <1>3, <1>4, <1>5, <1>6 DEF OnBook

\* The evaluation loop queues entries through the gates, and when it raises it leaves
\* the entries and sets the integrity error.
LEMMA AuthorityRun ==
  ASSUME AuthorityInv, Run
  PROVE  EntryAuthority'
<1> USE DEF AuthorityInv, MirrorInv, SlotInv
<1>1. CASE StartEvaluation \/ EvaluationFails \/ EvaluationDone \/ StopEngine \/ LatchFails
  <2>1. UNCHANGED pending /\ (faults' = faults \/ Fault)
    BY <1>1 DEF StartEvaluation, EvaluationFails, EvaluationDone, StopEngine,
                LatchFails, durable, bounds
  <2>2. Unraised
    BY <1>1 DEF StartEvaluation, EvaluationFails, EvaluationDone, Latch, StopEngine,
                LatchFails, LatchIsRecorded, durable, flags, Unraised
  <2> QED
    BY <2>1, <2>2, AuthorityShrink, FaultsStay
<1>2. ASSUME NEW s \in Strategies, Evaluate(s)
      PROVE  EntryAuthority'
  <2>1. Unraised /\ (active' = active \/ integrity')
    <3>1. CASE Latch
      BY <1>2, <3>1 DEF Evaluate, Latch, Unraised
    <3>2. CASE Evaluated(s)
      BY <1>2, <3>2 DEF Evaluate, Evaluated, flags, Unraised
    <3> QED
      BY <1>2, <3>1, <3>2 DEF Evaluate, OpposeSignal, EntrySignal, NoOrder
  <2>2. CASE OpposeSignal(s)
    BY <2>1, <2>2, AuthorityQueueExit DEF OpposeSignal
  <2>3. CASE EntrySignal(s)
    BY <2>1, <2>3, AuthorityQueueEntry DEF EntrySignal
  <2>4. CASE NoOrder(s)
    BY <2>1, <2>4, AuthorityShrink DEF NoOrder
  <2> QED
    BY <1>2, <2>2, <2>3, <2>4 DEF Evaluate
<1> QED
  BY <1>1, <1>2 DEF Run

\* What withdraws an authority cancels the entries that had it.
LEMMA AuthorityRequests ==
  ASSUME AuthorityInv, Requests
  PROVE  EntryAuthority'
<1> USE DEF AuthorityInv, MirrorInv, SlotInv
<1>1. CASE StartEngine
  <2>1. UNCHANGED pending /\ faults' = faults /\ Unraised
    BY <1>1 DEF StartEngine, durable, bounds, Unraised
  <2> QED
    BY <2>1, AuthorityShrink
<1>2. CASE PauseEngine
  <2>1. Serving /\ CancelEntries(AllEntries) /\ AllEntries \subseteq pending
    BY <1>2 DEF PauseEngine, LockFree, Serving, AllEntries
  <2>2. faults' = 0 => pending' = pending \ AllEntries
    BY <2>1, CancelsAll
  <2> QED
    BY <2>2 DEF EntryAuthority, AllEntries
<1>3. ASSUME NEW s \in Strategies, NEW on \in BOOLEAN, UpdateStrategy(s, on)
      PROVE  EntryAuthority'
  <2> SUFFICES ASSUME faults' = 0, NEW i \in pending', i.op = "ENTRY"
               PROVE  hard' /\ enabled'[i.strategy] /\ (active' \/ integrity')
    BY DEF EntryAuthority
  <2> DEFINE E == IF on THEN {} ELSE Entries(s)
  <2>1. Serving /\ CancelEntries(E) /\ E \subseteq pending
    BY <1>3 DEF UpdateStrategy, LockFree, Serving, Entries
  <2>2. faults = 0 /\ pending' = pending \ E
    <3> HIDE DEF E
    <3> QED
      BY <2>1, CancelsAll
  <2>3. hard /\ enabled[i.strategy] /\ (active \/ integrity)
    BY <2>2 DEF EntryAuthority
  <2>4. hard' = hard /\ active' = active /\ integrity' = integrity
    BY <1>3 DEF UpdateStrategy, flags
  <2>5. enabled'[i.strategy]
    <3>1. i.strategy \in Strategies
      BY <2>2 DEF TypeOK, Intent
    <3>2. i.strategy = s => on
      BY <2>2 DEF Entries
    <3> QED
      BY <1>3, <2>3, <3>1, <3>2 DEF UpdateStrategy, TypeOK
  <2> QED
    BY <2>3, <2>4, <2>5
<1>4. ASSUME NEW p \in positions, ClosePosition(p)
      PROVE  EntryAuthority'
  <2>1. Unraised
    BY <1>4 DEF ClosePosition, flags, Unraised
  <2> QED
    BY <1>4, <2>1, AuthorityQueueExit DEF ClosePosition
<1> QED
  BY <1>1, <1>2, <1>3, <1>4 DEF Requests

\* The gate is read only by a process that holds no intent.
LEMMA AuthorityProcess ==
  ASSUME AuthorityInv, Process
  PROVE  EntryAuthority'
<1>1. CASE \E gate \in BOOLEAN : Initialize(gate)
  <2>1. pending' = {}
    BY <1>1 DEF Initialize, AuthorityInv, MirrorInv, NothingHeld, Serving
  <2> QED
    BY <2>1 DEF EntryAuthority
<1>2. CASE (\E o \in OrderIds : CancelOrphan(o)) \/ RecoveryDone
  <2>1. pending' = pending /\ faults' = faults /\ Unraised
    BY <1>2 DEF CancelOrphan, RecoveryDone, flags, durable, bounds, Unraised
  <2> QED
    BY <2>1, AuthorityShrink DEF AuthorityInv
<1>3. CASE Shutdown \/ Crash
  BY <1>3 DEF Shutdown, Crash, Terminate, EntryAuthority
<1> QED
  BY <1>1, <1>2, <1>3 DEF Process

\* Time withdraws nothing.
LEMMA AuthorityTick ==
  ASSUME AuthorityInv, Tick
  PROVE  EntryAuthority'
<1> DEFINE Older(i) == [i EXCEPT !.age = IF @ = AgeCap THEN @ ELSE @ + 1]
<1>1. \A i \in pending : Older(i).op = i.op /\ Older(i).strategy = i.strategy
  BY DEF AuthorityInv, MirrorInv, SlotInv, TypeOK, Intent
<1>2. pending' = {Older(i) : i \in pending}
  BY DEF Tick
<1>3. UNCHANGED <<hard, enabled, active, integrity, faults>>
  BY DEF Tick, flags, durable, bounds
<1> HIDE DEF Older
<1> QED
  BY <1>1, <1>2, <1>3 DEF AuthorityInv, EntryAuthority

\* Only an exception starts the handler, and it sets the error at once.
LEMMA LatchNext ==
  ASSUME LatchIsRecorded, [Next]_vars
  PROVE  LatchIsRecorded'
<1> USE DEF LatchIsRecorded
<1>1. CASE UNCHANGED vars
  BY <1>1 DEF vars, handler, flags
<1>2. CASE Process \/ Tick \/ (\E p \in positions : HoldExpires(p))
  BY <1>2 DEF Process, Initialize, CancelOrphan, RecoveryDone, Shutdown, Crash,
              Terminate, Release, Tick, HoldExpires, handler, flags
<1>3. CASE OnBook
  <2>1. mode' # "latching"
    BY <1>3 DEF OnBook, BookArrives, CancelDue, RejectDue, FillEntry,
                FillEntryRaises, FillExit, IntentRaises, NextDue, Unwind, Reverse,
                NextIntent, SkipMaintenance, Maintain, QueueExit, BookDone,
                BookWriteFails, Release, handler
  <2> QED
    BY <2>1
<1>4. CASE Run
  BY <1>4 DEF Run, StartEvaluation, Evaluate, OpposeSignal, EntrySignal, NoOrder,
              Evaluated, Latch, EvaluationFails, EvaluationDone, StopEngine,
              LatchFails, Release
<1>5. CASE Requests
  <2>1. mode' = mode /\ integrity' = integrity
    BY <1>5 DEF Requests, StartEngine, PauseEngine, UpdateStrategy, ClosePosition,
                handler, flags
  <2> QED
    BY <2>1
<1> QED
  BY <1>1, <1>2, <1>3, <1>4, <1>5 DEF Next

\* A pending entry never outlives its authority: the gate, its strategy's switch and
\* the running engine (pause, update_strategy and shutdown cancel before they return),
\* short of a failed write and of the exception handler of run.
THEOREM EntriesHaveAuthority == Spec => []EntryAuthority
<1>1. Init => AuthorityInv
  BY SlotInvInit
     DEF Init, AuthorityInv, MirrorInv, DurableMirror, NothingHeld, Serving, Ids,
         EntryAuthority, LatchIsRecorded
<1>2. MirrorInv /\ [Next]_vars => MirrorInv'
  BY MirrorNext, ServingNext, TypeNext, SlotNext, ReversalNext DEF MirrorInv, SlotInv
<1>3. LatchIsRecorded /\ [Next]_vars => LatchIsRecorded'
  BY LatchNext
<1>4. AuthorityInv /\ [Next]_vars => EntryAuthority'
  <2> SUFFICES ASSUME AuthorityInv, [Next]_vars
               PROVE  EntryAuthority'
    OBVIOUS
  <2>1. CASE UNCHANGED vars
    BY <2>1 DEF vars, flags, durable, bounds, AuthorityInv, EntryAuthority
  <2>2. ASSUME NEW p \in positions, HoldExpires(p)
        PROVE  EntryAuthority'
    BY <2>2 DEF HoldExpires, flags, bounds, AuthorityInv, EntryAuthority
  <2> QED
    BY <2>1, <2>2, AuthorityProcess, AuthorityTick, AuthorityOnBook, AuthorityRun,
       AuthorityRequests DEF Next
<1>5. AuthorityInv => EntryAuthority
  BY DEF AuthorityInv
<1> QED
  BY <1>1, <1>2, <1>3, <1>4, <1>5, PTL DEF Spec, AuthorityInv
=============================================================================
