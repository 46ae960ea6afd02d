---------------------------- MODULE PaperEngine -----------------------------
(***************************************************************************)
(* backend/binance_paper/engine.py and store.py: the signed-position paper *)
(* engine.  It keeps the position in memory and in one row of DuckDB, next *)
(* to a row for every order and every funding event.  A submission runs    *)
(* under the engine's lock in three steps another thread or a crash can    *)
(* fall between: it decides on the position in memory, commits the rows,   *)
(* and only then assigns the memory.  set_paper_enabled and reconcile take *)
(* no lock.  The code's floating-point money is an integer here, in a unit *)
(* so small that no average of entries is rounded: the entry price that n  *)
(* fills lead to is a multiple of Grid[n].                                 *)
(***************************************************************************)
EXTENDS Integers, Sequences, SequencesExt, FiniteSetsExt

CONSTANTS
  OrderIds,      \* order ids, compared as the table sorts them
  FundingIds,
  Requests,      \* [side, quantity, reduceOnly, leverage, at, model]
  Books,         \* [ts, price, depth, healthy, fit]
  Fundings,      \* [ts, mark, rate]
  Capital,
  FeeScale,      \* the fee of a notional is 1/FeeScale of it
  MaxLeverage,
  MaxExposure,   \* the lower of max_notional and max_correlated_exposure
  MaxFeedAge,
  LossLimits,    \* [window, loss]: the daily and the weekly limit
  MaxSize,       \* bound of the positions all the orders can build
  Grid,          \* what the entry price after n fills is a multiple of
  None           \* no submission and no reconciliation under way

ASSUME EngineAssumption ==
  /\ OrderIds \subseteq Nat
  /\ Requests \subseteq [side : {1, -1}, quantity : Nat \ {0}, reduceOnly : BOOLEAN,
                         leverage : Nat \ {0}, at : Nat, model : BOOLEAN]
  /\ Books \subseteq [ts : Nat, price : Nat \ {0}, depth : Nat,
                      healthy : BOOLEAN, fit : BOOLEAN]
  /\ Fundings \subseteq [ts : Nat, mark : Nat \ {0}, rate : Int]
  /\ Capital \in Nat \ {0}
  /\ FeeScale \in Nat \ {0}
  /\ MaxLeverage \in Nat
  /\ MaxExposure \in Nat
  /\ MaxFeedAge \in Nat
  /\ LossLimits \subseteq [window : Nat, loss : Nat]

\* The unit: every price is a multiple of every Grid[n], and averaging at most
\* MaxSize units at multiples of Grid[n - 1] gives a multiple of Grid[n].
ASSUME GridAssumption ==
  /\ IsFiniteSet(OrderIds)
  /\ MaxSize \in Nat
  /\ \A r \in Requests : Cardinality(OrderIds) * r.quantity <= MaxSize
  /\ Grid \in [1..Cardinality(OrderIds) -> Nat \ {0}]
  /\ \A n \in DOMAIN Grid, b \in Books : b.price % Grid[n] = 0
  /\ \A n \in DOMAIN Grid \ {1}, size \in 1..MaxSize :
       Grid[n - 1] % (size * Grid[n]) = 0

VARIABLES
  orders,     \* paper_orders, in the order their transactions committed
  funding,    \* paper_funding, likewise
  row,        \* the row of paper_positions (the empty position if there is none)
  up,         \* the process runs
  position,   \* engine.position
  kill,       \* engine.kill_switch
  known,      \* engine.position_known
  work,       \* the submission that holds the lock, or None
  replayed,   \* reconcile(): the position it has replayed, then its verdict, or None
  late        \* ghost: exposing fills committed since the kill switch was raised

durable == <<orders, funding, row>>
vars == <<orders, funding, row, up, position, kill, known, work, replayed, late>>

----------------------------------------------------------------------------
(* Rows. *)

PositionSet == [quantity : Int, entry : Int, realized : Int, fees : Int,
                funding : Int, cash : Int, leverage : Int]

OrderRow == [id : OrderIds, request : Requests, ts : Nat, delta : Int,
             price : Nat, fee : Int, realized : Int]

FundingRow == [id : FundingIds, ts : Nat, payment : Int]

\* A submission between its decision and its last assignment.
OrderWork == [stage : {"order", "committed"}, entry : OrderRow, next : PositionSet]

FundingWork == [stage : {"funding", "committed"}, entry : FundingRow, next : PositionSet]

ASSUME NoneAssumption == None \notin OrderWork \cup FundingWork

----------------------------------------------------------------------------
(* Positions, fills and replay. *)

Flat == [quantity |-> 0, entry |-> 0, realized |-> 0, fees |-> 0,
         funding |-> 0, cash |-> Capital, leverage |-> 1]

Size(n) == IF n < 0 THEN -n ELSE n

Lower(a, b) == IF a < b THEN a ELSE b

SameSide(a, b) == (a > 0 /\ b > 0) \/ (a < 0 /\ b < 0)

Direction(n) == IF n > 0 THEN 1 ELSE -1

\* The part of a fill that closes the position, times its result per unit.
Realized(p, delta, price) ==
  IF p.quantity = 0 \/ SameSide(p.quantity, delta)
    THEN 0
    ELSE Lower(Size(p.quantity), Size(delta)) * (price - p.entry) * Direction(p.quantity)

Entry(p, delta, price) ==
  LET after == p.quantity + delta
  IN IF p.quantity = 0 THEN price
     ELSE IF SameSide(p.quantity, delta)
       THEN (Size(p.quantity) * p.entry + Size(delta) * price)
              \div (Size(p.quantity) + Size(delta))
     ELSE IF after = 0 THEN 0
     ELSE IF SameSide(p.quantity, after) THEN p.entry ELSE price

Leverage(p, delta, leverage) ==
  LET after == p.quantity + delta
  IN IF p.quantity = 0 THEN leverage
     ELSE IF SameSide(p.quantity, delta) THEN Lower(p.leverage, leverage)
     ELSE IF after = 0 THEN 1
     ELSE IF SameSide(p.quantity, after) THEN p.leverage ELSE leverage

\* apply_position_fill
ApplyFill(p, o) ==
  LET gain == Realized(p, o.delta, o.price)
  IN [p EXCEPT !.quantity = p.quantity + o.delta,
               !.entry    = Entry(p, o.delta, o.price),
               !.leverage = Leverage(p, o.delta, o.request.leverage),
               !.realized = p.realized + gain,
               !.fees     = p.fees + o.fee,
               !.cash     = p.cash + gain - o.fee]

Paid(p, amount) ==
  [p EXCEPT !.funding = p.funding + amount, !.cash = p.cash + amount]

ApplyFunding(p, f) == Paid(p, f.payment)

\* ORDER BY fill_ts_ns, order_id
Before(a, b) == a.ts < b.ts \/ (a.ts = b.ts /\ a.id < b.id)

Fills == {o \in ToSet(orders) : o.delta # 0}

LastOf(fills) == CHOOSE o \in fills : \A x \in fills \ {o} : Before(x, o)

\* The fills applied in that order, the last one to what the others leave.
Replayed(fills) ==
  MapThenFoldSet(LAMBDA o, p : ApplyFill(p, o), Flat, LAMBDA o : o, LastOf, fills)

\* Mutant: the replay forgets the funding.
ReplayWithoutFunding == Replayed(Fills)

\* replay_position.  A funding row only adds its stored payment, so its place
\* among the fills makes no difference.
Replay ==
  Paid(Replayed(Fills), SumFunction([f \in ToSet(funding) |-> f.payment]))

\* pnl_since
PnlSince(cutoff) ==
  MapThenSumSet(LAMBDA o : o.realized - o.fee, {o \in ToSet(orders) : o.ts >= cutoff})
    + MapThenSumSet(LAMBDA f : f.payment, {f \in ToSet(funding) : f.ts >= cutoff})

----------------------------------------------------------------------------
(* The decision on one request. *)

\* Mutant: a reduction is not capped to the position.
WantedUncapped(r) == r.quantity

\* Mutant: the kill switch is shown and not asked.
DegradedByFeedOnly(r, b) == ~b.healthy \/ r.at - b.ts > MaxFeedAge \/ ~r.model

\* A reduce-only request needs a position and the side that closes it.
WrongReduction(r) ==
  r.reduceOnly /\ (position.quantity = 0 \/ SameSide(position.quantity, r.side))

Wanted(r) ==
  IF r.reduceOnly THEN Lower(r.quantity, Size(position.quantity)) ELSE r.quantity

\* Faults that stop new exposure and are waived for a reduction.
Degraded(r, b) ==
  kill \/ ~b.healthy \/ r.at - b.ts > MaxFeedAge \/ ~r.model

LossLimitHit(r, b) ==
  \E l \in LossLimits :
    PnlSince(r.at - l.window) + position.quantity * (b.price - position.entry) <= -l.loss

\* RiskEngine.evaluate.  Its check of a reduction holds after the cap above.
Blocked(r, b) ==
  \/ ~known
  \/ r.leverage > MaxLeverage
  \/ /\ ~r.reduceOnly
     /\ \/ Degraded(r, b)
        \/ (Size(position.quantity) + r.quantity) * b.price > MaxExposure
        \/ LossLimitHit(r, b)

Refused(r, b) ==
  ~b.fit \/ WrongReduction(r) \/ Blocked(r, b) \/ b.depth = 0

Fill(o, r, b) ==
  LET quantity == Lower(Wanted(r), b.depth)
  IN [id |-> o, request |-> r, ts |-> IF r.at > b.ts THEN r.at ELSE b.ts,
      delta |-> r.side * quantity, price |-> b.price,
      fee |-> (quantity * b.price) \div FeeScale,
      realized |-> Realized(position, r.side * quantity, b.price)]

Rejection(o, r, b) ==
  [id |-> o, request |-> r, ts |-> IF r.at > b.ts THEN r.at ELSE b.ts,
   delta |-> 0, price |-> 0, fee |-> 0, realized |-> 0]

----------------------------------------------------------------------------
Init ==
  /\ orders = <<>>
  /\ funding = <<>>
  /\ row = Flat
  /\ up = TRUE
  /\ position = Flat
  /\ kill = TRUE
  /\ known = TRUE
  /\ work = None
  /\ replayed = None
  /\ late = 0

\* Mutant: only an order that filled is remembered.
RecordedFill(o) == \E x \in ToSet(orders) : x.id = o /\ x.delta # 0

Recorded(o) == \E x \in ToSet(orders) : x.id = o

Charged(f) == \E x \in ToSet(funding) : x.id = f

\* submit_market up to the commit.  An id that has a row is answered from it
\* (or raises, if the request differs) and nothing changes.
Submit(o, r, b) ==
  /\ up
  /\ work = None
  /\ ~Recorded(o)
  /\ work' = IF Refused(r, b)
               THEN [stage |-> "order", entry |-> Rejection(o, r, b), next |-> position]
               ELSE [stage |-> "order", entry |-> Fill(o, r, b),
                     next |-> ApplyFill(position, Fill(o, r, b))]
  /\ UNCHANGED <<durable, up, position, kill, known, replayed, late>>

\* apply_funding up to the commit.  An id that has a row returns 0, or raises
\* when its content differs, which it does when the position has changed since.
SubmitFunding(f, e) ==
  /\ up
  /\ work = None
  /\ ~Charged(f)
  /\ LET charge == [id |-> f, ts |-> e.ts,
                    payment |-> -(position.quantity * e.mark * e.rate)]
     IN work' = [stage |-> "funding", entry |-> charge,
                 next |-> ApplyFunding(position, charge)]
  /\ UNCHANGED <<durable, up, position, kill, known, replayed, late>>

\* commit_order and commit_funding: both rows in one transaction.
Commit ==
  /\ up
  /\ work # None
  /\ work.stage # "committed"
  /\ IF work.stage = "order"
       THEN /\ orders' = Append(orders, work.entry)
            /\ late' = IF /\ kill
                          /\ work.entry.delta # 0
                          /\ ~work.entry.request.reduceOnly
                         THEN late + 1
                         ELSE late
            /\ UNCHANGED funding
       ELSE /\ funding' = Append(funding, work.entry)
            /\ UNCHANGED <<orders, late>>
  /\ row' = work.next
  /\ work' = [work EXCEPT !.stage = "committed"]
  /\ UNCHANGED <<up, position, kill, known, replayed>>

\* Mutant: the failed transaction leaves the next position in memory.
FailureKeepsNext ==
  /\ up
  /\ work # None
  /\ work.stage # "committed"
  /\ position' = work.next
  /\ work' = None
  /\ UNCHANGED <<durable, up, kill, known, replayed, late>>

\* The transaction fails, is rolled back and raises to the caller.
CommitFails ==
  /\ up
  /\ work # None
  /\ work.stage # "committed"
  /\ work' = None
  /\ UNCHANGED <<durable, up, position, kill, known, replayed, late>>

\* Mutant: the answer is assigned in place of the position.
AssignsEntry ==
  /\ up
  /\ work # None
  /\ work.stage = "committed"
  /\ position' = work.entry
  /\ work' = None
  /\ UNCHANGED <<durable, up, kill, known, replayed, late>>

\* self.position = next_position, and the lock is released.
Assign ==
  /\ up
  /\ work # None
  /\ work.stage = "committed"
  /\ position' = work.next
  /\ work' = None
  /\ UNCHANGED <<durable, up, kill, known, replayed, late>>

\* set_paper_enabled, by a thread that does not take the engine's lock.
SetPaperEnabled(enabled) ==
  /\ up
  /\ kill' = ~enabled
  /\ late' = IF enabled \/ ~kill THEN 0 ELSE late
  /\ UNCHANGED <<durable, up, position, known, work, replayed>>

Committed == work # None /\ work.stage = "committed"

\* reconcile() takes no lock: the rows are read, compared with the memory later, and
\* the verdict is assigned later still.
ReconcileRead ==
  /\ up
  /\ replayed = None
  /\ replayed' = [stage |-> "read", rows |-> Replay]
  /\ UNCHANGED <<durable, up, position, kill, known, work, late>>

\* Seven fields are compared one after the other.  Where an assignment falls between
\* two of them, what differs also differs before or after it.  Ghost: a difference
\* is "overlapped" if a submission has committed since the read or has yet to assign.
ReconcileCompare ==
  /\ up
  /\ replayed # None
  /\ replayed.stage = "read"
  /\ replayed' = [stage |-> IF replayed.rows = position THEN "same"
                            ELSE IF replayed.rows # Replay \/ Committed THEN "overlapped"
                            ELSE "differs"]
  /\ UNCHANGED <<durable, up, position, kill, known, work, late>>

ReconcileAssign ==
  /\ up
  /\ replayed # None
  /\ replayed.stage # "read"
  /\ known' = (replayed.stage = "same")
  /\ replayed' = None
  /\ UNCHANGED <<durable, up, position, kill, work, late>>

\* Memory is lost: what it holds until the restart says nothing.
Crash ==
  /\ up
  /\ up' = FALSE
  /\ position' = Flat
  /\ kill' = TRUE
  /\ known' = TRUE
  /\ work' = None
  /\ replayed' = None
  /\ late' = 0
  /\ UNCHANGED durable

\* __init__: the position comes from its row and is reconciled with the replay.
Restart ==
  /\ ~up
  /\ up' = TRUE
  /\ position' = row
  /\ known' = (Replay = row)
  /\ UNCHANGED <<durable, kill, work, replayed, late>>

Next ==
  \/ \E o \in OrderIds, r \in Requests, b \in Books : Submit(o, r, b)
  \/ \E f \in FundingIds, e \in Fundings : SubmitFunding(f, e)
  \/ Commit
  \/ CommitFails
  \/ Assign
  \/ \E enabled \in BOOLEAN : SetPaperEnabled(enabled)
  \/ ReconcileRead
  \/ ReconcileCompare
  \/ ReconcileAssign
  \/ Crash
  \/ Restart

Spec == Init /\ [][Next]_vars

----------------------------------------------------------------------------
(* Properties. *)

\* The types of the engine's state and of its tables (store.py's SCHEMA).  What
\* reconcile has read is left out: it is only ever compared.
TypeOK ==
  /\ orders \in Seq(OrderRow)
  /\ funding \in Seq(FundingRow)
  /\ row \in PositionSet
  /\ up \in BOOLEAN
  /\ position \in PositionSet
  /\ kill \in BOOLEAN
  /\ known \in BOOLEAN
  /\ work \in OrderWork \cup FundingWork \cup {None}
  /\ late \in Nat

\* The position the engine acts on next: the memory, or the row when the memory
\* is about to be set from it or is lost.
Effective == IF up /\ ~Committed THEN position ELSE row

\* The position in memory is the durable one, except between a commit and the
\* assignment that follows it under the lock (engine.py: self.store.commit_order,
\* then self.position = next_position).
MemoryIsDurable == Effective = row /\ (Committed => row = work.next)

\* Cash is the capital with every realized result, fee and funding payment.
CashAddsUp == row.cash = Capital + row.realized - row.fees + row.funding

\* Each column of the position is the sum of the rows written with it.
RowsAddUp ==
  /\ row.quantity = SumFunction([o \in ToSet(orders) |-> o.delta])
  /\ row.fees = SumFunction([o \in ToSet(orders) |-> o.fee])
  /\ row.realized = SumFunction([o \in ToSet(orders) |-> o.realized])
  /\ row.funding = SumFunction([f \in ToSet(funding) |-> f.payment])

\* In whatever order the fills committed, their replay by timestamp ends with the
\* same quantity, fees and funding, and with the same value at every price: what
\* it may move is only between the entry price and the realized result
\* (store.py: replay_position).
ValueReplays ==
  LET r == Replay
  IN /\ r.quantity = row.quantity
     /\ r.fees = row.fees
     /\ r.funding = row.funding
     /\ r.cash - r.quantity * r.entry = row.cash - row.quantity * row.entry

\* The money is right in memory, in the position row and in the rows it was
\* built from, through failed commits, crashes and restarts.
BooksAgree == MemoryIsDurable /\ CashAddsUp /\ RowsAddUp /\ ValueReplays

\* A kill switch raised while a submission holds the lock lets at most that one
\* submission add exposure (engine.py: set_paper_enabled takes no lock).
OneLateFill == late <= 1

InOrder ==
  \A i, j \in DOMAIN orders :
    i < j /\ orders[i] \in Fills /\ orders[j] \in Fills => Before(orders[i], orders[j])

\* A reduce-only order, whenever it commits, brings the position towards zero
\* and never through it, however large the request.
ReduceOnlyReduces ==
  [][\A o \in ToSet(orders') \ ToSet(orders) :
       o.request.reduceOnly /\ o.delta # 0 =>
         /\ Size(row'.quantity) < Size(row.quantity)
         /\ row'.quantity # 0 => SameSide(row.quantity, row'.quantity)]_vars

\* The position becomes unknown, which blocks every order including the one that
\* would flatten it, only if fills committed against the order of their
\* timestamps, or if reconcile() compared while a submission overlapped it.
UnknownHasCause ==
  [][known /\ ~known' =>
       \/ ~InOrder
       \/ replayed # None /\ replayed.stage = "overlapped"]_vars

\* The position found at a restart is always known ("restart recovery").
RestartKnows == [][~up /\ up' => known']_vars

AnswersOf(o) == {x.delta : x \in {y \in ToSet(orders) : y.id = o}}

Answer ==
  [o \in OrderIds |->
     IF AnswersOf(o) = {} THEN None ELSE CHOOSE d \in AnswersOf(o) : TRUE]

Orders == INSTANCE OrderOnce WITH
  NoAnswer <- None, answer <- Answer, exposure <- Effective.quantity

\* Retries, failed commits and crashes never fill an order twice, never fill one
\* in part, and never change an answer.
OrderOnceSpec == Orders!Spec
=============================================================================
