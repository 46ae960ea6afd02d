------------------------- MODULE MaintenanceJournal -------------------------
(***************************************************************************)
(* _MaintenanceJournal of backend/binance_paper/service.py: the bounded    *)
(* queue that takes audit and telemetry writes off the book callback, its  *)
(* one worker thread, and the shutdown that drains it before the database  *)
(* is closed.  Any thread may submit; rows are numbered in the order they  *)
(* were submitted.  The counters are those of the object; `report' is what *)
(* stop() returns and shutdown() stores.                                   *)
(***************************************************************************)
EXTENDS Integers, Sequences

CONSTANTS
  MaxLen,      \* maxlen of the deque
  MaxSubmits,  \* bound of the rows submitted
  NoReport     \* stop() has not returned

ASSUME JournalAssumption == MaxLen \in Nat \ {0} /\ MaxSubmits \in Nat

VARIABLES
  queue,      \* _q
  worker,     \* where the thread is in _run
  row,        \* the row the worker holds, 0 for none
  stopping,   \* _stopping
  caller,     \* where shutdown() is in stop()
  closed,     \* the database is closed
  submitted, written, errors, dropped, abandoned,
  report

counters == <<written, errors, dropped, abandoned>>
vars == <<queue, worker, row, stopping, caller, closed, submitted, counters, report>>

Report == [written : Nat, errors : Nat, dropped : Nat, abandoned : Nat]

TypeOK ==
  /\ queue \in Seq(Nat \ {0}) /\ Len(queue) <= MaxLen
  /\ worker \in {"none", "waiting", "writing", "ended"}
  /\ row \in Nat /\ (row # 0 <=> worker = "writing")
  /\ stopping \in BOOLEAN
  /\ caller \in {"up", "joining", "joined", "counted", "reported", "closed"}
  /\ closed \in BOOLEAN
  /\ submitted \in 0..MaxSubmits
  /\ written \in Nat /\ errors \in Nat /\ dropped \in Nat /\ abandoned \in Nat
  /\ report \in Report \cup {NoReport}

Init ==
  /\ queue = <<>> /\ worker = "none" /\ row = 0 /\ stopping = FALSE
  /\ caller = "up" /\ closed = FALSE
  /\ submitted = 0 /\ written = 0 /\ errors = 0 /\ dropped = 0 /\ abandoned = 0
  /\ report = NoReport

----------------------------------------------------------------------------
Start ==
  /\ caller = "up"
  /\ worker = "none"
  /\ worker' = "waiting"
  /\ UNCHANGED <<queue, row, stopping, caller, closed, submitted, counters, report>>

Full == Len(queue) = MaxLen

Unbounded(n) == Append(queue, n)

\* deque(maxlen).append discards the oldest of a full deque.
Pushed(n) == Append(IF Full THEN Tail(queue) ELSE queue, n)

RefusalUncounted == Full

\* The submissions that count a drop.
Drops == stopping \/ Full

Submit ==
  /\ submitted < MaxSubmits
  /\ submitted' = submitted + 1
  /\ dropped' = IF Drops THEN dropped + 1 ELSE dropped
  /\ queue' = IF stopping THEN queue ELSE Pushed(submitted + 1)
  /\ UNCHANGED <<worker, row, stopping, caller, closed, written, errors,
                 abandoned, report>>

\* _run: popleft under the condition.
Take ==
  /\ worker = "waiting"
  /\ queue # <<>>
  /\ row' = Head(queue)
  /\ queue' = Tail(queue)
  /\ worker' = "writing"
  /\ UNCHANGED <<stopping, caller, closed, submitted, counters, report>>

\* fn() outside the condition; the persistence refuses once it is closed.
WriteSucceeds ==
  /\ worker = "writing"
  /\ ~closed
  /\ written' = written + 1
  /\ worker' = "waiting" /\ row' = 0
  /\ UNCHANGED <<queue, stopping, caller, closed, submitted, errors, dropped,
                 abandoned, report>>

FailureEndsWorker ==
  /\ worker = "writing"
  /\ errors' = errors + 1
  /\ worker' = "ended" /\ row' = 0
  /\ UNCHANGED <<queue, stopping, caller, closed, submitted, written, dropped,
                 abandoned, report>>

\* The exception is counted and the thread goes on.
WriteFails ==
  /\ worker = "writing"
  /\ errors' = errors + 1
  /\ worker' = "waiting" /\ row' = 0
  /\ UNCHANGED <<queue, stopping, caller, closed, submitted, written, dropped,
                 abandoned, report>>

\* The worker leaves when it is told to and nothing waits.
Finished == stopping /\ queue = <<>>

WorkerEnds ==
  /\ worker = "waiting"
  /\ Finished
  /\ worker' = "ended"
  /\ UNCHANGED <<queue, row, stopping, caller, closed, submitted, counters, report>>

----------------------------------------------------------------------------
(***************************************************************************)
(* shutdown: stop() and then the close of the database.                    *)
(***************************************************************************)
Stop ==
  /\ caller = "up"
  /\ stopping' = TRUE
  /\ caller' = "joining"
  /\ UNCHANGED <<queue, worker, row, closed, submitted, counters, report>>

\* There is no thread, or it has ended.
Join ==
  /\ caller = "joining"
  /\ worker \in {"none", "ended"}
  /\ caller' = "joined"
  /\ UNCHANGED <<queue, worker, row, stopping, closed, submitted, counters, report>>

JoinsForever == FALSE

JoinTimesOut ==
  /\ caller = "joining"
  /\ worker \notin {"none", "ended"}
  /\ caller' = "joined"
  /\ UNCHANGED <<queue, worker, row, stopping, closed, submitted, counters, report>>

\* abandoned = len(self._q); self._q.clear()
Clear ==
  /\ caller = "joined"
  /\ abandoned' = abandoned + Len(queue)
  /\ queue' = <<>>
  /\ caller' = "counted"
  /\ UNCHANGED <<worker, row, stopping, closed, submitted, written, errors,
                 dropped, report>>

\* stop() reads the counters after it has released the condition.
Return ==
  /\ caller = "counted"
  /\ report' = [written |-> written, errors |-> errors, dropped |-> dropped,
                abandoned |-> abandoned]
  /\ caller' = "reported"
  /\ UNCHANGED <<queue, worker, row, stopping, closed, submitted, counters>>

\* shutdown() stores the report as its last event and closes the database.
Close ==
  /\ caller = "reported"
  /\ closed' = TRUE
  /\ caller' = "closed"
  /\ UNCHANGED <<queue, worker, row, stopping, submitted, counters, report>>

Worker == Take \/ WriteSucceeds \/ WriteFails \/ WorkerEnds

Shutdown == Stop \/ Join \/ JoinTimesOut \/ Clear \/ Return \/ Close

Next == Start \/ Submit \/ Worker \/ Shutdown

Spec == Init /\ [][Next]_vars

\* shutdown() runs on; the thread is joined with a timeout.
StopFairness == WF_vars(Join \/ JoinTimesOut \/ Clear \/ Return \/ Close)

\* The thread runs and its writes return.
WorkerFairness == WF_vars(Worker)

FairSpec == Spec /\ StopFairness
----------------------------------------------------------------------------
Holding == IF worker = "writing" THEN 1 ELSE 0

\* "Drops are COUNTED, never silent": every row submitted is written, failed,
\* counted as dropped or abandoned, or still waiting or in the worker's hands.
EveryRowCounted ==
  submitted = written + errors + dropped + abandoned + Len(queue) + Holding

\* What waits is the newest rows, none missing among them, and the worker holds
\* an older one: a slow database costs the oldest telemetry and never reorders.
NewestWait ==
  /\ \A k \in 1..Len(queue) - 1 : queue[k + 1] = queue[k] + 1
  /\ queue # <<>> => row < queue[1]
  /\ ~stopping /\ queue # <<>> => queue[Len(queue)] = submitted

\* "shutdown does not abandon queued audit rows": rows are abandoned only while
\* the worker has not ended, because it never ran or the join timed out.
AbandonsOnlyOnTimeout ==
  [][abandoned' > abandoned => worker # "ended"]_vars

\* What shutdown() stores accounts for every row submitted before it returned.
\* The code does not keep this (README, section 6) and no run checks it.
ReportIsComplete ==
  [][report' # report =>
       submitted = report'.written + report'.errors + report'.dropped
                     + report'.abandoned]_vars

\* shutdown() returns even if a write hangs for ever.
ShutdownReturns == (caller = "joining") ~> closed

\* While writes return, no row of a started journal waits for ever or stays in
\* the worker's hands, whatever the writes before it raised.
Unresolved(n) == row = n \/ \E k \in DOMAIN queue : queue[k] = n

RowsResolve ==
  WorkerFairness =>
    \A n \in 1..MaxSubmits :
      (worker # "none" /\ Unresolved(n)) ~> ~Unresolved(n)
=============================================================================
