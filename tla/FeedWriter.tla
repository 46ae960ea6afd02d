----------------------------- MODULE FeedWriter -----------------------------
(***************************************************************************)
(* backend/feed_writer.py: the queue between the WebSocket callbacks and   *)
(* the parquet files.  Callbacks push into a bounded trade lane or into a  *)
(* depth lane that keeps the latest book of each key; one daemon thread    *)
(* drains both; stop() closes submissions, pushes a sentinel, waits for    *)
(* the thread with a timeout and reports what was left.  Every action is   *)
(* one critical section of the condition variable.                         *)
(***************************************************************************)
EXTENDS Integers, Sequences, SequencesExt, FiniteSets

CONSTANTS
  Keys,          \* the books the depth lane tells apart
  MaxTrades,     \* maxsize
  MaxDepth,      \* depth_maxsize
  TradeBudget,   \* TRADE_BUDGET
  MaxStarts,     \* bound: worker threads ever started
  MaxStops,      \* bound: calls of stop()
  MaxJobs        \* bound: jobs submitted

ASSUME WriterAssumption ==
  /\ MaxTrades \in Nat
  /\ MaxDepth \in Nat
  /\ TradeBudget \in Nat \ {0}
  /\ MaxStarts \in Nat
  /\ MaxStops \in Nat
  /\ MaxJobs \in Nat

VARIABLES
  trades,      \* _trades: numbers of trade jobs, and Sentinel
  depth,       \* _depth: [key, n] in the order the keys came in
  accepting,   \* _accepting
  seen,        \* _sentinel_seen
  inFlight,    \* _in_flight
  count,       \* the counters enqueued, superseded, dropped, written and failed
  thread,      \* _thread, or NoThread
  worker,      \* per thread: where it is and the job in its hand
  budget,      \* per thread: its local budget
  app,         \* the caller of start() and stop(), and stop()'s last result
  jobs,        \* bound and label: jobs submitted so far
  stops,       \* bound: calls of stop() so far
  ghost        \* what the order properties observe

vars == <<trades, depth, accepting, seen, inFlight, count, thread, worker, budget,
          app, jobs, stops, ghost>>

lanes == <<trades, depth>>
bounds == <<jobs, stops>>

Sentinel == 0
NoThread == 0
Threads == 1..MaxStarts
NoJob == [lane |-> "none", key |-> "none", n |-> 0]

Book == [key : Keys, n : Nat \ {0}]

Job == [lane : {"trade", "depth"}, key : Keys \cup {"none"}, n : Nat \ {0}]

Alive(t) == t \in Threads /\ worker[t].at \notin {"unborn", "ended"}

HeadIsSentinel == trades # <<>> /\ Head(trades) = Sentinel

EndsInSentinel == trades # <<>> /\ trades[Len(trades)] = Sentinel

\* Mutant: only the trade lane is counted.
TradesPending == Len(trades) - (IF EndsInSentinel THEN 1 ELSE 0)

\* What is still queued, as stop(), stats() and drain_for() count it: only a
\* sentinel at the end of the trade lane is left out.
PendingCount ==
  Len(trades) + Len(depth) - (IF EndsInSentinel THEN 1 ELSE 0)

Init ==
  /\ trades = <<>>
  /\ depth = <<>>
  /\ accepting = FALSE
  /\ seen = FALSE
  /\ inFlight = 0
  /\ count = [enqueued |-> 0, superseded |-> 0, dropped |-> 0, written |-> 0,
              failed |-> 0]
  /\ thread = NoThread
  /\ worker = [t \in Threads |-> [at |-> "unborn", job |-> NoJob]]
  /\ budget = [t \in Threads |-> TradeBudget]
  /\ app = [at |-> "idle", clean |-> FALSE, abandoned |-> 0, inFlight |-> 0,
            written |-> 0, failed |-> 0, told |-> FALSE]
  /\ jobs = 0
  /\ stops = 0
  /\ ghost = [skipped |-> 0, run |-> 0, trade |-> 0, depth |-> [k \in Keys |-> 0],
              ordered |-> TRUE, idleStop |-> FALSE]

----------------------------------------------------------------------------
At(t, stage) == [worker EXCEPT ![t] = [at |-> stage, job |-> worker[t].job]]

\* Mutant: submissions are opened before the thread is looked at.
StartAccepts ==
  /\ app.at = "idle"
  /\ IF Alive(thread)
       THEN UNCHANGED <<thread, worker, seen, ghost>>
       ELSE /\ \E t \in Threads :
                 /\ worker[t].at = "unborn"
                 /\ \A u \in Threads : u < t => worker[u].at # "unborn"
                 /\ thread' = t
                 /\ worker' = At(t, "taking")
            /\ seen' = FALSE
            /\ ghost' = [ghost EXCEPT !.skipped = 0, !.run = 0]
  /\ accepting' = TRUE
  /\ app' = [app EXCEPT !.told = FALSE]
  /\ UNCHANGED <<lanes, inFlight, count, budget, bounds>>

\* start(): a thread that is still alive is left alone, and so is _accepting.
Start ==
  /\ app.at = "idle"
  /\ ~Alive(thread)
  /\ \E t \in Threads :
       /\ worker[t].at = "unborn"
       /\ \A u \in Threads : u < t => worker[u].at # "unborn"
       /\ thread' = t
       /\ worker' = At(t, "taking")
  /\ accepting' = TRUE
  /\ seen' = FALSE
  /\ app' = [app EXCEPT !.told = FALSE]
  /\ ghost' = [ghost EXCEPT !.skipped = 0, !.run = 0]
  /\ UNCHANGED <<lanes, inFlight, count, budget, bounds>>

\* Mutant: the lane's bound is off by one.
SubmitBeyond ==
  /\ jobs < MaxJobs
  /\ accepting
  /\ Len(trades) <= MaxTrades
  /\ trades' = Append(trades, jobs + 1)
  /\ jobs' = jobs + 1
  /\ count' = [count EXCEPT !.enqueued = count.enqueued + 1]
  /\ app' = [app EXCEPT !.told = FALSE]
  /\ UNCHANGED <<depth, accepting, seen, inFlight, thread, worker, budget, stops, ghost>>

\* submit() of a writer that accepts, with a place left.
SubmitTrade ==
  /\ jobs < MaxJobs
  /\ accepting
  /\ Len(trades) < MaxTrades
  /\ trades' = Append(trades, jobs + 1)
  /\ jobs' = jobs + 1
  /\ count' = [count EXCEPT !.enqueued = count.enqueued + 1]
  /\ app' = [app EXCEPT !.told = FALSE]
  /\ UNCHANGED <<depth, accepting, seen, inFlight, thread, worker, budget, stops, ghost>>

\* submit_depth(): a book that waits is replaced where it stands.  The one it
\* replaces was enqueued and stays in that account.
SubmitDepth(k) ==
  /\ jobs < MaxJobs
  /\ accepting
  /\ IF \E i \in DOMAIN depth : depth[i].key = k
       THEN /\ depth' = [i \in DOMAIN depth |->
                           IF depth[i].key = k THEN [key |-> k, n |-> jobs + 1] ELSE depth[i]]
            /\ count' = [count EXCEPT !.superseded = count.superseded + 1]
       ELSE /\ Len(depth) < MaxDepth
            /\ depth' = Append(depth, [key |-> k, n |-> jobs + 1])
            /\ count' = [count EXCEPT !.enqueued = count.enqueued + 1]
  /\ jobs' = jobs + 1
  /\ app' = [app EXCEPT !.told = FALSE]
  /\ UNCHANGED <<trades, accepting, seen, inFlight, thread, worker, budget, stops, ghost>>

RefusesTrade == ~accepting \/ Len(trades) >= MaxTrades

RefusesBook(k) ==
  \/ ~accepting
  \/ Len(depth) >= MaxDepth /\ \A i \in DOMAIN depth : depth[i].key # k

\* submit() or submit_depth() answers False.
Drop ==
  /\ jobs < MaxJobs
  /\ RefusesTrade \/ \E k \in Keys : RefusesBook(k)
  /\ jobs' = jobs + 1
  /\ count' = [count EXCEPT !.dropped = count.dropped + 1]
  /\ UNCHANGED <<lanes, accepting, seen, inFlight, thread, worker, budget, app, stops,
                 ghost>>

----------------------------------------------------------------------------
(* The worker. *)

\* Mutant: the depth lane waits for the trades, and for the sentinel.
DepthAfterTrades(t) == depth # <<>> /\ (trades = <<>> \/ HeadIsSentinel)

\* Mutant: as before the fix, the sentinel ends the thread although depth waits.
SentinelEndsBoth(t) ==
  depth # <<>> /\ (trades = <<>> \/ (budget[t] <= 0 /\ ~HeadIsSentinel))

\* _next_job: the depth lane goes first when its turn has come, when no trade
\* waits, and while only the sentinel stands in the trade lane.
DepthTurn(t) ==
  /\ depth # <<>>
  /\ \/ trades = <<>>
     \/ HeadIsSentinel
     \/ budget[t] <= 0

TakeDepth(t) ==
  /\ worker[t].at = "taking"
  /\ DepthTurn(t)
  /\ worker' = [worker EXCEPT ![t] =
       [at |-> "writing", job |-> [lane |-> "depth", key |-> Head(depth).key,
                                   n |-> Head(depth).n]]]
  /\ depth' = Tail(depth)
  /\ budget' = IF HeadIsSentinel
                 THEN budget
                 ELSE [budget EXCEPT ![t] = TradeBudget]
  /\ inFlight' = inFlight + 1
  /\ ghost' = [ghost EXCEPT !.skipped = 0,
                 !.run = IF trades # <<>> /\ ~HeadIsSentinel
                           THEN ghost.run + 1 ELSE 0]
  /\ UNCHANGED <<trades, accepting, seen, count, thread, app, bounds>>

TakeTrade(t) ==
  /\ worker[t].at = "taking"
  /\ ~DepthTurn(t)
  /\ trades # <<>>
  /\ ~HeadIsSentinel
  /\ worker' = [worker EXCEPT ![t] =
       [at |-> "writing", job |-> [lane |-> "trade", key |-> "none", n |-> Head(trades)]]]
  /\ trades' = Tail(trades)
  /\ budget' = [budget EXCEPT ![t] = budget[t] - 1]
  /\ inFlight' = inFlight + 1
  /\ ghost' = [ghost EXCEPT !.skipped = IF depth = <<>> THEN 0 ELSE ghost.skipped + 1,
                            !.run = 0]
  /\ UNCHANGED <<depth, accepting, seen, count, thread, app, bounds>>

\* The sentinel ends the thread.  (The other return, on _stopping with both lanes
\* empty, is never taken: stop() sets the flag and pushes the sentinel at once.)
TakeSentinel(t) ==
  /\ worker[t].at = "taking"
  /\ ~DepthTurn(t)
  /\ HeadIsSentinel
  /\ trades' = Tail(trades)
  /\ seen' = TRUE
  /\ worker' = At(t, "leaving")
  /\ UNCHANGED <<depth, accepting, inFlight, count, thread, budget, app, bounds, ghost>>

\* Until now is_alive() was still true.
ThreadEnds(t) ==
  /\ worker[t].at = "leaving"
  /\ worker' = At(t, "ended")
  /\ UNCHANGED <<lanes, accepting, seen, inFlight, count, thread, budget, app, bounds, ghost>>

\* A write that ends later than a younger one of its lane was overtaken.
Observed(j) ==
  IF j.lane = "trade"
    THEN [ghost EXCEPT !.trade = j.n, !.ordered = ghost.ordered /\ j.n > ghost.trade]
    ELSE [ghost EXCEPT !.depth[j.key] = j.n,
                       !.ordered = ghost.ordered /\ j.n > ghost.depth[j.key]]

\* handler(payload) returns or raises; the count is taken under the lock.
WriteEnds(t, outcome) ==
  /\ worker[t].at = "writing"
  /\ worker' = At(t, "counted")
  /\ count' = [count EXCEPT ![outcome] = count[outcome] + 1]
  /\ ghost' = Observed(worker[t].job)
  /\ UNCHANGED <<lanes, accepting, seen, inFlight, thread, budget, app, bounds>>

\* The finally block, under the lock again.
Finish(t) ==
  /\ worker[t].at = "counted"
  /\ inFlight' = inFlight - 1
  /\ worker' = [worker EXCEPT ![t] = [at |-> "taking", job |-> NoJob]]
  /\ UNCHANGED <<lanes, accepting, seen, count, thread, budget, app, bounds, ghost>>

----------------------------------------------------------------------------
(* stop(timeout). *)

StopRequest ==
  /\ app.at = "idle"
  /\ stops < MaxStops
  /\ stops' = stops + 1
  /\ accepting' = FALSE
  /\ trades' = Append(trades, Sentinel)
  /\ app' = [app EXCEPT !.at = "joining", !.told = FALSE]
  /\ ghost' = [ghost EXCEPT !.idleStop = ghost.idleStop \/ ~accepting]
  /\ UNCHANGED <<depth, seen, inFlight, count, thread, worker, budget, jobs>>

\* Mutant: a thread that outlives the timeout is forgotten.
ThreadForgotten ==
  /\ app.at = "joining"
  /\ LET clean == seen /\ PendingCount = 0 /\ inFlight = 0
     IN app' = [at |-> "idle", clean |-> clean,
                abandoned |-> IF clean THEN 0 ELSE PendingCount,
                inFlight |-> inFlight, written |-> count.written,
                failed |-> count.failed, told |-> TRUE]
  /\ thread' = NoThread
  /\ UNCHANGED <<lanes, accepting, seen, inFlight, count, worker, budget, bounds, ghost>>

\* The join ends because the thread did, or because the timeout passed; what is
\* left is counted under the lock, and a thread that is alive is kept.
StopReturn ==
  /\ app.at = "joining"
  /\ LET clean == seen /\ PendingCount = 0 /\ inFlight = 0
     IN app' = [at |-> "idle", clean |-> clean,
                abandoned |-> IF clean THEN 0 ELSE PendingCount,
                inFlight |-> inFlight, written |-> count.written,
                failed |-> count.failed, told |-> TRUE]
  /\ thread' = IF Alive(thread) THEN thread ELSE NoThread
  /\ UNCHANGED <<lanes, accepting, seen, inFlight, count, worker, budget, bounds, ghost>>

Next ==
  \/ Start
  \/ SubmitTrade
  \/ \E k \in Keys : SubmitDepth(k)
  \/ Drop
  \/ \E t \in Threads :
       \/ TakeDepth(t)
       \/ TakeTrade(t)
       \/ TakeSentinel(t)
       \/ ThreadEnds(t)
       \/ \E outcome \in {"written", "failed"} : WriteEnds(t, outcome)
       \/ Finish(t)
  \/ StopRequest
  \/ StopReturn

Spec == Init /\ [][Next]_vars

Work(t) ==
  \/ TakeDepth(t)
  \/ TakeTrade(t)
  \/ TakeSentinel(t)
  \/ ThreadEnds(t)
  \/ \E outcome \in {"written", "failed"} : WriteEnds(t, outcome)
  \/ Finish(t)

\* A running thread runs on: the handlers return, no wait is without a timeout
\* (_cv.wait(timeout=0.25)), and nobody stops a daemon thread but the end of the
\* process.  No fairness for the callers.
FairSpec == Spec /\ \A t \in Threads : WF_vars(Work(t))

----------------------------------------------------------------------------
(* Properties. *)

Writing == {t \in Threads : worker[t].at = "writing"}

Held == {t \in Threads : worker[t].at \in {"writing", "counted"}}

Pills == {i \in DOMAIN trades : trades[i] = Sentinel}

Counts ==
  [enqueued : Nat, superseded : Nat, dropped : Nat, written : Nat, failed : Nat]

Stages == {"unborn", "taking", "writing", "counted", "leaving", "ended"}

Apps == [at : {"idle", "joining"}, clean : BOOLEAN, abandoned : Int, inFlight : Int,
         written : Nat, failed : Nat, told : BOOLEAN]

Ghosts == [skipped : Nat, run : Nat, trade : Nat, depth : [Keys -> Nat],
           ordered : BOOLEAN, idleStop : BOOLEAN]

\* The types of FeedWriter's fields; the lanes stay within their bounds, but for
\* the sentinels, which stop() pushes whatever the length.
TypeOK ==
  /\ trades \in Seq(Nat)
  /\ depth \in Seq(Book)
  /\ Len(depth) <= MaxDepth
  /\ Len(trades) <= MaxTrades + stops
  /\ accepting \in BOOLEAN
  /\ seen \in BOOLEAN
  /\ inFlight \in Int
  /\ count \in Counts
  /\ thread \in Threads \cup {NoThread}
  /\ worker \in [Threads -> [at : Stages, job : Job \cup {NoJob}]]
  /\ \A t \in Threads : worker[t].at \in {"writing", "counted"} => worker[t].job \in Job
  /\ budget \in [Threads -> Int]
  /\ app \in Apps
  /\ jobs \in 0..MaxJobs
  /\ stops \in 0..MaxStops
  /\ ghost \in Ghosts

\* Every submission is enqueued, takes the place of a book that waits, or is dropped.
SubmissionsCounted == jobs = count.enqueued + count.superseded + count.dropped

\* Every job enqueued is written, failed, queued or in a worker's hand.
JobsAccounted ==
  /\ count.enqueued = count.written + count.failed + Len(trades) - Cardinality(Pills)
                        + Len(depth) + Cardinality(Writing)
  /\ inFlight = Cardinality(Held)

\* What stop() reports: a clean stop left no job unwritten, and an unclean one
\* names every job that is left.  It may name more: a job whose write was just
\* counted is still in flight, and a sentinel of an earlier stop looks like a job.
ReportCoversJobs ==
  app.told =>
    LET reported == app.written + app.failed + app.abandoned + app.inFlight
    IN /\ app.clean => reported = count.enqueued
       /\ reported \in count.enqueued..(count.enqueued + stops)

\* No submission is lost without a count, and no report of stop() leaves an accepted
\* one out ("clean=False -> ... `abandoned` says exactly how many were lost").
NoJobLost == SubmissionsCounted /\ JobsAccounted /\ ReportCoversJobs

\* Trades are written in the order of their submission, and no stale book is
\* written after a fresher one of its key, also when a thread outlives the
\* timeout of stop() and the writer is started again.
WritesInOrder == ghost.ordered

\* A waiting book is passed by at most TRADE_BUDGET trades, a waiting trade by at
\* most one book ("so neither lane can starve the other").
NeitherStarves == ghost.skipped <= TradeBudget /\ ghost.run <= 1

\* A writer that accepts jobs has a thread that will take them, unless stop() was
\* called on a writer that did not accept any: its sentinel finds no thread, waits
\* for the next one and ends it at once.
AcceptingIsServed ==
  accepting /\ ~(Alive(thread) /\ worker[thread].at # "leaving") => ghost.idleStop

\* Once stop() has reached a running thread, every job queued before it is taken,
\* whether or not the timeout expires ("a shutdown that CAN drain must drain"),
\* unless an earlier stop() left its sentinel in front of jobs.
StopDrains ==
  app.at = "joining" /\ Alive(thread) /\ ~ghost.idleStop
    ~> depth = <<>> /\ Len(trades) = Cardinality(Pills)
=============================================================================
