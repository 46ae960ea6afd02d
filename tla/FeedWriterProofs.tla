-------------------------- MODULE FeedWriterProofs --------------------------
(***************************************************************************)
(* Proofs about FeedWriter for any lanes, budget and number of restarts:   *)
(* types, the single worker, the fairness of the two lanes, that a writer  *)
(* which accepts jobs has a worker, the order of the writes, and that      *)
(* every accepted job is counted and covered by the report of stop().      *)
(***************************************************************************)
EXTENDS FeedWriter, FiniteSetTheorems, TLAPS

(* Types. *)

\* The initial state has its types.
LEMMA InitTypeOK == Init => TypeOK
<1> SUFFICES ASSUME Init PROVE TypeOK
  OBVIOUS
<1>1. count \in Counts /\ app \in Apps /\ ghost \in Ghosts
  BY DEF Init, Counts, Apps, Ghosts
<1>2. /\ worker \in [Threads -> [at : Stages, job : Job \cup {NoJob}]]
      /\ \A t \in Threads : worker[t].at \in {"writing", "counted"} => worker[t].job \in Job
  BY DEF Init, Stages
<1>3. budget \in [Threads -> Int]
  BY WriterAssumption DEF Init, WriterAssumption
<1> QED
  <2>1. /\ trades = <<>> /\ depth = <<>> /\ accepting = FALSE /\ seen = FALSE
        /\ inFlight = 0 /\ thread = NoThread /\ jobs = 0 /\ stops = 0
    BY DEF Init
  <2>2. Len(depth) <= MaxDepth /\ Len(trades) <= MaxTrades + stops
    BY <2>1, WriterAssumption DEF WriterAssumption
  <2>3. jobs \in 0..MaxJobs /\ stops \in 0..MaxStops
    BY <2>1, WriterAssumption DEF WriterAssumption
  <2>4. trades \in Seq(Nat) /\ depth \in Seq(Book)
    BY <2>1
  <2>5. accepting \in BOOLEAN /\ seen \in BOOLEAN
    BY <2>1, Zenon
  <2>6. inFlight \in Int /\ thread \in Threads \cup {NoThread}
    BY <2>1
  <2> QED
    BY <1>1, <1>2, <1>3, <2>2, <2>3, <2>4, <2>5, <2>6 DEF TypeOK

\* What a step that only moves worker t to stage s, with job j, leaves typed.
LEMMA WorkerMoves ==
  ASSUME NEW t \in Threads, NEW s \in Stages, NEW j \in Job \cup {NoJob},
         worker \in [Threads -> [at : Stages, job : Job \cup {NoJob}]],
         \A u \in Threads : worker[u].at \in {"writing", "counted"} => worker[u].job \in Job,
         s \in {"writing", "counted"} => j \in Job,
         worker' = [worker EXCEPT ![t] = [at |-> s, job |-> j]]
  PROVE  /\ worker' \in [Threads -> [at : Stages, job : Job \cup {NoJob}]]
         /\ \A u \in Threads :
              worker'[u].at \in {"writing", "counted"} => worker'[u].job \in Job
  OBVIOUS

LEMMA StageMoves ==
  ASSUME NEW t \in Threads, NEW s \in Stages,
         worker \in [Threads -> [at : Stages, job : Job \cup {NoJob}]],
         \A u \in Threads : worker[u].at \in {"writing", "counted"} => worker[u].job \in Job,
         s \in {"writing", "counted"} => worker[t].at \in {"writing", "counted"},
         worker' = At(t, s)
  PROVE  /\ worker' \in [Threads -> [at : Stages, job : Job \cup {NoJob}]]
         /\ \A u \in Threads :
              worker'[u].at \in {"writing", "counted"} => worker'[u].job \in Job
<1> DEFINE j == worker[t].job
<1>1. worker[t] \in [at : Stages, job : Job \cup {NoJob}]
  OBVIOUS
<1>2. j \in Job \cup {NoJob} /\ (s \in {"writing", "counted"} => j \in Job)
  BY <1>1
<1>3. worker' = [worker EXCEPT ![t] = [at |-> s, job |-> j]]
  BY DEF At
<1> HIDE DEF j
<1> QED
  BY <1>2, <1>3, WorkerMoves

LEMMA StartTypes == ASSUME TypeOK, Start PROVE TypeOK'
<1>1. PICK t \in Threads : /\ thread' = t
                           /\ worker' = At(t, "taking")
  BY DEF Start
<1>2. /\ worker' \in [Threads -> [at : Stages, job : Job \cup {NoJob}]]
      /\ \A u \in Threads : worker'[u].at \in {"writing", "counted"} => worker'[u].job \in Job
  <2>1. "taking" \in Stages
    BY DEF Stages
  <2> QED
    BY <1>1, <2>1, StageMoves DEF TypeOK
<1>3. app' \in Apps /\ ghost' \in Ghosts
  BY DEF TypeOK, Start, Apps, Ghosts
<1> QED
  BY <1>1, <1>2, <1>3 DEF TypeOK, Start, lanes, bounds

LEMMA SubmitTradeTypes == ASSUME TypeOK, SubmitTrade PROVE TypeOK'
<1>1. app' \in Apps /\ count' \in Counts
  <2>1. app \in Apps /\ count \in Counts
    BY DEF TypeOK
  <2>2. /\ app' = [app EXCEPT !.told = FALSE]
        /\ count' = [count EXCEPT !.enqueued = count.enqueued + 1]
    BY DEF SubmitTrade
  <2>3. count.enqueued + 1 \in Nat
    BY <2>1 DEF Counts
  <2>4. app' \in Apps
    BY <2>1, <2>2 DEF Apps
  <2> QED
    BY <2>1, <2>2, <2>3, <2>4 DEF Counts
<1>2. jobs' \in 0..MaxJobs /\ jobs + 1 \in Nat
  BY WriterAssumption DEF TypeOK, SubmitTrade, WriterAssumption
<1>3. /\ trades' \in Seq(Nat)
      /\ Len(trades') <= MaxTrades + stops
  BY <1>2, WriterAssumption DEF TypeOK, SubmitTrade, WriterAssumption
<1> QED
  BY <1>1, <1>2, <1>3 DEF TypeOK, SubmitTrade

LEMMA SubmitDepthTypes ==
  ASSUME NEW k \in Keys, TypeOK, SubmitDepth(k)
  PROVE  TypeOK'
<1> DEFINE new == [key |-> k, n |-> jobs + 1]
<1>1. jobs' \in 0..MaxJobs /\ jobs + 1 \in Nat \ {0}
  BY SMTT(30), WriterAssumption DEF TypeOK, SubmitDepth, WriterAssumption
<1>2. new \in Book /\ depth \in Seq(Book)
  BY <1>1 DEF TypeOK, Book
<1>3. depth' \in Seq(Book) /\ Len(depth') <= MaxDepth /\ count' \in Counts
  <2>1. CASE \E i \in DOMAIN depth : depth[i].key = k
    <3>1. /\ depth' = [i \in 1..Len(depth) |-> IF depth[i].key = k THEN new ELSE depth[i]]
          /\ count' = [count EXCEPT !.superseded = count.superseded + 1]
      BY <1>2, <2>1 DEF SubmitDepth
    <3>2. depth' \in [1..Len(depth) -> Book]
      BY <1>2, <3>1
    <3>3. count' \in Counts
      <4>1. count \in Counts
        BY DEF TypeOK
      <4>2. count.superseded + 1 \in Nat
        BY <4>1 DEF Counts
      <4> QED
        BY <3>1, <4>1, <4>2 DEF Counts
    <3> QED
      BY <1>2, <3>1, <3>2, <3>3 DEF TypeOK
  <2>2. CASE ~\E i \in DOMAIN depth : depth[i].key = k
    <3>1. /\ depth' = Append(depth, new) /\ Len(depth) < MaxDepth
          /\ count' = [count EXCEPT !.enqueued = count.enqueued + 1]
      BY <2>2 DEF SubmitDepth
    <3>2. count' \in Counts
      <4>1. count \in Counts
        BY DEF TypeOK
      <4>2. count.enqueued + 1 \in Nat
        BY <4>1 DEF Counts
      <4> QED
        BY <3>1, <4>1, <4>2 DEF Counts
    <3> QED
      BY <1>2, <3>1, <3>2, WriterAssumption DEF WriterAssumption
  <2> QED
    BY <2>1, <2>2
<1>4. app' \in Apps
  BY DEF TypeOK, SubmitDepth, Apps
<1> QED
  BY <1>1, <1>3, <1>4 DEF TypeOK, SubmitDepth, Book

LEMMA DropTypes == ASSUME TypeOK, Drop PROVE TypeOK'
<1>1. jobs' \in 0..MaxJobs
  BY WriterAssumption DEF TypeOK, Drop, WriterAssumption
<1>2. count' \in Counts
  <2>1. count \in Counts /\ count' = [count EXCEPT !.dropped = count.dropped + 1]
    BY DEF TypeOK, Drop
  <2>2. count.dropped + 1 \in Nat
    BY <2>1 DEF Counts
  <2> QED
    BY <2>1, <2>2 DEF Counts
<1> QED
  BY <1>1, <1>2 DEF TypeOK, Drop, lanes

LEMMA TakeDepthTypes ==
  ASSUME NEW t \in Threads, TypeOK, TakeDepth(t)
  PROVE  TypeOK'
<1> DEFINE j == [lane |-> "depth", key |-> Head(depth).key, n |-> Head(depth).n]
<1>1. /\ Head(depth) \in Book
      /\ depth' \in Seq(Book)
      /\ Len(depth') <= MaxDepth
  <2>1. depth \in Seq(Book) /\ depth # <<>> /\ Len(depth) <= MaxDepth
    BY DEF TypeOK, TakeDepth, DepthTurn
  <2>2. depth' = Tail(depth)
    BY DEF TakeDepth
  <2> QED
    BY <2>1, <2>2, WriterAssumption DEF WriterAssumption
<1>2. j \in Job
  BY <1>1 DEF Job, Book
<1>3. /\ worker' \in [Threads -> [at : Stages, job : Job \cup {NoJob}]]
      /\ \A u \in Threads : worker'[u].at \in {"writing", "counted"} => worker'[u].job \in Job
  <2>1. "writing" \in Stages
    BY DEF Stages
  <2>2. worker' = [worker EXCEPT ![t] = [at |-> "writing", job |-> j]]
    BY DEF TakeDepth
  <2> HIDE DEF j
  <2> QED
    BY <1>2, <2>1, <2>2, WorkerMoves DEF TypeOK
<1>4. budget' \in [Threads -> Int]
  BY WriterAssumption DEF TypeOK, TakeDepth, WriterAssumption
<1>5. ghost' \in Ghosts
  <2>1. ghost \in Ghosts
    BY DEF TypeOK
  <2>2. PICK n : ghost' = [ghost EXCEPT !.skipped = 0, !.run = n]
                   /\ n \in {0, ghost.run + 1}
    BY DEF TakeDepth
  <2>3. n \in Nat
    BY <2>1, <2>2 DEF Ghosts
  <2> QED
    BY <2>1, <2>2, <2>3 DEF Ghosts
<1> QED
  BY SMTT(30), <1>1, <1>3, <1>4, <1>5 DEF TypeOK, TakeDepth, bounds, Book

LEMMA TakeTradeTypes ==
  ASSUME NEW t \in Threads, TypeOK, TakeTrade(t)
  PROVE  TypeOK'
<1> DEFINE j == [lane |-> "trade", key |-> "none", n |-> Head(trades)]
<1>1. /\ Head(trades) \in Nat \ {0}
      /\ trades' \in Seq(Nat)
      /\ Len(trades') <= MaxTrades + stops
  <2>1. trades \in Seq(Nat) /\ trades # <<>> /\ Len(trades) <= MaxTrades + stops
        /\ Head(trades) # 0 /\ stops \in Nat
    BY SMTT(30), WriterAssumption DEF TypeOK, TakeTrade, HeadIsSentinel, Sentinel, WriterAssumption
  <2>2. trades' = Tail(trades) /\ stops' = stops
    BY DEF TakeTrade, bounds
  <2> QED
    BY <2>1, <2>2, WriterAssumption DEF WriterAssumption
<1>2. j \in Job
  BY <1>1 DEF Job
<1>3. /\ worker' \in [Threads -> [at : Stages, job : Job \cup {NoJob}]]
      /\ \A u \in Threads : worker'[u].at \in {"writing", "counted"} => worker'[u].job \in Job
  <2>1. "writing" \in Stages
    BY DEF Stages
  <2>2. worker' = [worker EXCEPT ![t] = [at |-> "writing", job |-> j]]
    BY DEF TakeTrade
  <2> HIDE DEF j
  <2> QED
    BY <1>2, <2>1, <2>2, WorkerMoves DEF TypeOK
<1>4. budget' \in [Threads -> Int]
  BY DEF TypeOK, TakeTrade
<1>5. ghost' \in Ghosts
  <2>1. ghost \in Ghosts
    BY DEF TypeOK
  <2>2. PICK n : ghost' = [ghost EXCEPT !.skipped = n, !.run = 0]
                   /\ n \in {0, ghost.skipped + 1}
    BY DEF TakeTrade
  <2>3. n \in Nat
    BY <2>1, <2>2 DEF Ghosts
  <2> QED
    BY <2>1, <2>2, <2>3 DEF Ghosts
<1> QED
  BY SMTT(30), <1>1, <1>3, <1>4, <1>5 DEF TypeOK, TakeTrade, bounds

LEMMA TakeSentinelTypes ==
  ASSUME NEW t \in Threads, TypeOK, TakeSentinel(t)
  PROVE  TypeOK'
<1>1. /\ trades' \in Seq(Nat)
      /\ Len(trades') <= MaxTrades + stops
  BY WriterAssumption DEF TypeOK, TakeSentinel, HeadIsSentinel, WriterAssumption
<1>2. /\ worker' \in [Threads -> [at : Stages, job : Job \cup {NoJob}]]
      /\ \A u \in Threads : worker'[u].at \in {"writing", "counted"} => worker'[u].job \in Job
  <2>1. "leaving" \in Stages
    BY DEF Stages
  <2> QED
    BY <2>1, StageMoves DEF TypeOK, TakeSentinel
<1> QED
  BY <1>1, <1>2 DEF TypeOK, TakeSentinel, bounds

LEMMA ThreadEndsTypes ==
  ASSUME NEW t \in Threads, TypeOK, ThreadEnds(t)
  PROVE  TypeOK'
<1>1. /\ worker' \in [Threads -> [at : Stages, job : Job \cup {NoJob}]]
      /\ \A u \in Threads : worker'[u].at \in {"writing", "counted"} => worker'[u].job \in Job
  <2>1. "ended" \in Stages
    BY DEF Stages
  <2> QED
    BY <2>1, StageMoves DEF TypeOK, ThreadEnds
<1> QED
  BY <1>1 DEF TypeOK, ThreadEnds, lanes, bounds

LEMMA WriteEndsTypes ==
  ASSUME NEW t \in Threads, NEW o \in {"written", "failed"}, TypeOK, WriteEnds(t, o)
  PROVE  TypeOK'
<1>1. worker[t].job \in Job
  BY DEF TypeOK, WriteEnds
<1>2. ghost' \in Ghosts
  BY <1>1 DEF TypeOK, WriteEnds, Observed, Job, Ghosts
<1>3. count' \in Counts
  <2>1. count \in Counts /\ count' = [count EXCEPT ![o] = count[o] + 1]
    BY DEF TypeOK, WriteEnds
  <2>2. count[o] + 1 \in Nat
    BY <2>1 DEF Counts
  <2> QED
    BY <2>1, <2>2 DEF Counts
<1>4. /\ worker' \in [Threads -> [at : Stages, job : Job \cup {NoJob}]]
      /\ \A u \in Threads : worker'[u].at \in {"writing", "counted"} => worker'[u].job \in Job
  <2>1. "counted" \in Stages
    BY DEF Stages
  <2> QED
    BY <2>1, StageMoves DEF TypeOK, WriteEnds
<1> QED
  BY <1>2, <1>3, <1>4 DEF TypeOK, WriteEnds, lanes, bounds

LEMMA FinishTypes ==
  ASSUME NEW t \in Threads, TypeOK, Finish(t)
  PROVE  TypeOK'
<1>1. /\ worker' \in [Threads -> [at : Stages, job : Job \cup {NoJob}]]
      /\ \A u \in Threads : worker'[u].at \in {"writing", "counted"} => worker'[u].job \in Job
  <2>1. "taking" \in Stages
    BY DEF Stages
  <2> QED
    BY <2>1, WorkerMoves DEF TypeOK, Finish
<1> QED
  BY <1>1 DEF TypeOK, Finish, lanes, bounds

LEMMA StopRequestTypes == ASSUME TypeOK, StopRequest PROVE TypeOK'
<1>1. app' \in Apps /\ ghost' \in Ghosts
  BY DEF TypeOK, StopRequest, Apps, Ghosts
<1>2. /\ stops' \in 0..MaxStops
      /\ trades' \in Seq(Nat)
      /\ Len(trades') <= MaxTrades + stops'
  BY SMTT(30), WriterAssumption DEF TypeOK, StopRequest, Sentinel, WriterAssumption
<1> QED
  BY <1>1, <1>2 DEF TypeOK, StopRequest

LEMMA StopReturnTypes == ASSUME TypeOK, StopReturn PROVE TypeOK'
<1>1. PendingCount \in Int
  BY DEF TypeOK, PendingCount
<1>2. app' \in Apps
  BY <1>1 DEF TypeOK, StopReturn, Apps, Counts
<1>3. thread' \in Threads \cup {NoThread}
  BY DEF TypeOK, StopReturn
<1> QED
  BY <1>2, <1>3 DEF TypeOK, StopReturn, lanes, bounds

\* Every step, or none, keeps the types.
LEMMA NextTypeOK == TypeOK /\ [Next]_vars => TypeOK'
<1>1. SUFFICES ASSUME TypeOK, [Next]_vars PROVE TypeOK'
  OBVIOUS
<1>2. CASE UNCHANGED vars
  BY <1>1, <1>2 DEF TypeOK, vars
<1>3. CASE Start
  BY <1>1, <1>3, StartTypes
<1>4. CASE SubmitTrade
  BY <1>1, <1>4, SubmitTradeTypes
<1>5. CASE \E k \in Keys : SubmitDepth(k)
  BY <1>1, <1>5, SubmitDepthTypes
<1>6. ASSUME NEW t \in Threads,
             \/ TakeDepth(t) \/ TakeTrade(t) \/ TakeSentinel(t) \/ ThreadEnds(t)
             \/ (\E o \in {"written", "failed"} : WriteEnds(t, o)) \/ Finish(t)
      PROVE  TypeOK'
  BY <1>1, <1>6, TakeDepthTypes, TakeTradeTypes, TakeSentinelTypes, ThreadEndsTypes,
     WriteEndsTypes, FinishTypes
<1>7. CASE StopRequest
  BY <1>1, <1>7, StopRequestTypes
<1>8. CASE StopReturn
  BY <1>1, <1>8, StopReturnTypes
<1>9. CASE Drop
  BY <1>1, <1>9, DropTypes
<1>10. QED
  BY <1>1, <1>2, <1>3, <1>4, <1>5, <1>6, <1>7, <1>8, <1>9 DEF Next

\* The fields keep their types and the lanes their bounds, whatever the number of
\* submissions, restarts and stops (FeedWriter).
THEOREM TypeCorrect == Spec => []TypeOK
  BY InitTypeOK, NextTypeOK, PTL DEF Spec

----------------------------------------------------------------------------
(* One worker at a time. *)

OneWorker == \A t \in Threads : Alive(t) => t = thread

\* A thread that was never started has its whole budget.
Fresh == \A t \in Threads : worker[t].at = "unborn" => budget[t] = TradeBudget

WorkerInv == OneWorker /\ Fresh

\* How the steps of a running thread change what Alive tells apart.
LEMMA WorkSteps ==
  ASSUME NEW t \in Threads, TypeOK, Work(t)
  PROVE  /\ Alive(t) /\ thread' = thread
         /\ worker' \in [Threads -> [at : Stages, job : Job \cup {NoJob}]]
         /\ worker'[t].at # "unborn"
         /\ \A u \in Threads \ {t} : worker'[u] = worker[u] /\ budget'[u] = budget[u]
         /\ accepting' = accepting /\ stops' = stops /\ jobs' = jobs
<1>1. TypeOK'
  <2>1. Next
    BY DEF Next, Work
  <2> QED
    BY <2>1, NextTypeOK
<1>2. worker \in [Threads -> [at : Stages, job : Job \cup {NoJob}]] /\ budget \in [Threads -> Int]
  BY DEF TypeOK
<1>3. worker' \in [Threads -> [at : Stages, job : Job \cup {NoJob}]]
  BY <1>1 DEF TypeOK
<1>4. CASE TakeDepth(t)
  BY <1>2, <1>3, <1>4 DEF TakeDepth, Alive, bounds
<1>5. CASE TakeTrade(t)
  BY <1>2, <1>3, <1>5 DEF TakeTrade, Alive, bounds
<1>6. CASE TakeSentinel(t)
  BY <1>2, <1>3, <1>6 DEF TakeSentinel, Alive, At, bounds
<1>7. CASE ThreadEnds(t)
  BY <1>2, <1>3, <1>7 DEF ThreadEnds, Alive, At, bounds
<1>8. CASE \E o \in {"written", "failed"} : WriteEnds(t, o)
  BY <1>2, <1>3, <1>8 DEF WriteEnds, Alive, At, bounds
<1>9. CASE Finish(t)
  BY <1>2, <1>3, <1>9 DEF Finish, Alive, bounds
<1> QED
  BY <1>4, <1>5, <1>6, <1>7, <1>8, <1>9 DEF Work

LEMMA StartSteps ==
  ASSUME TypeOK, Start
  PROVE  /\ ~Alive(thread) /\ thread' \in Threads
         /\ worker[thread'].at = "unborn"
         /\ worker'[thread'].at = "taking" /\ Alive(thread)'
         /\ \A u \in Threads \ {thread'} : worker'[u] = worker[u]
         /\ budget' = budget
  BY DEF TypeOK, Start, Alive, At

\* The steps of the callers leave every thread where it is.
CallerStep ==
  \/ SubmitTrade
  \/ \E k \in Keys : SubmitDepth(k)
  \/ Drop
  \/ StopRequest
  \/ StopReturn
  \/ UNCHANGED vars

LEMMA CallerSteps ==
  ASSUME TypeOK, CallerStep
  PROVE  /\ worker' = worker /\ budget' = budget
         /\ thread' = thread \/ (thread' = NoThread /\ ~Alive(thread))
  BY DEF CallerStep, SubmitTrade, SubmitDepth, Drop, StopRequest, StopReturn, vars

LEMMA Steps == [Next]_vars => Start \/ CallerStep \/ \E t \in Threads : Work(t)
  BY DEF Next, CallerStep, Work

LEMMA WorkerStep == ASSUME TypeOK, WorkerInv, [Next]_vars PROVE WorkerInv'
<1>1. CASE Start
  <2>1. Fresh'
    BY <1>1, StartSteps DEF WorkerInv, Fresh
  <2>2. OneWorker'
    BY <1>1, StartSteps DEF WorkerInv, OneWorker, Alive
  <2> QED
    BY <2>1, <2>2 DEF WorkerInv
<1>2. CASE CallerStep
  BY <1>2, CallerSteps DEF WorkerInv, OneWorker, Fresh, Alive
<1>3. ASSUME NEW t \in Threads, Work(t) PROVE WorkerInv'
  <2>1. Fresh'
    BY <1>3, WorkSteps DEF WorkerInv, Fresh
  <2>2. OneWorker'
    BY <1>3, WorkSteps DEF WorkerInv, OneWorker, Alive
  <2> QED
    BY <2>1, <2>2 DEF WorkerInv
<1> QED
  BY <1>1, <1>2, <1>3, Steps

----------------------------------------------------------------------------
(* Neither lane starves the other. *)

LaneInv ==
  /\ ghost.skipped <= TradeBudget
  /\ ghost.run <= 1
  /\ Alive(thread) =>
       /\ ghost.skipped + budget[thread] <= TradeBudget
       /\ ghost.run = 1 => budget[thread] > 0

LEMMA LaneStep ==
  ASSUME TypeOK, TypeOK', WorkerInv, LaneInv, [Next]_vars
  PROVE  LaneInv'
<1>0. /\ ghost \in Ghosts /\ ghost' \in Ghosts /\ TradeBudget \in Nat \ {0}
      /\ budget \in [Threads -> Int] /\ budget' \in [Threads -> Int]
      /\ worker' \in [Threads -> [at : Stages, job : Job \cup {NoJob}]]
  BY WriterAssumption DEF TypeOK, WriterAssumption
<1>a. ghost.skipped \in Nat /\ ghost.run \in Nat
  BY <1>0 DEF Ghosts
<1>1. CASE Start
  <2>1. ghost'.skipped = 0 /\ ghost'.run = 0
    BY <1>0, <1>1 DEF Start, Ghosts
  <2>2. budget'[thread'] = TradeBudget
    BY <1>1, StartSteps DEF WorkerInv, Fresh
  <2> QED
    BY <1>0, <2>1, <2>2 DEF LaneInv
<1>2. CASE CallerStep
  <2>1. ghost'.skipped = ghost.skipped /\ ghost'.run = ghost.run
    BY <1>0, <1>2
       DEF CallerStep, SubmitTrade, SubmitDepth, Drop, StopRequest, StopReturn, vars,
           Ghosts
  <2>2. /\ worker' = worker /\ budget' = budget
        /\ thread' = thread \/ (thread' = NoThread /\ ~Alive(thread))
    BY <1>2, CallerSteps
  <2>3. Alive(thread)' => thread' = thread /\ Alive(thread)
    BY <2>2 DEF Alive, Threads, NoThread
  <2> QED
    BY <2>1, <2>2, <2>3 DEF LaneInv
<1>3. ASSUME NEW t \in Threads, Work(t) PROVE LaneInv'
  <2>1. /\ t = thread /\ thread' = thread /\ Alive(thread)
        /\ budget[t] \in Int /\ budget'[t] \in Int
    BY <1>0, <1>3, WorkSteps DEF WorkerInv, OneWorker
  <2>2. /\ ghost.skipped + budget[t] <= TradeBudget
        /\ ghost.run = 1 => budget[t] > 0
        /\ ghost.skipped <= TradeBudget /\ ghost.run <= 1
    BY <2>1 DEF LaneInv
  <2>3. CASE TakeDepth(t)
    <3>1. ghost'.skipped = 0
      BY <1>0, <2>3 DEF TakeDepth, Ghosts
    <3>2. CASE HeadIsSentinel
      <4>1. budget' = budget /\ ghost'.run = 0
        BY <1>0, <2>3, <3>2 DEF TakeDepth, Ghosts
      <4> QED
        BY <1>0, <1>a, <2>1, <2>2, <3>1, <4>1 DEF LaneInv
    <3>3. CASE ~HeadIsSentinel
      <4>1. budget'[t] = TradeBudget
        BY <1>0, <2>3, <3>3 DEF TakeDepth
      <4>2. ghost'.run <= 1
        <5>1. CASE trades = <<>>
          BY <1>0, <2>3, <5>1 DEF TakeDepth, Ghosts
        <5>2. CASE trades # <<>>
          <6>1. ghost'.run = ghost.run + 1 /\ budget[t] <= 0
            BY <1>0, <2>3, <3>3, <5>2 DEF TakeDepth, Ghosts, DepthTurn
          <6> QED
            BY <1>a, <2>1, <2>2, <6>1
        <5> QED
          BY <5>1, <5>2
      <4> QED
        BY <1>0, <2>1, <3>1, <4>1, <4>2 DEF LaneInv
    <3> QED
      BY <3>2, <3>3
  <2>4. CASE TakeTrade(t)
    <3>1. ghost'.run = 0 /\ budget'[t] = budget[t] - 1
      BY <1>0, <2>4 DEF TakeTrade, Ghosts
    <3>2. CASE depth = <<>>
      <4>1. ghost'.skipped = 0
        BY <1>0, <2>4, <3>2 DEF TakeTrade, Ghosts
      <4> QED
        BY <1>0, <1>a, <2>1, <2>2, <3>1, <4>1 DEF LaneInv
    <3>3. CASE depth # <<>>
      <4>1. ghost'.skipped = ghost.skipped + 1 /\ budget[t] > 0
        BY <1>0, <2>1, <2>4, <3>3 DEF TakeTrade, DepthTurn, Ghosts
      <4> QED
        BY <1>0, <1>a, <2>1, <2>2, <3>1, <4>1 DEF LaneInv
    <3> QED
      BY <3>2, <3>3
  <2>5. CASE \/ TakeSentinel(t) \/ ThreadEnds(t) \/ Finish(t)
             \/ \E o \in {"written", "failed"} : WriteEnds(t, o)
    <3>1. budget' = budget
      BY <2>5 DEF TakeSentinel, ThreadEnds, Finish, WriteEnds
    <3>2. ghost'.skipped = ghost.skipped /\ ghost'.run = ghost.run
      BY <1>0, <2>5 DEF TakeSentinel, ThreadEnds, Finish, WriteEnds, Observed, Ghosts
    <3> QED
      BY <2>1, <2>2, <3>1, <3>2 DEF LaneInv
  <2> QED
    BY <1>3, <2>3, <2>4, <2>5 DEF Work
<1> QED
  BY <1>1, <1>2, <1>3, Steps

\* With any budget and any restarts, at most TRADE_BUDGET trades pass a waiting
\* book and at most one book passes a waiting trade (_next_job).
THEOREM LanesAreFair == Spec => []NeitherStarves
<1>1. Init => TypeOK /\ WorkerInv /\ LaneInv
  <2> SUFFICES ASSUME Init PROVE TypeOK /\ WorkerInv /\ LaneInv
    OBVIOUS
  <2>1. TypeOK
    BY InitTypeOK
  <2>2. \A t \in Threads : worker[t].at = "unborn" /\ budget[t] = TradeBudget
    BY DEF Init
  <2>3. thread = NoThread /\ ghost.skipped = 0 /\ ghost.run = 0
    BY DEF Init
  <2>4. ~Alive(thread)
    BY <2>3 DEF Alive, Threads, NoThread
  <2> QED
    BY <2>1, <2>2, <2>3, <2>4, WriterAssumption
       DEF WorkerInv, OneWorker, Fresh, LaneInv, Alive, WriterAssumption
<1>2. TypeOK /\ WorkerInv /\ LaneInv /\ [Next]_vars => (TypeOK /\ WorkerInv /\ LaneInv)'
  BY NextTypeOK, WorkerStep, LaneStep
<1>3. LaneInv => NeitherStarves
  BY DEF LaneInv, NeitherStarves
<1> QED
  BY <1>1, <1>2, <1>3, PTL DEF Spec

----------------------------------------------------------------------------
(* A writer that accepts jobs has a worker. *)

Serving == Alive(thread) /\ worker[thread].at # "leaving"

ServeInv ==
  /\ app.at = "joining" => ~accepting
  /\ ~ghost.idleStop =>
       /\ accepting => Serving
       /\ \A i \in 1..Len(trades) :
            trades[i] = Sentinel => i = Len(trades) /\ ~accepting /\ Serving

LEMMA ServeStep ==
  ASSUME TypeOK, TypeOK', WorkerInv, ServeInv, [Next]_vars
  PROVE  ServeInv'
<1>0. /\ ghost \in Ghosts /\ app \in Apps /\ trades \in Seq(Nat) /\ jobs \in Nat
      /\ worker \in [Threads -> [at : Stages, job : Job \cup {NoJob}]]
  BY WriterAssumption DEF TypeOK, WriterAssumption
<1>1. CASE Start
  <2>1. /\ ghost'.idleStop = ghost.idleStop /\ app'.at = "idle" /\ trades' = trades
    BY <1>0, <1>1 DEF Start, Ghosts, Apps, lanes
  <2>2. ~Serving /\ Serving'
    BY <1>1, StartSteps DEF Serving
  <2> QED
    BY <2>1, <2>2 DEF ServeInv
<1>2. CASE SubmitTrade
  <2>1. /\ ghost' = ghost /\ app'.at = app.at /\ accepting' = accepting /\ accepting
        /\ worker' = worker /\ thread' = thread /\ trades' = Append(trades, jobs + 1)
    BY <1>0, <1>2 DEF SubmitTrade, Apps
  <2>2. Serving' = Serving
    BY <2>1 DEF Serving, Alive
  <2>3. \A i \in 1..Len(trades') : trades'[i] = Sentinel =>
          i \in 1..Len(trades) /\ trades[i] = Sentinel
    BY <1>0, <2>1 DEF Sentinel
  <2> QED
    BY <2>1, <2>2, <2>3 DEF ServeInv
<1>3. CASE \/ \E k \in Keys : SubmitDepth(k)
           \/ Drop
           \/ UNCHANGED vars
  <2>1. /\ ghost' = ghost /\ app'.at = app.at /\ accepting' = accepting
        /\ worker' = worker /\ thread' = thread /\ trades' = trades
    BY <1>0, <1>3 DEF SubmitDepth, Drop, vars, lanes, Apps
  <2>2. Serving' = Serving
    BY <2>1 DEF Serving, Alive
  <2> QED
    BY <2>1, <2>2 DEF ServeInv
<1>4. CASE StopRequest
  <2>1. /\ ghost'.idleStop = (ghost.idleStop \/ ~accepting)
        /\ ~accepting' /\ worker' = worker /\ thread' = thread
        /\ trades' = Append(trades, Sentinel)
    BY <1>0, <1>4 DEF StopRequest, Ghosts
  <2>2. Serving' = Serving
    BY <2>1 DEF Serving, Alive
  <2>3. ASSUME ~ghost'.idleStop
        PROVE  \A i \in 1..Len(trades') :
                 trades'[i] = Sentinel => i = Len(trades') /\ Serving'
    <3>1. accepting /\ ~ghost.idleStop
      BY <2>1, <2>3
    <3>2. Serving /\ \A i \in 1..Len(trades) : trades[i] # Sentinel
      BY <3>1 DEF ServeInv
    <3> QED
      BY <1>0, <2>1, <2>2, <3>2 DEF Sentinel
  <2> QED
    BY <2>1, <2>3 DEF ServeInv
<1>5. CASE StopReturn
  <2>1. /\ ghost' = ghost /\ app'.at = "idle" /\ app.at = "joining" /\ accepting' = accepting
        /\ worker' = worker /\ trades' = trades
        /\ thread' = thread \/ ~Alive(thread)
    BY <1>0, <1>5 DEF StopReturn, Apps, lanes
  <2>2. Serving => Serving'
    BY <2>1 DEF Serving, Alive
  <2> QED
    BY <2>1, <2>2 DEF ServeInv
<1>6. ASSUME NEW t \in Threads, Work(t) PROVE ServeInv'
  <2>1. /\ t = thread /\ thread' = thread /\ Alive(thread) /\ accepting' = accepting
    BY <1>6, WorkSteps DEF WorkerInv, OneWorker
  <2>2. ghost'.idleStop = ghost.idleStop /\ app' = app
    BY <1>0, <1>6 DEF Work, TakeDepth, TakeTrade, TakeSentinel, ThreadEnds, WriteEnds,
                      Finish, Observed, Ghosts
  <2>3. CASE TakeSentinel(t)
    <3>1. trades # <<>> /\ trades[1] = Sentinel /\ trades' = Tail(trades)
      BY <1>0, <2>3 DEF TakeSentinel, HeadIsSentinel
    <3>2. ASSUME ~ghost.idleStop PROVE ~accepting /\ Len(trades') = 0
      <4>1. 1 \in 1..Len(trades)
        BY <1>0, <3>1
      <4>2. 1 = Len(trades) /\ ~accepting
        BY <3>1, <3>2, <4>1 DEF ServeInv
      <4> QED
        BY <1>0, <3>1, <4>2
    <3> QED
      BY <2>1, <2>2, <3>2 DEF ServeInv
  <2>4. CASE ThreadEnds(t)
    <3>1. ~Serving /\ trades' = trades
      BY <2>1, <2>4 DEF ThreadEnds, Serving, lanes
    <3> QED
      BY <2>1, <2>2, <3>1 DEF ServeInv
  <2>5. CASE \/ TakeDepth(t) \/ TakeTrade(t) \/ Finish(t)
             \/ \E o \in {"written", "failed"} : WriteEnds(t, o)
    <3>1. worker[t].at # "leaving" /\ worker'[t].at \in {"taking", "writing", "counted"}
      BY <1>0, <2>5 DEF TakeDepth, TakeTrade, Finish, WriteEnds, At
    <3>2. Serving /\ Serving'
      BY <2>1, <3>1 DEF Serving, Alive
    <3>3. trades' = trades \/ (trades # <<>> /\ trades' = Tail(trades))
      BY <2>5 DEF TakeDepth, TakeTrade, Finish, WriteEnds, lanes
    <3>4. ASSUME ~ghost.idleStop
          PROVE  \A i \in 1..Len(trades') :
                   trades'[i] = Sentinel => i = Len(trades') /\ ~accepting
      <4>1. CASE trades' = trades
        BY <3>4, <4>1 DEF ServeInv
      <4>2. CASE trades # <<>> /\ trades' = Tail(trades)
        <5>1. TAKE i \in 1..Len(trades')
        <5>2. HAVE trades'[i] = Sentinel
        <5>3. /\ i + 1 \in 1..Len(trades) /\ trades[i + 1] = Sentinel
              /\ Len(trades') = Len(trades) - 1
          BY <1>0, <4>2, <5>2
        <5>4. i + 1 = Len(trades) /\ ~accepting
          BY <3>4, <5>3 DEF ServeInv
        <5> QED
          BY <1>0, <5>3, <5>4
      <4> QED
        BY <3>3, <4>1, <4>2
    <3> QED
      BY <2>1, <2>2, <3>2, <3>4 DEF ServeInv
  <2> QED
    BY <1>6, <2>3, <2>4, <2>5 DEF Work
<1> QED
  BY <1>1, <1>2, <1>3, <1>4, <1>5, <1>6, Steps DEF CallerStep

\* A writer that accepts jobs has a running worker to take them, whatever the
\* submissions, timeouts and restarts, unless stop() was called when it accepted
\* none (start(), stop() and the sentinel).
THEOREM AcceptingHasWorker == Spec => []AcceptingIsServed
<1>1. Init => TypeOK /\ WorkerInv /\ ServeInv
  <2> SUFFICES ASSUME Init PROVE TypeOK /\ WorkerInv /\ ServeInv
    OBVIOUS
  <2>1. \A t \in Threads : worker[t].at = "unborn" /\ budget[t] = TradeBudget
    BY DEF Init
  <2>2. trades = <<>> /\ accepting = FALSE
    BY DEF Init
  <2>3. ServeInv
    BY <2>2 DEF ServeInv
  <2> QED
    BY <2>1, <2>3, InitTypeOK DEF WorkerInv, OneWorker, Fresh, Alive
<1>2. TypeOK /\ WorkerInv /\ ServeInv /\ [Next]_vars => (TypeOK /\ WorkerInv /\ ServeInv)'
  BY NextTypeOK, WorkerStep, ServeStep
<1>3. ServeInv => AcceptingIsServed
  BY DEF ServeInv, AcceptingIsServed, Serving
<1> QED
  BY <1>1, <1>2, <1>3, PTL DEF Spec

----------------------------------------------------------------------------
(* The order of the writes. *)

TradeOrder ==
  /\ ghost.trade <= jobs
  /\ \A i \in 1..Len(trades) :
       /\ trades[i] <= jobs
       /\ trades[i] # Sentinel => ghost.trade < trades[i]
  /\ \A i, j \in 1..Len(trades) :
       i < j /\ trades[i] # Sentinel /\ trades[j] # Sentinel => trades[i] < trades[j]

DepthOrder ==
  /\ \A k \in Keys : ghost.depth[k] <= jobs
  /\ \A i \in 1..Len(depth) : depth[i].n <= jobs /\ ghost.depth[depth[i].key] < depth[i].n
  /\ \A i, j \in 1..Len(depth) : i # j => depth[i].key # depth[j].key

\* The job in a worker's hand is younger than what was written of its lane and
\* older than what waits.
InHand(j) ==
  /\ j.n <= jobs
  /\ j.lane = "trade" =>
       /\ ghost.trade < j.n
       /\ \A i \in 1..Len(trades) : trades[i] # Sentinel => j.n < trades[i]
  /\ j.lane = "depth" =>
       /\ j.key \in Keys
       /\ ghost.depth[j.key] < j.n
       /\ \A i \in 1..Len(depth) : depth[i].key = j.key => j.n < depth[i].n

OrderInv ==
  /\ ghost.ordered
  /\ TradeOrder
  /\ DepthOrder
  /\ Alive(thread) /\ worker[thread].at = "writing" => InHand(worker[thread].job)

\* What the order of the lanes is read from.
Lines == <<trades, depth, jobs, ghost.trade, ghost.depth, ghost.ordered>>

LEMMA LinesKept ==
  ASSUME OrderInv, Lines' = Lines,
         Alive(thread)' /\ worker'[thread'].at = "writing" =>
           /\ Alive(thread) /\ worker[thread].at = "writing"
           /\ worker'[thread'].job = worker[thread].job
  PROVE  OrderInv'
<1>1. /\ trades' = trades /\ depth' = depth /\ jobs' = jobs /\ ghost'.trade = ghost.trade
      /\ ghost'.depth = ghost.depth /\ ghost'.ordered = ghost.ordered
  BY DEF Lines
<1>2. TradeOrder' /\ DepthOrder' /\ ghost'.ordered
  BY <1>1 DEF OrderInv, TradeOrder, DepthOrder
<1>3. ASSUME (Alive(thread) /\ worker[thread].at = "writing")'
      PROVE  InHand(worker[thread].job)'
  <2>1. InHand(worker[thread].job) /\ worker'[thread'].job = worker[thread].job
    BY <1>3 DEF OrderInv
  <2> QED
    BY <1>1, <2>1 DEF InHand
<1> QED
  BY <1>2, <1>3 DEF OrderInv

LEMMA SubmitTradeOrder ==
  ASSUME TypeOK, OrderInv, SubmitTrade
  PROVE  OrderInv'
<1>1. /\ ghost \in Ghosts /\ trades \in Seq(Nat) /\ depth \in Seq(Book) /\ jobs \in Nat
  BY WriterAssumption DEF TypeOK, WriterAssumption
<1>2. /\ ghost' = ghost /\ depth' = depth /\ jobs' = jobs + 1 /\ worker' = worker
      /\ thread' = thread /\ trades' = Append(trades, jobs + 1)
  BY DEF SubmitTrade
<1>3. /\ Len(trades') = Len(trades) + 1 /\ trades'[Len(trades) + 1] = jobs + 1
      /\ \A i \in 1..Len(trades) : trades'[i] = trades[i] /\ trades[i] \in Nat
  BY <1>1, <1>2
<1>4. TradeOrder'
  <2>1. ghost.trade \in Nat /\ Len(trades) \in Nat
    BY <1>1 DEF Ghosts
  <2>2. TradeOrder
    BY DEF OrderInv
  <2>a. ghost.trade <= jobs
    BY <2>2 DEF TradeOrder
  <2>b. \A i \in 1..Len(trades) :
          trades[i] <= jobs /\ (trades[i] # Sentinel => ghost.trade < trades[i])
    BY <2>2 DEF TradeOrder
  <2>c. \A i, j \in 1..Len(trades) :
          i < j /\ trades[i] # Sentinel /\ trades[j] # Sentinel => trades[i] < trades[j]
    BY <2>2 DEF TradeOrder
  <2>d. \A i \in 1..(Len(trades) + 1) : i \in 1..Len(trades) \/ i = Len(trades) + 1
    BY <2>1
  <2>3. /\ ghost.trade <= jobs + 1
        /\ \A i \in 1..(Len(trades) + 1) :
             /\ trades'[i] <= jobs + 1
             /\ trades'[i] # Sentinel => ghost.trade < trades'[i]
    <3>1. ghost.trade <= jobs + 1 /\ ghost.trade < jobs + 1
      BY <1>1, <2>1, <2>a
    <3>2. \A i \in 1..Len(trades) : trades'[i] <= jobs + 1
      BY <1>1, <1>3, <2>b
    <3>3. ASSUME NEW i \in 1..(Len(trades) + 1)
          PROVE  trades'[i] <= jobs + 1 /\ (trades'[i] # Sentinel => ghost.trade < trades'[i])
      <4>1. CASE i \in 1..Len(trades)
        BY <1>3, <2>b, <3>2, <4>1
      <4>2. CASE i = Len(trades) + 1
        BY <1>1, <1>3, <3>1, <4>2
      <4> QED
        BY <2>d, <4>1, <4>2
    <3> QED
      BY <3>1, <3>3
  <2>4. ASSUME NEW i \in 1..(Len(trades) + 1), NEW j \in 1..(Len(trades) + 1), i < j,
               trades'[i] # Sentinel, trades'[j] # Sentinel
        PROVE  trades'[i] < trades'[j]
    <3>1. i \in 1..Len(trades)
      BY <2>1, <2>4
    <3>2. CASE j \in 1..Len(trades)
      BY <1>3, <2>4, <2>c, <3>1, <3>2
    <3>3. CASE j = Len(trades) + 1
      <4>1. trades[i] <= jobs /\ trades'[i] = trades[i] /\ trades[i] \in Nat
        BY <1>3, <2>b, <3>1
      <4> QED
        BY <1>1, <1>3, <3>3, <4>1
    <3> QED
      BY <2>d, <3>2, <3>3
  <2> QED
    BY <1>2, <1>3, <2>3, <2>4 DEF TradeOrder
<1>5. DepthOrder'
  <2>1. \A i \in 1..Len(depth) : depth[i].n \in Nat
    <3>1. \A i \in 1..Len(depth) : depth[i] \in Book
      BY <1>1
    <3> QED
      BY <3>1 DEF Book
  <2>2. \A k \in Keys : ghost.depth[k] \in Nat
    BY <1>1 DEF Ghosts
  <2> QED
    BY <1>1, <1>2, <2>1, <2>2 DEF OrderInv, DepthOrder
<1>6. ASSUME Alive(thread), worker[thread].at = "writing"
      PROVE  InHand(worker[thread].job)'
  <2>1. InHand(worker[thread].job) /\ worker[thread].job.n \in Nat
    BY <1>6 DEF OrderInv, TypeOK, Job, Alive
  <2> QED
    BY <1>1, <1>2, <1>3, <2>1 DEF InHand
<1> QED
  BY <1>2, <1>4, <1>5, <1>6 DEF OrderInv, Alive

LEMMA SubmitDepthOrder ==
  ASSUME NEW k \in Keys, TypeOK, OrderInv, SubmitDepth(k)
  PROVE  OrderInv'
<1> DEFINE new == [key |-> k, n |-> jobs + 1]
<1>1. /\ ghost \in Ghosts /\ trades \in Seq(Nat) /\ depth \in Seq(Book) /\ jobs \in Nat
  BY WriterAssumption DEF TypeOK, WriterAssumption
<1>2. /\ ghost' = ghost /\ trades' = trades /\ jobs' = jobs + 1 /\ worker' = worker
      /\ thread' = thread
  BY DEF SubmitDepth
<1>3. /\ \A i \in 1..Len(depth) : depth[i].n \in Nat /\ depth[i].key \in Keys
      /\ \A q \in Keys : ghost.depth[q] \in Nat
  <2>1. \A i \in 1..Len(depth) : depth[i] \in Book
    BY <1>1
  <2>2. \A q \in Keys : ghost.depth[q] \in Nat
    BY <1>1 DEF Ghosts
  <2> QED
    BY <2>1, <2>2 DEF Book
<1>4. TradeOrder'
  <2>1. \A i \in 1..Len(trades) : trades[i] \in Nat
    BY <1>1
  <2>2. ghost.trade \in Nat
    BY <1>1 DEF Ghosts
  <2> QED
    BY <1>1, <1>2, <2>1, <2>2 DEF OrderInv, TradeOrder
\* The new book, where an older one of its key stood or at the end of the lane.
<1>5. /\ \A i \in 1..Len(depth') :
           depth'[i] = new \/ (i \in 1..Len(depth) /\ depth'[i] = depth[i] /\ depth[i].key # k)
      /\ \A i, j \in 1..Len(depth') : i # j => depth'[i].key # depth'[j].key
  <2>1. CASE \E i \in DOMAIN depth : depth[i].key = k
    <3>1. depth' = [i \in 1..Len(depth) |-> IF depth[i].key = k THEN new ELSE depth[i]]
      BY <1>1, <2>1 DEF SubmitDepth
    <3>2. Len(depth') = Len(depth)
      BY <1>1, <3>1
    <3>3. \A i \in 1..Len(depth) : depth'[i] = IF depth[i].key = k THEN new ELSE depth[i]
      BY <3>1
    <3>4. \A i \in 1..Len(depth) : depth'[i].key = depth[i].key
      BY <3>3
    <3>5. \A i, j \in 1..Len(depth) : i # j => depth[i].key # depth[j].key
      BY DEF OrderInv, DepthOrder
    <3>6. \A i \in 1..Len(depth) :
            depth'[i] = new \/ (depth'[i] = depth[i] /\ depth[i].key # k)
      BY <3>3
    <3>7. \A i, j \in 1..Len(depth) : i # j => depth'[i].key # depth'[j].key
      BY <3>4, <3>5
    <3> QED
      BY <3>2, <3>6, <3>7
  <2>2. CASE ~\E i \in DOMAIN depth : depth[i].key = k
    <3>1. depth' = Append(depth, new)
      BY <2>2 DEF SubmitDepth
    <3>2. /\ Len(depth') = Len(depth) + 1 /\ depth'[Len(depth) + 1] = new
          /\ \A i \in 1..Len(depth) : depth'[i] = depth[i] /\ depth[i].key # k
      BY <1>1, <2>2, <3>1
    <3>3. \A i, j \in 1..Len(depth) : i # j => depth[i].key # depth[j].key
      BY DEF OrderInv, DepthOrder
    <3>4. Len(depth) \in Nat /\ new.key = k
      BY <1>1
    <3> HIDE DEF new
    <3>5. \A i \in 1..Len(depth') : i \in 1..Len(depth) \/ i = Len(depth) + 1
      BY <3>2, <3>4
    <3>6. \A i \in 1..Len(depth') :
            depth'[i] = new \/ (i \in 1..Len(depth) /\ depth'[i] = depth[i] /\ depth[i].key # k)
      BY <3>2, <3>5
    <3>7. \A i, j \in 1..Len(depth') : i # j => depth'[i].key # depth'[j].key
      <4> TAKE i, j \in 1..Len(depth')
      <4>1. CASE i \in 1..Len(depth) /\ j \in 1..Len(depth)
        BY <3>2, <3>3, <4>1
      <4>2. CASE i = Len(depth) + 1 /\ j \in 1..Len(depth)
        BY <3>2, <3>4, <4>2
      <4>3. CASE j = Len(depth) + 1 /\ i \in 1..Len(depth)
        BY <3>2, <3>4, <4>3
      <4> QED
        BY <3>5, <4>1, <4>2, <4>3
    <3> QED
      BY <3>6, <3>7
  <2> QED
    BY <2>1, <2>2
<1>6. DepthOrder'
  <2>1. \A i \in 1..Len(depth') : depth'[i].n <= jobs + 1
                                 /\ ghost.depth[depth'[i].key] < depth'[i].n
    <3>1. TAKE i \in 1..Len(depth')
    <3>2. CASE depth'[i] = new
      BY <1>1, <1>3, <3>2 DEF OrderInv, DepthOrder
    <3>3. CASE i \in 1..Len(depth) /\ depth'[i] = depth[i]
      BY <1>1, <1>3, <3>3 DEF OrderInv, DepthOrder
    <3> QED
      BY <1>5, <3>2, <3>3
  <2> QED
    BY <1>1, <1>2, <1>3, <1>5, <2>1 DEF OrderInv, DepthOrder
<1>7. ASSUME Alive(thread), worker[thread].at = "writing"
      PROVE  InHand(worker[thread].job)'
  <2> DEFINE j == worker[thread].job
  <2>1. InHand(j) /\ j.n \in Nat
    BY <1>7 DEF OrderInv, TypeOK, Job, Alive
  <2> HIDE DEF j
  <2>2. j.n <= jobs + 1
    BY <1>1, <2>1 DEF InHand
  <2>3. j.lane = "depth" => \A i \in 1..Len(depth') : depth'[i].key = j.key => j.n < depth'[i].n
    <3>1. HAVE j.lane = "depth"
    <3>2. TAKE i \in 1..Len(depth')
    <3>3. CASE depth'[i] = new
      BY <1>1, <2>1, <3>3 DEF InHand
    <3>4. CASE i \in 1..Len(depth) /\ depth'[i] = depth[i]
      BY <2>1, <3>1, <3>4 DEF InHand
    <3> QED
      BY <1>5, <3>3, <3>4
  <2>4. InHand(j)'
    <3>1. j' = j
      BY <1>2 DEF j
    <3> QED
      BY <1>2, <2>1, <2>2, <2>3, <3>1 DEF InHand
  <2> QED
    BY <2>4 DEF j
<1> QED
  BY <1>2, <1>4, <1>6, <1>7 DEF OrderInv, Alive

\* A submission that is refused only takes a number.
LEMMA DropOrder == ASSUME TypeOK, OrderInv, Drop PROVE OrderInv'
<1>1. /\ ghost \in Ghosts /\ trades \in Seq(Nat) /\ depth \in Seq(Book) /\ jobs \in Nat
  BY WriterAssumption DEF TypeOK, WriterAssumption
<1>2. /\ ghost' = ghost /\ depth' = depth /\ trades' = trades /\ jobs' = jobs + 1
      /\ worker' = worker /\ thread' = thread
  BY DEF Drop, lanes
<1>3. /\ \A i \in 1..Len(trades) : trades[i] \in Nat
      /\ ghost.trade \in Nat /\ \A k \in Keys : ghost.depth[k] \in Nat
  BY <1>1 DEF Ghosts
<1>4. \A i \in 1..Len(depth) : depth[i].n \in Nat
  <2>1. \A i \in 1..Len(depth) : depth[i] \in Book
    BY <1>1
  <2> QED
    BY <2>1 DEF Book
<1>5. TradeOrder'
  BY <1>1, <1>2, <1>3 DEF OrderInv, TradeOrder
<1>6. DepthOrder'
  BY <1>1, <1>2, <1>3, <1>4 DEF OrderInv, DepthOrder
<1>7. ASSUME Alive(thread), worker[thread].at = "writing"
      PROVE  InHand(worker[thread].job)'
  <2>1. InHand(worker[thread].job) /\ worker[thread].job.n \in Nat
    BY <1>7 DEF OrderInv, TypeOK, Job, Alive
  <2> QED
    BY <1>1, <1>2, <2>1 DEF InHand
<1> QED
  BY <1>2, <1>5, <1>6, <1>7 DEF OrderInv, Alive

LEMMA TakeDepthOrder ==
  ASSUME NEW t \in Threads, TypeOK, WorkerInv, OrderInv, TakeDepth(t)
  PROVE  OrderInv'
<1> DEFINE j == [lane |-> "depth", key |-> Head(depth).key, n |-> Head(depth).n]
<1>1. /\ ghost \in Ghosts /\ depth \in Seq(Book) /\ depth # <<>>
      /\ worker \in [Threads -> [at : Stages, job : Job \cup {NoJob}]]
  BY DEF TypeOK, TakeDepth, DepthTurn
<1>2. /\ trades' = trades /\ jobs' = jobs /\ depth' = Tail(depth) /\ thread' = thread
      /\ worker' = [worker EXCEPT ![t] = [at |-> "writing", job |-> j]]
  BY DEF TakeDepth, bounds
<1>3. /\ ghost'.trade = ghost.trade /\ ghost'.depth = ghost.depth
      /\ ghost'.ordered = ghost.ordered
  BY <1>1 DEF TakeDepth, Ghosts
<1>4. t = thread
  BY <1>1 DEF WorkerInv, OneWorker, TakeDepth, Alive
<1>5. worker'[thread'].job = j
  BY <1>1, <1>2, <1>4
<1>6. /\ Len(depth) \in Nat \ {0} /\ Len(depth') = Len(depth) - 1
      /\ \A i \in 1..Len(depth') : depth'[i] = depth[i + 1] /\ i + 1 \in 1..Len(depth)
      /\ Head(depth) = depth[1] /\ 1 \in 1..Len(depth) /\ depth[1] \in Book
  BY <1>1, <1>2
<1>7. TradeOrder'
  BY <1>2, <1>3 DEF OrderInv, TradeOrder
<1>8. DepthOrder'
  <2>1. DepthOrder
    BY DEF OrderInv
  <2>2. \A i \in 1..Len(depth') :
          depth'[i].n <= jobs' /\ ghost'.depth[depth'[i].key] < depth'[i].n
    BY <1>2, <1>3, <1>6, <2>1 DEF DepthOrder
  <2>3. ASSUME NEW a \in 1..Len(depth'), NEW b \in 1..Len(depth'), a # b
        PROVE  depth'[a].key # depth'[b].key
    <3>1. a + 1 # b + 1
      BY <1>6, <2>3
    <3> QED
      BY <1>6, <2>1, <2>3, <3>1 DEF DepthOrder
  <2> QED
    BY <1>2, <1>3, <2>1, <2>2, <2>3 DEF DepthOrder
<1>9. InHand(worker[thread].job)'
  <2>1. /\ j.lane = "depth" /\ j.key = depth[1].key /\ j.n = depth[1].n /\ j.key \in Keys
    BY <1>6 DEF Book
  <2>2. j.n <= jobs' /\ ghost'.depth[j.key] < j.n
    BY <1>2, <1>3, <1>6, <2>1 DEF OrderInv, DepthOrder
  <2>3. ASSUME NEW a \in 1..Len(depth') PROVE depth'[a].key # j.key
    <3>1. a + 1 # 1 /\ a + 1 \in 1..Len(depth) /\ depth'[a] = depth[a + 1]
      BY <1>6, <2>3
    <3> QED
      BY <1>6, <2>1, <3>1 DEF OrderInv, DepthOrder
  <2> HIDE DEF j
  <2> QED
    BY <1>5, <2>1, <2>2, <2>3 DEF InHand
<1> QED
  BY <1>3, <1>7, <1>8, <1>9 DEF OrderInv

LEMMA TakeTradeOrder ==
  ASSUME NEW t \in Threads, TypeOK, WorkerInv, OrderInv, TakeTrade(t)
  PROVE  OrderInv'
<1> DEFINE j == [lane |-> "trade", key |-> "none", n |-> Head(trades)]
<1>1. /\ ghost \in Ghosts /\ trades \in Seq(Nat) /\ trades # <<>>
      /\ worker \in [Threads -> [at : Stages, job : Job \cup {NoJob}]]
  BY DEF TypeOK, TakeTrade
<1>2. /\ depth' = depth /\ jobs' = jobs /\ trades' = Tail(trades) /\ thread' = thread
      /\ worker' = [worker EXCEPT ![t] = [at |-> "writing", job |-> j]]
  BY DEF TakeTrade, bounds
<1>3. /\ ghost'.trade = ghost.trade /\ ghost'.depth = ghost.depth
      /\ ghost'.ordered = ghost.ordered
  BY <1>1 DEF TakeTrade, Ghosts
<1>4. t = thread
  BY <1>1 DEF WorkerInv, OneWorker, TakeTrade, Alive
<1>5. worker'[thread'].job = j
  BY <1>1, <1>2, <1>4
<1>6. /\ Len(trades) \in Nat \ {0} /\ Len(trades') = Len(trades) - 1
      /\ \A i \in 1..Len(trades') : trades'[i] = trades[i + 1] /\ i + 1 \in 1..Len(trades)
      /\ Head(trades) = trades[1] /\ 1 \in 1..Len(trades) /\ trades[1] # Sentinel
  BY <1>1, <1>2 DEF TakeTrade, HeadIsSentinel
<1>7. DepthOrder'
  BY <1>2, <1>3 DEF OrderInv, DepthOrder
<1>8. TradeOrder'
  <2>1. TradeOrder
    BY DEF OrderInv
  <2>2. \A i \in 1..Len(trades') :
          trades'[i] <= jobs' /\ (trades'[i] # Sentinel => ghost'.trade < trades'[i])
    BY <1>2, <1>3, <1>6, <2>1 DEF TradeOrder
  <2>3. ASSUME NEW a \in 1..Len(trades'), NEW b \in 1..Len(trades'), a < b,
               trades'[a] # Sentinel, trades'[b] # Sentinel
        PROVE  trades'[a] < trades'[b]
    <3>1. a + 1 < b + 1
      BY <1>6, <2>3
    <3> QED
      BY <1>6, <2>1, <2>3, <3>1 DEF TradeOrder
  <2> QED
    BY <1>2, <1>3, <2>1, <2>2, <2>3 DEF TradeOrder
<1>9. InHand(worker[thread].job)'
  <2>1. j.lane = "trade" /\ j.n = trades[1]
    BY <1>6
  <2>2. j.n <= jobs' /\ ghost'.trade < j.n
    BY <1>2, <1>3, <1>6, <2>1 DEF OrderInv, TradeOrder
  <2>3. ASSUME NEW a \in 1..Len(trades'), trades'[a] # Sentinel PROVE j.n < trades'[a]
    <3>1. 1 < a + 1 /\ a + 1 \in 1..Len(trades) /\ trades'[a] = trades[a + 1]
      BY <1>6, <2>3
    <3> QED
      BY <1>6, <2>1, <2>3, <3>1 DEF OrderInv, TradeOrder
  <2> HIDE DEF j
  <2> QED
    BY <1>5, <2>1, <2>2, <2>3 DEF InHand
<1> QED
  BY <1>3, <1>7, <1>8, <1>9 DEF OrderInv

\* The write that ends becomes the youngest one of its lane.
LEMMA WriteEndsOrder ==
  ASSUME NEW t \in Threads, NEW o \in {"written", "failed"},
         TypeOK, WorkerInv, OrderInv, WriteEnds(t, o)
  PROVE  OrderInv'
<1> DEFINE j == worker[t].job
<1>1. /\ ghost \in Ghosts /\ j \in Job
      /\ worker \in [Threads -> [at : Stages, job : Job \cup {NoJob}]]
  BY DEF TypeOK, WriteEnds
<1>2. /\ trades' = trades /\ depth' = depth /\ jobs' = jobs /\ thread' = thread
      /\ worker' = At(t, "counted") /\ ghost' = Observed(j)
  BY DEF WriteEnds, lanes, bounds
<1>3. t = thread /\ Alive(thread) /\ worker[t].at = "writing"
  BY <1>1 DEF WorkerInv, OneWorker, WriteEnds, Alive
<1>4. InHand(j)
  BY <1>3 DEF OrderInv
<1>5. worker'[thread'].at # "writing"
  BY <1>1, <1>2, <1>3 DEF At
<1> HIDE DEF j
<1>6. CASE j.lane = "trade"
  <2>1. /\ ghost'.trade = j.n /\ ghost'.depth = ghost.depth
        /\ ghost'.ordered = (ghost.ordered /\ j.n > ghost.trade)
    BY <1>1, <1>2, <1>6 DEF Observed, Ghosts
  <2>2. ghost.trade \in Nat /\ j.n \in Nat
    BY <1>1 DEF Ghosts, Job
  <2>3. /\ j.n <= jobs /\ ghost.trade < j.n
        /\ \A i \in 1..Len(trades) : trades[i] # Sentinel => j.n < trades[i]
    BY <1>4, <1>6 DEF InHand
  <2>4. TradeOrder'
    BY <1>2, <2>1, <2>3 DEF OrderInv, TradeOrder
  <2>5. DepthOrder'
    BY <1>2, <2>1 DEF OrderInv, DepthOrder
  <2>6. ghost'.ordered
    BY <2>1, <2>2, <2>3 DEF OrderInv
  <2> QED
    BY <1>5, <2>4, <2>5, <2>6 DEF OrderInv
<1>7. CASE j.lane = "depth"
  <2>1. /\ ghost'.trade = ghost.trade
        /\ ghost'.depth = [ghost.depth EXCEPT ![j.key] = j.n]
        /\ ghost'.ordered = (ghost.ordered /\ j.n > ghost.depth[j.key])
    BY <1>1, <1>2, <1>7 DEF Observed, Ghosts
  <2>2. ghost.depth \in [Keys -> Nat] /\ j.n \in Nat
    BY <1>1 DEF Ghosts, Job
  <2>3. /\ j.n <= jobs /\ j.key \in Keys /\ ghost.depth[j.key] < j.n
        /\ \A i \in 1..Len(depth) : depth[i].key = j.key => j.n < depth[i].n
    BY <1>4, <1>7 DEF InHand
  <2>4. TradeOrder'
    BY <1>2, <2>1 DEF OrderInv, TradeOrder
  <2>5. DepthOrder'
    <3>1. DepthOrder
      BY DEF OrderInv
    <3>2. \A k \in Keys : ghost'.depth[k] <= jobs
      BY <2>1, <2>2, <2>3, <3>1 DEF DepthOrder
    <3>3. ASSUME NEW i \in 1..Len(depth)
          PROVE  depth[i].n <= jobs /\ ghost'.depth[depth[i].key] < depth[i].n
      <4>1. /\ depth[i].key \in Keys
        <5>1. depth[i] \in Book
          BY DEF TypeOK
        <5> QED
          BY <5>1 DEF Book
      <4>2. CASE depth[i].key = j.key
        BY <2>1, <2>2, <2>3, <3>1, <4>2 DEF DepthOrder
      <4>3. CASE depth[i].key # j.key
        BY <2>1, <2>2, <2>3, <3>1, <4>1, <4>3 DEF DepthOrder
      <4> QED
        BY <4>2, <4>3
    <3> QED
      BY <1>2, <3>1, <3>2, <3>3 DEF DepthOrder
  <2>6. ghost'.ordered
    BY <2>1, <2>2, <2>3 DEF OrderInv
  <2> QED
    BY <1>5, <2>4, <2>5, <2>6 DEF OrderInv
<1> QED
  BY <1>1, <1>6, <1>7 DEF Job

\* The sentinel comes and goes without an order of its own.
LEMMA SentinelOrder ==
  ASSUME TypeOK, WorkerInv, OrderInv,
         StopRequest \/ \E t \in Threads : TakeSentinel(t)
  PROVE  OrderInv'
<1>1. /\ ghost \in Ghosts /\ trades \in Seq(Nat) /\ jobs \in Nat
      /\ worker \in [Threads -> [at : Stages, job : Job \cup {NoJob}]]
  BY WriterAssumption DEF TypeOK, WriterAssumption
<1>2. /\ depth' = depth /\ jobs' = jobs /\ ghost'.trade = ghost.trade
      /\ ghost'.depth = ghost.depth /\ ghost'.ordered = ghost.ordered /\ thread' = thread
  BY <1>1 DEF StopRequest, TakeSentinel, bounds, Ghosts
\* Each place of the new lane is a place of the old one, in the same order, or
\* the sentinel's.
<1>3. PICK s \in {0, 1} :
        /\ \A i \in 1..Len(trades') :
             trades'[i] # Sentinel => i + s \in 1..Len(trades) /\ trades'[i] = trades[i + s]
        /\ \A i \in 1..Len(trades') : trades'[i] \in Nat
  <2>1. CASE StopRequest
    <3>1. trades' = Append(trades, Sentinel)
      BY <2>1 DEF StopRequest
    <3>2. \A i \in 1..Len(trades') :
            /\ trades'[i] # Sentinel => i + 0 \in 1..Len(trades) /\ trades'[i] = trades[i + 0]
            /\ trades'[i] \in Nat
      BY <1>1, <3>1 DEF Sentinel
    <3> QED
      BY <3>2
  <2>2. CASE \E t \in Threads : TakeSentinel(t)
    <3>1. trades' = Tail(trades) /\ trades # <<>>
      BY <2>2 DEF TakeSentinel, HeadIsSentinel
    <3>2. \A i \in 1..Len(trades') :
            /\ i + 1 \in 1..Len(trades) /\ trades'[i] = trades[i + 1]
            /\ trades'[i] \in Nat
      BY <1>1, <3>1
    <3> QED
      BY <3>2
  <2> QED
    BY <2>1, <2>2
<1>4. TradeOrder'
  <2>1. TradeOrder
    BY DEF OrderInv
  <2>2. ASSUME NEW i \in 1..Len(trades')
        PROVE  trades'[i] <= jobs /\ (trades'[i] # Sentinel => ghost.trade < trades'[i])
    <3>1. CASE trades'[i] = Sentinel
      BY <1>1, <3>1 DEF Sentinel
    <3>2. CASE trades'[i] # Sentinel
      <4>1. i + s \in 1..Len(trades) /\ trades'[i] = trades[i + s]
        BY <1>3, <3>2
      <4> QED
        BY <2>1, <3>2, <4>1 DEF TradeOrder
    <3> QED
      BY <3>1, <3>2
  <2>3. ASSUME NEW i \in 1..Len(trades'), NEW j \in 1..Len(trades'), i < j,
               trades'[i] # Sentinel, trades'[j] # Sentinel
        PROVE  trades'[i] < trades'[j]
    <3>1. i + s < j + s /\ i + s \in 1..Len(trades) /\ j + s \in 1..Len(trades)
          /\ trades'[i] = trades[i + s] /\ trades'[j] = trades[j + s]
      BY <1>3, <2>3
    <3> QED
      BY <2>1, <2>3, <3>1 DEF TradeOrder
  <2> QED
    BY <1>2, <2>1, <2>2, <2>3 DEF TradeOrder
<1>5. DepthOrder'
  BY <1>2 DEF OrderInv, DepthOrder
<1>6. ASSUME (Alive(thread) /\ worker[thread].at = "writing")'
      PROVE  InHand(worker[thread].job)'
  <2>1. Alive(thread) /\ worker[thread].at = "writing" /\ worker'[thread'].job = worker[thread].job
    <3>1. CASE StopRequest
      BY <1>2, <1>6, <3>1 DEF StopRequest, Alive
    <3>2. CASE \E t \in Threads : TakeSentinel(t)
      BY <1>1, <1>2, <1>6, <3>2 DEF TakeSentinel, Alive, At
    <3> QED
      BY <3>1, <3>2
  <2>2. InHand(worker[thread].job)
    BY <2>1 DEF OrderInv
  <2> QED
    BY <1>2, <1>3, <2>1, <2>2 DEF InHand
<1> QED
  BY <1>2, <1>4, <1>5, <1>6 DEF OrderInv

LEMMA QuietOrder ==
  ASSUME TypeOK, WorkerInv, OrderInv,
         \/ Start \/ StopReturn \/ UNCHANGED vars
         \/ \E t \in Threads : ThreadEnds(t) \/ Finish(t)
  PROVE  OrderInv'
<1>1. /\ ghost \in Ghosts
      /\ worker \in [Threads -> [at : Stages, job : Job \cup {NoJob}]]
  BY DEF TypeOK
<1>2. Lines' = Lines
  BY <1>1 DEF Start, StopReturn, vars, ThreadEnds, Finish, lanes, bounds, Lines, Ghosts
<1>3. ASSUME (Alive(thread) /\ worker[thread].at = "writing")'
      PROVE  /\ Alive(thread) /\ worker[thread].at = "writing"
             /\ worker'[thread'].job = worker[thread].job
  <2>1. CASE Start
    BY <1>3, <2>1, StartSteps
  <2>2. CASE StopReturn
    BY <1>3, <2>2 DEF StopReturn, Alive, Threads, NoThread
  <2>3. CASE UNCHANGED vars
    BY <1>3, <2>3 DEF vars, Alive
  <2>4. ASSUME NEW t \in Threads, ThreadEnds(t) \/ Finish(t)
        PROVE  /\ Alive(thread) /\ worker[thread].at = "writing"
               /\ worker'[thread'].job = worker[thread].job
    BY <1>1, <1>3, <2>4 DEF ThreadEnds, Finish, Alive, At
  <2> QED
    BY <2>1, <2>2, <2>3, <2>4
<1> QED
  BY <1>2, <1>3, LinesKept

LEMMA OrderStep == ASSUME TypeOK, WorkerInv, OrderInv, [Next]_vars PROVE OrderInv'
  BY SubmitTradeOrder, SubmitDepthOrder, DropOrder, TakeDepthOrder, TakeTradeOrder, WriteEndsOrder,
     SentinelOrder, QuietOrder DEF Next

\* Trades are written in the order of their submission and no stale book after a
\* fresher one, however often the writer is stopped with a thread still running
\* and started again (start() and stop() keep one thread at a time).
THEOREM WritesKeepOrder == Spec => []WritesInOrder
<1>1. Init => TypeOK /\ WorkerInv /\ OrderInv
  <2> SUFFICES ASSUME Init PROVE TypeOK /\ WorkerInv /\ OrderInv
    OBVIOUS
  <2>1. \A t \in Threads : worker[t].at = "unborn" /\ budget[t] = TradeBudget
    BY DEF Init
  <2>2. /\ trades = <<>> /\ depth = <<>> /\ jobs = 0
        /\ ghost.trade = 0 /\ ghost.ordered /\ \A k \in Keys : ghost.depth[k] = 0
    BY DEF Init
  <2>3. TradeOrder /\ DepthOrder
    BY <2>2 DEF TradeOrder, DepthOrder
  <2>4. WorkerInv /\ ~Alive(thread)
    BY <2>1 DEF WorkerInv, OneWorker, Fresh, Alive
  <2> QED
    BY <2>2, <2>3, <2>4, InitTypeOK DEF OrderInv
<1>2. TypeOK /\ WorkerInv /\ OrderInv /\ [Next]_vars => (TypeOK /\ WorkerInv /\ OrderInv)'
  BY NextTypeOK, WorkerStep, OrderStep
<1>3. OrderInv => WritesInOrder
  BY DEF OrderInv, WritesInOrder
<1> QED
  BY <1>1, <1>2, <1>3, PTL DEF Spec

----------------------------------------------------------------------------
(* Every accepted job is counted. *)

PillsOf(s) == {i \in DOMAIN s : s[i] = Sentinel}

\* The sentinels of a lane can be counted; a longer lane has the old ones and perhaps
\* one more at its end.
LEMMA PillsAppended ==
  ASSUME NEW s \in Seq(Nat), NEW x \in Nat
  PROVE  /\ IsFiniteSet(PillsOf(s)) /\ Cardinality(PillsOf(s)) \in Nat
         /\ Cardinality(PillsOf(Append(s, x)))
              = Cardinality(PillsOf(s)) + (IF x = Sentinel THEN 1 ELSE 0)
<1>1. IsFiniteSet(PillsOf(s))
  <2>1. IsFiniteSet(1..Len(s))
    BY FS_Interval
  <2>2. PillsOf(s) \in SUBSET (1..Len(s))
    BY DEF PillsOf
  <2> QED
    BY <2>1, <2>2, FS_Subset
<1>2. CASE x = Sentinel
  <2>1. PillsOf(Append(s, x)) = PillsOf(s) \cup {Len(s) + 1}
    BY <1>2 DEF PillsOf
  <2>2. Len(s) + 1 \notin PillsOf(s)
    BY DEF PillsOf
  <2> QED
    BY <1>1, <1>2, <2>1, <2>2, FS_AddElement, FS_CardinalityType
<1>3. CASE x # Sentinel
  <2>1. PillsOf(Append(s, x)) = PillsOf(s)
    BY <1>3 DEF PillsOf
  <2> QED
    BY <1>1, <1>3, <2>1, FS_CardinalityType
<1> QED
  BY <1>2, <1>3

\* A lane that loses its head loses that sentinel, if it is one: the others move up.
LEMMA PillsTaken ==
  ASSUME NEW s \in Seq(Nat), s # <<>>
  PROVE  Cardinality(PillsOf(Tail(s)))
           = Cardinality(PillsOf(s)) - (IF Head(s) = Sentinel THEN 1 ELSE 0)
<1> DEFINE A == PillsOf(s) \ {1}
           B == PillsOf(Tail(s))
           shift == [i \in A |-> i - 1]
<1>1. IsFiniteSet(PillsOf(s))
  BY PillsAppended, 0 \in Nat
<1>2. IsFiniteSet(A) /\ Cardinality(A) = Cardinality(PillsOf(s)) - (IF 1 \in PillsOf(s) THEN 1 ELSE 0)
  BY <1>1, FS_RemoveElement, FS_CardinalityType
<1>3. 1 \in PillsOf(s) <=> Head(s) = Sentinel
  BY DEF PillsOf
<1>4. /\ Len(Tail(s)) = Len(s) - 1 /\ Tail(s) \in Seq(Nat)
      /\ \A i \in 1..(Len(s) - 1) : Tail(s)[i] = s[i + 1]
  OBVIOUS
<1>5. A \subseteq 2..Len(s) /\ \A i \in 2..Len(s) : i \in A <=> i - 1 \in B
  BY <1>4 DEF PillsOf
<1>6. B \subseteq 1..(Len(s) - 1)
  BY <1>4 DEF PillsOf
<1>7. shift \in Bijection(A, B)
  <2>1. shift \in [A -> B]
    BY <1>5
  <2>2. \A i, j \in A : shift[i] = shift[j] => i = j
    BY <1>5
  <2>3. \A b \in B : \E i \in A : shift[i] = b
    <3> TAKE b \in B
    <3>1. b + 1 \in A /\ shift[b + 1] = b
      BY <1>5, <1>6
    <3> QED
      BY <3>1
  <2> HIDE DEF shift, A, B
  <2> QED
    BY <2>1, <2>2, <2>3 DEF Bijection, Injection, Surjection, IsInjective
<1>8. Cardinality(B) = Cardinality(A)
  BY <1>2, <1>7, FS_Bijection DEF ExistsBijection
<1> QED
  BY <1>2, <1>3, <1>8

\* The threads that are at one of the stages of S.
StagedIn(w, S) == {t \in Threads : w[t].at \in S}

LEMMA StagedFinite ==
  ASSUME NEW w, NEW S
  PROVE  IsFiniteSet(StagedIn(w, S)) /\ Cardinality(StagedIn(w, S)) \in Nat
<1>1. IsFiniteSet(Threads)
  BY WriterAssumption, FS_Interval DEF Threads, WriterAssumption
<1>2. StagedIn(w, S) \in SUBSET Threads
  BY DEF StagedIn
<1> QED
  BY <1>1, <1>2, FS_Subset, FS_CardinalityType

\* One thread that moves changes the count of a set of stages by what it leaves and
\* where it goes.
LEMMA Restaged ==
  ASSUME NEW w, NEW v, NEW S, NEW t \in Threads, \A u \in Threads \ {t} : v[u] = w[u]
  PROVE  Cardinality(StagedIn(v, S))
           = Cardinality(StagedIn(w, S)) + (IF v[t].at \in S THEN 1 ELSE 0)
               - (IF w[t].at \in S THEN 1 ELSE 0)
<1> DEFINE R == StagedIn(w, S) \ {t}
<1>1. /\ IsFiniteSet(R)
      /\ Cardinality(R) = Cardinality(StagedIn(w, S)) - (IF w[t].at \in S THEN 1 ELSE 0)
      /\ Cardinality(R) \in Nat
  <2>1. t \in StagedIn(w, S) <=> w[t].at \in S
    BY DEF StagedIn
  <2> QED
    BY <2>1, StagedFinite, FS_RemoveElement, FS_CardinalityType
<1>2. CASE v[t].at \in S
  <2>1. StagedIn(v, S) = R \cup {t}
    BY <1>2 DEF StagedIn
  <2>2. t \notin R
    OBVIOUS
  <2> HIDE DEF R
  <2>3. Cardinality(StagedIn(v, S)) = Cardinality(R) + 1
    BY <1>1, <2>1, <2>2, FS_AddElement
  <2> QED
    BY <1>1, <1>2, <2>3, StagedFinite
<1>3. CASE v[t].at \notin S
  <2>1. StagedIn(v, S) = R
    BY <1>3 DEF StagedIn
  <2> QED
    BY <1>1, <1>3, <2>1, StagedFinite
<1> QED
  BY <1>2, <1>3

\* What stop() has pushed and not yet been taken; while it joins the thread nothing
\* can come behind its sentinel.
StopInv ==
  /\ Cardinality(Pills) <= stops
  /\ app.at = "joining" => ~accepting /\ stops >= 1 /\ (trades = <<>> \/ EndsInSentinel)

AccountInv == SubmissionsCounted /\ JobsAccounted /\ ReportCoversJobs /\ StopInv

\* The terms of JobsAccounted as counts of lanes and threads, now and after a step.
LEMMA Terms ==
  ASSUME TypeOK, TypeOK'
  PROVE  /\ Pills = PillsOf(trades) /\ Pills' = PillsOf(trades')
         /\ Writing = StagedIn(worker, {"writing"})
         /\ Writing' = StagedIn(worker', {"writing"})
         /\ Held = StagedIn(worker, {"writing", "counted"})
         /\ Held' = StagedIn(worker', {"writing", "counted"})
         /\ Cardinality(Pills) \in Nat /\ Cardinality(Pills') \in Nat
         /\ Cardinality(Writing) \in Nat /\ Cardinality(Writing') \in Nat
         /\ Cardinality(Held) \in Nat /\ Cardinality(Held') \in Nat
         /\ Len(trades) \in Nat /\ Len(trades') \in Nat
         /\ Len(depth) \in Nat /\ Len(depth') \in Nat
         /\ count \in Counts /\ count' \in Counts
         /\ inFlight \in Int /\ inFlight' \in Int /\ stops \in Nat /\ jobs \in Nat
         /\ trades \in Seq(Nat) /\ depth \in Seq(Book) /\ jobs \in Nat
<1>1. /\ Pills = PillsOf(trades) /\ Pills' = PillsOf(trades')
      /\ Writing = StagedIn(worker, {"writing"})
      /\ Writing' = StagedIn(worker', {"writing"})
      /\ Held = StagedIn(worker, {"writing", "counted"})
      /\ Held' = StagedIn(worker', {"writing", "counted"})
  BY DEF Pills, PillsOf, Writing, Held, StagedIn
<1>2. /\ trades \in Seq(Nat) /\ trades' \in Seq(Nat)
      /\ depth \in Seq(Book) /\ depth' \in Seq(Book)
      /\ count \in Counts /\ count' \in Counts
      /\ inFlight \in Int /\ inFlight' \in Int
      /\ stops \in Nat /\ jobs \in Nat
  BY WriterAssumption DEF TypeOK, WriterAssumption
<1>3. Cardinality(PillsOf(trades)) \in Nat /\ Cardinality(PillsOf(trades')) \in Nat
  BY <1>2, PillsAppended, 0 \in Nat
<1>4. /\ Len(trades) \in Nat /\ Len(trades') \in Nat
      /\ Len(depth) \in Nat /\ Len(depth') \in Nat
  BY <1>2
<1> QED
  BY <1>1, <1>2, <1>3, <1>4, StagedFinite

LEMMA Numbers ==
  ASSUME TypeOK, TypeOK'
  PROVE  /\ Cardinality(Pills) \in Nat /\ Cardinality(Pills') \in Nat
         /\ Cardinality(Writing) \in Nat /\ Cardinality(Writing') \in Nat
         /\ Cardinality(Held) \in Nat /\ Cardinality(Held') \in Nat
         /\ Len(trades) \in Nat /\ Len(trades') \in Nat
         /\ Len(depth) \in Nat /\ Len(depth') \in Nat
         /\ count.enqueued \in Nat /\ count'.enqueued \in Nat
         /\ count.written \in Nat /\ count'.written \in Nat
         /\ count.failed \in Nat /\ count'.failed \in Nat
         /\ inFlight \in Int /\ inFlight' \in Int /\ stops \in Nat /\ jobs \in Nat
  BY Terms DEF Counts

\* A job or a sentinel pushed, and one taken, as the lane's count of sentinels sees it.
LEMMA PillsPushed ==
  ASSUME TypeOK, TypeOK', NEW x \in Nat, trades' = Append(trades, x)
  PROVE  /\ Cardinality(Pills') = Cardinality(Pills) + (IF x = Sentinel THEN 1 ELSE 0)
         /\ Len(trades') = Len(trades) + 1
<1>1. Pills' = PillsOf(Append(trades, x)) /\ Pills = PillsOf(trades)
  BY Terms, Zenon
<1>2. trades \in Seq(Nat)
  BY Terms, Zenon
<1>3. Cardinality(PillsOf(Append(trades, x)))
        = Cardinality(PillsOf(trades)) + (IF x = Sentinel THEN 1 ELSE 0)
  BY <1>2, PillsAppended, Zenon
<1>4. Cardinality(Pills') = Cardinality(Pills) + (IF x = Sentinel THEN 1 ELSE 0)
  BY <1>1, <1>3, Zenon
<1>5. Len(trades') = Len(trades) + 1
  BY <1>2
<1> QED
  BY <1>4, <1>5

LEMMA PillsPulled ==
  ASSUME TypeOK, TypeOK', trades # <<>>, trades' = Tail(trades)
  PROVE  /\ Cardinality(Pills')
              = Cardinality(Pills) - (IF Head(trades) = Sentinel THEN 1 ELSE 0)
         /\ Len(trades') = Len(trades) - 1
<1>1. Pills' = PillsOf(Tail(trades)) /\ Pills = PillsOf(trades)
  BY Terms, Zenon
<1>2. trades \in Seq(Nat)
  BY Terms, Zenon
<1>3. Cardinality(PillsOf(Tail(trades)))
        = Cardinality(PillsOf(trades)) - (IF Head(trades) = Sentinel THEN 1 ELSE 0)
  BY <1>2, PillsTaken, Zenon
<1>4. Cardinality(Pills')
        = Cardinality(Pills) - (IF Head(trades) = Sentinel THEN 1 ELSE 0)
  BY <1>1, <1>3, Zenon
<1>5. Len(trades') = Len(trades) - 1
  BY <1>2
<1> QED
  BY <1>4, <1>5

\* How thread t going from one stage to another changes what is in hand.
LEMMA HandMoves ==
  ASSUME TypeOK, TypeOK', NEW t \in Threads,
         \A u \in Threads \ {t} : worker'[u] = worker[u]
  PROVE  /\ Cardinality(Writing')
              = Cardinality(Writing) + (IF worker'[t].at \in {"writing"} THEN 1 ELSE 0)
                  - (IF worker[t].at \in {"writing"} THEN 1 ELSE 0)
         /\ Cardinality(Held')
              = Cardinality(Held)
                  + (IF worker'[t].at \in {"writing", "counted"} THEN 1 ELSE 0)
                  - (IF worker[t].at \in {"writing", "counted"} THEN 1 ELSE 0)
<1>1. \A S : Cardinality(StagedIn(worker', S))
              = Cardinality(StagedIn(worker, S)) + (IF worker'[t].at \in S THEN 1 ELSE 0)
                  - (IF worker[t].at \in S THEN 1 ELSE 0)
  BY Restaged, Zenon
<1>2. /\ Writing = StagedIn(worker, {"writing"})
      /\ Writing' = StagedIn(worker', {"writing"})
      /\ Held = StagedIn(worker, {"writing", "counted"})
      /\ Held' = StagedIn(worker', {"writing", "counted"})
  BY Terms, Zenon
<1> QED
  BY <1>1, <1>2, Zenon

\* The sides of JobsAccounted: what was counted when it came in, what was counted
\* when it went out, what is queued and what is in a thread's hand.
Enqueued == count.enqueued

Settled == count.written + count.failed

Queued == Len(trades) - Cardinality(Pills) + Len(depth)

InWrite == Cardinality(Writing)

HandCount == Cardinality(Held)

Balanced == Enqueued = Settled + Queued + InWrite /\ inFlight = HandCount

LEMMA Quantities ==
  ASSUME TypeOK, TypeOK'
  PROVE  /\ Enqueued \in Int /\ Settled \in Int /\ Queued \in Int
         /\ InWrite \in Int /\ HandCount \in Int /\ inFlight \in Int
         /\ Enqueued' \in Int /\ Settled' \in Int /\ Queued' \in Int
         /\ InWrite' \in Int /\ HandCount' \in Int /\ inFlight' \in Int
<1>1. Enqueued \in Int /\ InWrite \in Int /\ HandCount \in Int /\ inFlight \in Int
  BY SMTT(30), Numbers DEF Enqueued, InWrite, HandCount
<1>2. Enqueued' \in Int /\ InWrite' \in Int /\ HandCount' \in Int /\ inFlight' \in Int
  BY SMTT(30), Numbers DEF Enqueued, InWrite, HandCount
<1>3. Settled \in Int /\ Settled' \in Int
  <2>1. /\ count.written \in Nat /\ count.failed \in Nat
        /\ count'.written \in Nat /\ count'.failed \in Nat
    BY Numbers, Zenon
  <2> QED
    BY <2>1 DEF Settled
<1>4. Queued \in Int
  BY Numbers DEF Queued
<1>5. Queued' \in Int
  BY Numbers DEF Queued
<1> QED
  BY <1>1, <1>2, <1>3, <1>4, <1>5

LEMMA AccountedBalanced ==
  ASSUME TypeOK, TypeOK'
  PROVE  (JobsAccounted <=> Balanced) /\ (JobsAccounted' <=> Balanced')
<1> DEFINE e == count.enqueued  w == count.written  f == count.failed
           t == Len(trades)  p == Cardinality(Pills)
           d == Len(depth)  h == Cardinality(Writing)
           e1 == count'.enqueued  w1 == count'.written  f1 == count'.failed
           t1 == Len(trades')  p1 == Cardinality(Pills')
           d1 == Len(depth')  h1 == Cardinality(Writing')
<1>1. /\ e \in Nat /\ w \in Nat /\ f \in Nat /\ t \in Nat /\ p \in Nat /\ d \in Nat /\ h \in Nat
      /\ e1 \in Nat /\ w1 \in Nat /\ f1 \in Nat /\ t1 \in Nat /\ p1 \in Nat /\ d1 \in Nat
      /\ h1 \in Nat
  BY Numbers
<1>2. /\ JobsAccounted <=> e = w + f + t - p + d + h /\ inFlight = HandCount
      /\ Balanced <=> e = (w + f) + (t - p + d) + h /\ inFlight = HandCount
  BY Zenon DEF JobsAccounted, Balanced, Enqueued, Settled, Queued, InWrite, HandCount
<1>3. /\ JobsAccounted' <=> e1 = w1 + f1 + t1 - p1 + d1 + h1 /\ inFlight' = HandCount'
      /\ Balanced' <=> e1 = (w1 + f1) + (t1 - p1 + d1) + h1 /\ inFlight' = HandCount'
  BY Zenon DEF JobsAccounted, Balanced, Enqueued, Settled, Queued, InWrite, HandCount
<1> HIDE DEF e, w, f, t, p, d, h, e1, w1, f1, t1, p1, d1, h1
<1>4. JobsAccounted <=> Balanced
  BY <1>1, <1>2
<1>5. JobsAccounted' <=> Balanced'
  BY <1>1, <1>3
<1> QED
  BY <1>4, <1>5

\* How what is queued follows from what a step does to the lanes.
LEMMA QueuedMoves ==
  ASSUME TypeOK, TypeOK', NEW x \in Int, NEW y \in Int, NEW z \in Int,
         Len(trades') = Len(trades) + x, Cardinality(Pills') = Cardinality(Pills) + y,
         Len(depth') = Len(depth) + z
  PROVE  Queued' = Queued + x - y + z
<1> DEFINE t == Len(trades)  p == Cardinality(Pills)  d == Len(depth)
<1>1. /\ t \in Nat /\ p \in Nat /\ d \in Nat
      /\ t' = t + x /\ p' = p + y /\ d' = d + z
  BY Numbers
<1>2. Queued = t - p + d /\ Queued' = t' - p' + d'
  BY Zenon DEF Queued
<1> HIDE DEF t, p, d
<1> QED
  BY <1>1, <1>2

\* A submission is one more job queued and one more counted, or takes the place of a
\* book that waits.
LEMMA SubmitAccounts ==
  ASSUME TypeOK, TypeOK', JobsAccounted,
         SubmitTrade \/ \E k \in Keys : SubmitDepth(k)
  PROVE  JobsAccounted'
<1> SUFFICES ASSUME Balanced PROVE Balanced'
  BY AccountedBalanced
<1>n. jobs \in Nat /\ trades \in Seq(Nat) /\ depth \in Seq(Book) /\ count \in Counts
  BY Terms, Zenon
<1>q. /\ Enqueued \in Int /\ Settled \in Int /\ Queued \in Int
      /\ InWrite \in Int /\ HandCount \in Int /\ inFlight \in Int
  BY Quantities, Zenon
<1>1. InWrite' = InWrite /\ HandCount' = HandCount /\ inFlight' = inFlight
  BY DEF SubmitTrade, SubmitDepth, Writing, Held, InWrite, HandCount
<1>2. CASE SubmitTrade
  <2>1. /\ trades' = Append(trades, jobs + 1) /\ depth' = depth
        /\ count' = [count EXCEPT !.enqueued = count.enqueued + 1]
    BY <1>2 DEF SubmitTrade
  <2>2. jobs + 1 \in Nat /\ jobs + 1 # Sentinel
    BY <1>n DEF Sentinel
  <2>3. Cardinality(Pills') = Cardinality(Pills) + 0 /\ Len(trades') = Len(trades) + 1
    BY <2>1, <2>2, PillsPushed, Zenon
  <2>4. Len(depth') = Len(depth) + 0
    BY <1>n, <2>1
  <2>5. Queued' = Queued + 1 - 0 + 0
    <3>1. 0 \in Int /\ 1 \in Int /\ -1 \in Int
      OBVIOUS
    <3> QED
      BY <3>1, <2>3, <2>4, QueuedMoves, Zenon
  <2>6. Enqueued' = Enqueued + 1 /\ Settled' = Settled
    BY <1>n, <2>1 DEF Counts, Enqueued, Settled
  <2> QED
    BY <1>1, <1>q, <2>5, <2>6 DEF Balanced
<1>3. ASSUME NEW k \in Keys, SubmitDepth(k)
      PROVE  Balanced'
  <2>0. Pills' = Pills /\ trades' = trades
    BY <1>3 DEF SubmitDepth, Pills
  <2>1. CASE \E i \in DOMAIN depth : depth[i].key = k
    <3>1. /\ Len(depth') = Len(depth)
          /\ count' = [count EXCEPT !.superseded = count.superseded + 1]
      BY <1>3, <1>n, <2>1 DEF SubmitDepth
    <3>2. Queued' = Queued
      BY <2>0, <3>1, Zenon DEF Queued
    <3>3. Enqueued' = Enqueued /\ Settled' = Settled
      BY <1>n, <3>1 DEF Counts, Enqueued, Settled
    <3> QED
      BY <1>1, <3>2, <3>3 DEF Balanced
  <2>2. CASE ~\E i \in DOMAIN depth : depth[i].key = k
    <3>1. /\ depth' = Append(depth, [key |-> k, n |-> jobs + 1])
          /\ count' = [count EXCEPT !.enqueued = count.enqueued + 1]
      BY <1>3, <2>2 DEF SubmitDepth
    <3>2. Len(depth') = Len(depth) + 1
      BY <1>n, <3>1
    <3>3. Len(trades') = Len(trades) + 0 /\ Cardinality(Pills') = Cardinality(Pills) + 0
      BY <2>0, Numbers
    <3>4. Queued' = Queued + 0 - 0 + 1
      <4>1. 0 \in Int /\ 1 \in Int /\ -1 \in Int
        OBVIOUS
      <4> QED
        BY <4>1, <3>2, <3>3, QueuedMoves, Zenon
    <3>5. Enqueued' = Enqueued + 1 /\ Settled' = Settled
      BY <1>n, <3>1 DEF Counts, Enqueued, Settled
    <3> QED
      BY <1>1, <1>q, <3>4, <3>5 DEF Balanced
  <2> QED
    BY <2>1, <2>2
<1> QED
  BY <1>2, <1>3

\* A submission that is refused changes no lane.
LEMMA DropAccounts == ASSUME TypeOK, JobsAccounted, Drop PROVE JobsAccounted'
<1>1. /\ trades' = trades /\ depth' = depth /\ worker' = worker /\ inFlight' = inFlight
      /\ count' = [count EXCEPT !.dropped = count.dropped + 1]
  BY DEF Drop, lanes
<1>2. /\ count'.enqueued = count.enqueued /\ count'.written = count.written
      /\ count'.failed = count.failed
  BY <1>1 DEF TypeOK, Counts
<1>3. Pills' = Pills /\ Writing' = Writing /\ Held' = Held
  BY <1>1 DEF Pills, Writing, Held
<1> QED
  BY <1>1, <1>2, <1>3, Zenon DEF JobsAccounted

\* Every submission is counted once: only the submissions count them.
LEMMA SubmissionStep ==
  ASSUME TypeOK, SubmissionsCounted, [Next]_vars
  PROVE  SubmissionsCounted'
<1> DEFINE e == count.enqueued  s == count.superseded  d == count.dropped
<1>1. jobs \in Nat /\ e \in Nat /\ s \in Nat /\ d \in Nat /\ count \in Counts
  BY WriterAssumption DEF TypeOK, Counts, WriterAssumption
<1>2. SUFFICES jobs' = e' + s' + d'
  BY DEF SubmissionsCounted
<1>3. jobs = e + s + d
  BY DEF SubmissionsCounted
<1>4. CASE SubmitTrade
  <2>1. jobs' = jobs + 1 /\ e' = e + 1 /\ s' = s /\ d' = d
    BY <1>1, <1>4 DEF SubmitTrade, Counts
  <2> QED
    BY <1>1, <1>3, <2>1
<1>5. ASSUME NEW k \in Keys, SubmitDepth(k) PROVE jobs' = e' + s' + d'
  <2>1. /\ jobs' = jobs + 1 /\ d' = d
        /\ (e' = e + 1 /\ s' = s) \/ (e' = e /\ s' = s + 1)
    BY <1>1, <1>5 DEF SubmitDepth, Counts
  <2> QED
    BY <1>1, <1>3, <2>1
<1>6. CASE Drop
  <2>1. jobs' = jobs + 1 /\ e' = e /\ s' = s /\ d' = d + 1
    BY <1>1, <1>6 DEF Drop, Counts
  <2> QED
    BY <1>1, <1>3, <2>1
<1>7. CASE Start \/ StopRequest \/ StopReturn \/ UNCHANGED vars
  BY <1>3, <1>7 DEF Start, StopRequest, StopReturn, vars, bounds
<1>8. ASSUME NEW t \in Threads, Work(t) PROVE jobs' = e' + s' + d'
  <2>1. CASE TakeDepth(t) \/ TakeTrade(t) \/ TakeSentinel(t) \/ ThreadEnds(t) \/ Finish(t)
    BY <1>3, <2>1 DEF TakeDepth, TakeTrade, TakeSentinel, ThreadEnds, Finish, bounds
  <2>2. ASSUME NEW o \in {"written", "failed"}, WriteEnds(t, o) PROVE jobs' = e' + s' + d'
    <3>1. jobs' = jobs /\ e' = e /\ s' = s /\ d' = d
      BY <1>1, <2>2 DEF WriteEnds, bounds, Counts
    <3> QED
      BY <1>3, <3>1
  <2> QED
    BY <1>8, <2>1, <2>2 DEF Work
<1> QED
  BY <1>4, <1>5, <1>6, <1>7, <1>8 DEF Next, Work

\* How thread t going from one stage to another changes what is in hand.
LEMMA HandSteps ==
  ASSUME TypeOK, TypeOK', NEW t \in Threads,
         \A u \in Threads \ {t} : worker'[u] = worker[u]
  PROVE  /\ InWrite' = InWrite + (IF worker'[t].at \in {"writing"} THEN 1 ELSE 0)
                         - (IF worker[t].at \in {"writing"} THEN 1 ELSE 0)
         /\ HandCount' = HandCount + (IF worker'[t].at \in {"writing", "counted"} THEN 1 ELSE 0)
                        - (IF worker[t].at \in {"writing", "counted"} THEN 1 ELSE 0)
  BY HandMoves, Zenon DEF InWrite, HandCount

\* A job taken is in hand, a write that ends is counted, and a sentinel is no job.
LEMMA WorkAccounts ==
  ASSUME TypeOK, TypeOK', JobsAccounted, NEW t \in Threads, Work(t)
  PROVE  JobsAccounted'
<1> SUFFICES ASSUME Balanced PROVE Balanced'
  BY AccountedBalanced
<1>n. trades \in Seq(Nat) /\ depth \in Seq(Book) /\ count \in Counts
  BY Terms, Zenon
<1>q. /\ Enqueued \in Int /\ Settled \in Int /\ Queued \in Int
      /\ InWrite \in Int /\ HandCount \in Int /\ inFlight \in Int
  BY Quantities, Zenon
<1>0. \A u \in Threads \ {t} : worker'[u] = worker[u]
  BY WorkSteps
<1>h. /\ InWrite' = InWrite + (IF worker'[t].at \in {"writing"} THEN 1 ELSE 0)
                      - (IF worker[t].at \in {"writing"} THEN 1 ELSE 0)
      /\ HandCount' = HandCount + (IF worker'[t].at \in {"writing", "counted"} THEN 1 ELSE 0)
                     - (IF worker[t].at \in {"writing", "counted"} THEN 1 ELSE 0)
  BY <1>0, HandSteps, Zenon
<1>k. ASSUME count' = count
      PROVE  Enqueued' = Enqueued /\ Settled' = Settled
  BY <1>k DEF Enqueued, Settled
<1>l. ASSUME trades' = trades, depth' = depth
      PROVE  Queued' = Queued
  BY <1>l DEF Queued, Pills
<1>1. CASE TakeDepth(t)
  <2>1. worker[t].at = "taking" /\ worker'[t].at = "writing"
    BY <1>1 DEF TakeDepth, TypeOK
  <2>2. /\ depth # <<>> /\ depth' = Tail(depth)
        /\ inFlight' = inFlight + 1 /\ count' = count /\ trades' = trades
    BY <1>1 DEF TakeDepth, DepthTurn
  <2>3. Len(depth') = Len(depth) + (-1)
    BY <1>n, <2>2
  <2>4. Len(trades') = Len(trades) + 0 /\ Cardinality(Pills') = Cardinality(Pills) + 0
    BY <2>2, Numbers DEF Pills
  <2>5. Queued' = Queued + 0 - 0 + (-1)
    <3>1. 0 \in Int /\ 1 \in Int /\ -1 \in Int
      OBVIOUS
    <3> QED
      BY <3>1, <2>3, <2>4, QueuedMoves, Zenon
  <2>6. InWrite' = InWrite + 1 /\ HandCount' = HandCount + 1
    BY <1>h, <1>q, <2>1
  <2> QED
    BY <1>q, <1>k, <2>2, <2>5, <2>6 DEF Balanced
<1>2. CASE TakeTrade(t)
  <2>1. worker[t].at = "taking" /\ worker'[t].at = "writing"
    BY <1>2 DEF TakeTrade, TypeOK
  <2>2. /\ trades # <<>> /\ Head(trades) # Sentinel /\ trades' = Tail(trades)
        /\ inFlight' = inFlight + 1 /\ count' = count /\ depth' = depth
    BY <1>2 DEF TakeTrade, HeadIsSentinel
  <2>3. Len(trades') = Len(trades) + (-1) /\ Cardinality(Pills') = Cardinality(Pills) + 0
    <3>1. /\ Cardinality(Pills') = Cardinality(Pills) - 0
          /\ Len(trades') = Len(trades) - 1
      BY <2>2, PillsPulled, Zenon
    <3> QED
      BY <3>1, Numbers
  <2>4. Len(depth') = Len(depth) + 0
    BY <1>n, <2>2
  <2>5. Queued' = Queued + (-1) - 0 + 0
    <3>1. 0 \in Int /\ 1 \in Int /\ -1 \in Int
      OBVIOUS
    <3> QED
      BY <3>1, <2>3, <2>4, QueuedMoves, Zenon
  <2>6. InWrite' = InWrite + 1 /\ HandCount' = HandCount + 1
    BY <1>h, <1>q, <2>1
  <2> QED
    BY <1>q, <1>k, <2>2, <2>5, <2>6 DEF Balanced
<1>3. CASE TakeSentinel(t)
  <2>1. worker[t].at = "taking" /\ worker'[t].at = "leaving"
    BY <1>3 DEF TakeSentinel, TypeOK, At
  <2>2. /\ trades # <<>> /\ Head(trades) = Sentinel /\ trades' = Tail(trades)
        /\ inFlight' = inFlight /\ count' = count /\ depth' = depth
    BY <1>3 DEF TakeSentinel, HeadIsSentinel
  <2>3. Len(trades') = Len(trades) + (-1) /\ Cardinality(Pills') = Cardinality(Pills) + (-1)
    <3>1. /\ Cardinality(Pills') = Cardinality(Pills) - 1
          /\ Len(trades') = Len(trades) - 1
      BY <2>2, PillsPulled, Zenon
    <3> QED
      BY <3>1, Numbers
  <2>4. Len(depth') = Len(depth) + 0
    BY <1>n, <2>2
  <2>5. Queued' = Queued + (-1) - (-1) + 0
    <3>1. 0 \in Int /\ 1 \in Int /\ -1 \in Int
      OBVIOUS
    <3> QED
      BY <3>1, <2>3, <2>4, QueuedMoves, Zenon
  <2>6. InWrite' = InWrite /\ HandCount' = HandCount
    BY <1>h, <1>q, <2>1
  <2> QED
    BY <1>q, <1>k, <2>2, <2>5, <2>6 DEF Balanced
<1>4. CASE ThreadEnds(t)
  <2>1. worker[t].at = "leaving" /\ worker'[t].at = "ended"
    BY <1>4 DEF ThreadEnds, TypeOK, At
  <2>2. inFlight' = inFlight /\ count' = count /\ depth' = depth /\ trades' = trades
    BY <1>4 DEF ThreadEnds, lanes
  <2>3. InWrite' = InWrite /\ HandCount' = HandCount
    BY <1>h, <1>q, <2>1
  <2> QED
    BY <1>k, <1>l, <2>2, <2>3 DEF Balanced
<1>5. ASSUME NEW o \in {"written", "failed"}, WriteEnds(t, o)
      PROVE  Balanced'
  <2>1. worker[t].at = "writing" /\ worker'[t].at = "counted"
    BY <1>5 DEF WriteEnds, TypeOK, At
  <2>2. /\ inFlight' = inFlight /\ depth' = depth /\ trades' = trades
        /\ count' = [count EXCEPT ![o] = count[o] + 1]
    BY <1>5 DEF WriteEnds, lanes
  <2>3. InWrite' = InWrite - 1 /\ HandCount' = HandCount
    BY <1>h, <1>q, <2>1
  <2>4. Enqueued' = Enqueued /\ Settled' = Settled + 1
    BY <1>n, <2>2 DEF Counts, Enqueued, Settled
  <2> QED
    BY <1>q, <1>l, <2>2, <2>3, <2>4 DEF Balanced
<1>6. CASE Finish(t)
  <2>1. worker[t].at = "counted" /\ worker'[t].at = "taking"
    BY <1>6 DEF Finish, TypeOK
  <2>2. inFlight' = inFlight - 1 /\ count' = count /\ depth' = depth /\ trades' = trades
    BY <1>6 DEF Finish, lanes
  <2>3. InWrite' = InWrite /\ HandCount' = HandCount - 1
    BY <1>h, <1>q, <2>1
  <2> QED
    BY <1>q, <1>k, <1>l, <2>2, <2>3 DEF Balanced
<1> QED
  BY <1>1, <1>2, <1>3, <1>4, <1>5, <1>6 DEF Work

\* A started thread has nothing in hand, and stop() adds a sentinel and no job.
LEMMA CallerAccounts ==
  ASSUME TypeOK, TypeOK', JobsAccounted, Start \/ StopRequest \/ StopReturn
  PROVE  JobsAccounted'
<1> SUFFICES ASSUME Balanced PROVE Balanced'
  BY AccountedBalanced
<1>n. trades \in Seq(Nat) /\ depth \in Seq(Book)
  BY Terms, Zenon
<1>q. /\ Enqueued \in Int /\ Settled \in Int /\ Queued \in Int
      /\ InWrite \in Int /\ HandCount \in Int /\ inFlight \in Int
  BY Quantities, Zenon
<1>1. CASE Start
  <2>1. /\ worker[thread'].at = "unborn" /\ worker'[thread'].at = "taking"
        /\ thread' \in Threads
        /\ \A u \in Threads \ {thread'} : worker'[u] = worker[u]
    BY <1>1, StartSteps
  <2>2. inFlight' = inFlight /\ count' = count /\ depth' = depth /\ trades' = trades
    BY <1>1 DEF Start, lanes
  <2>3. \A t \in Threads : (\A u \in Threads \ {t} : worker'[u] = worker[u]) =>
          /\ InWrite' = InWrite + (IF worker'[t].at \in {"writing"} THEN 1 ELSE 0)
                          - (IF worker[t].at \in {"writing"} THEN 1 ELSE 0)
          /\ HandCount' = HandCount + (IF worker'[t].at \in {"writing", "counted"} THEN 1 ELSE 0)
                         - (IF worker[t].at \in {"writing", "counted"} THEN 1 ELSE 0)
    BY HandSteps, Zenon
  <2>4. InWrite' = InWrite /\ HandCount' = HandCount
    BY <1>q, <2>1, <2>3
  <2>5. Queued' = Queued /\ Enqueued' = Enqueued /\ Settled' = Settled
    BY <2>2 DEF Queued, Pills, Enqueued, Settled
  <2> QED
    BY <2>2, <2>4, <2>5 DEF Balanced
<1>2. CASE StopRequest
  <2>1. /\ trades' = Append(trades, Sentinel) /\ depth' = depth /\ count' = count
        /\ inFlight' = inFlight /\ worker' = worker
    BY <1>2 DEF StopRequest
  <2>2. Sentinel \in Nat
    BY DEF Sentinel
  <2>3. Cardinality(Pills') = Cardinality(Pills) + 1 /\ Len(trades') = Len(trades) + 1
    BY <2>1, <2>2, PillsPushed, Zenon
  <2>4. Len(depth') = Len(depth) + 0
    BY <1>n, <2>1
  <2>5. Queued' = Queued + 1 - 1 + 0
    <3>1. 0 \in Int /\ 1 \in Int /\ -1 \in Int
      OBVIOUS
    <3> QED
      BY <3>1, <2>3, <2>4, QueuedMoves, Zenon
  <2>6. /\ InWrite' = InWrite /\ HandCount' = HandCount
        /\ Enqueued' = Enqueued /\ Settled' = Settled
    BY <2>1 DEF InWrite, HandCount, Writing, Held, Enqueued, Settled
  <2> QED
    BY <1>q, <2>1, <2>5, <2>6 DEF Balanced
<1>3. CASE StopReturn
  BY <1>3 DEF StopReturn, Balanced, lanes, Pills, Writing, Held, Enqueued, Settled, Queued,
              InWrite, HandCount
<1> QED
  BY <1>1, <1>2, <1>3

\* At most one job is in hand, and only its write may still be uncounted.
LEMMA OneInHand ==
  ASSUME TypeOK, TypeOK', WorkerInv
  PROVE  /\ InWrite \in Nat /\ HandCount \in Nat
         /\ InWrite <= HandCount
         /\ HandCount <= 1
<1>1. /\ Writing = StagedIn(worker, {"writing"})
      /\ Held = StagedIn(worker, {"writing", "counted"})
  BY Terms, Zenon
<1>2. IsFiniteSet(Held) /\ Cardinality(Held) \in Nat /\ Cardinality(Writing) \in Nat
  BY <1>1, StagedFinite, Zenon
<1>3. Writing \in SUBSET Held
  BY DEF Writing, Held
<1>4. \A t \in Held : t = thread
  BY DEF Held, WorkerInv, OneWorker, Alive
<1>5. Cardinality(Writing) <= Cardinality(Held)
  BY <1>2, <1>3, FS_Subset
<1>6. Held \in SUBSET {thread} /\ IsFiniteSet({thread}) /\ Cardinality({thread}) = 1
  BY <1>4, FS_Singleton
<1>7. Cardinality(Held) <= 1
  BY <1>6, FS_Subset
<1> QED
  BY <1>2, <1>5, <1>7 DEF InWrite, HandCount

\* What stop() counts as queued leaves out one sentinel, the one at the end.
LEMMA QueuedForReport ==
  ASSUME TypeOK, TypeOK', Cardinality(Pills) <= stops, stops >= 1,
         trades = <<>> \/ EndsInSentinel
  PROVE  /\ PendingCount \in Nat
         /\ PendingCount >= Queued
         /\ PendingCount < Queued + stops
         /\ Queued \in Nat
         /\ PendingCount = 0 => Queued = 0
<1> DEFINE t == Len(trades)  p == Cardinality(Pills)  d == Len(depth)
<1>0. t \in Nat /\ p \in Nat /\ d \in Nat /\ stops \in Nat /\ trades \in Seq(Nat)
  BY Numbers, Terms
<1>1. EndsInSentinel => t >= 1 /\ t \in Pills
  BY <1>0 DEF EndsInSentinel, Pills
<1>2. IsFiniteSet(Pills)
  <2>1. 0 \in Nat
    OBVIOUS
  <2>2. Pills = PillsOf(trades)
    BY Terms, Zenon
  <2> QED
    BY <1>0, <2>1, <2>2, PillsAppended, Zenon
<1>3. EndsInSentinel => p # 0
  BY <1>1, <1>2, FS_EmptySet
<1>4. Pills \in SUBSET (1..t) /\ IsFiniteSet(1..t) /\ Cardinality(1..t) = t
  <2>1. IsFiniteSet(1..t) /\ Cardinality(1..t) = t
    <3>1. \A n \in Nat : IsFiniteSet(1..n) /\ Cardinality(1..n) = n
      BY FS_Interval
    <3> QED
      BY <1>0, <3>1, Zenon
  <2>2. Pills \in SUBSET (1..t)
    BY <1>0 DEF Pills
  <2> QED
    BY <2>1, <2>2
<1>5. p <= t
  BY <1>4, FS_Subset
<1>6. trades = <<>> => t = 0
  OBVIOUS
<1>7. /\ Queued = t - p + d
      /\ PendingCount = t + d - (IF EndsInSentinel THEN 1 ELSE 0)
  BY Zenon DEF Queued, PendingCount
<1>8. p <= stops
  OBVIOUS
<1> HIDE DEF t, p, d
<1>9. CASE EndsInSentinel
  <2>1. PendingCount = t + d - 1
    BY <1>7, <1>9
  <2>2. p >= 1
    BY <1>0, <1>3, <1>9
  <2> QED
    BY <1>0, <1>5, <1>7, <1>8, <2>1, <2>2
<1>10. CASE ~EndsInSentinel
  <2>1. PendingCount = t + d /\ t = 0
    BY <1>0, <1>6, <1>7, <1>10
  <2> QED
    BY <1>0, <1>5, <1>7, <1>8, <2>1
<1> QED
  BY <1>9, <1>10

\* The report is true when it is made.
LEMMA ReportMade ==
  ASSUME TypeOK, TypeOK', WorkerInv, JobsAccounted, StopInv, StopReturn
  PROVE  ReportCoversJobs'
<1> DEFINE clean == seen /\ PendingCount = 0 /\ inFlight = 0
           r == app'.written + app'.failed + app'.abandoned + app'.inFlight
<1>1. /\ app.at = "joining"
      /\ app' = [at |-> "idle", clean |-> clean,
                 abandoned |-> IF clean THEN 0 ELSE PendingCount,
                 inFlight |-> inFlight, written |-> count.written,
                 failed |-> count.failed, told |-> TRUE]
      /\ count' = count /\ stops' = stops
  BY DEF StopReturn, bounds
<1>2. Enqueued = Settled + Queued + InWrite /\ inFlight = HandCount
  BY AccountedBalanced DEF Balanced
<1>3. /\ stops >= 1 /\ Cardinality(Pills) <= stops /\ (trades = <<>> \/ EndsInSentinel)
  BY <1>1 DEF StopInv
<1>4. /\ PendingCount \in Nat
      /\ PendingCount >= Queued
      /\ PendingCount < Queued + stops
      /\ Queued \in Nat
      /\ PendingCount = 0 => Queued = 0
  BY <1>3, QueuedForReport, Zenon
<1>5. InWrite \in Nat /\ HandCount \in Nat /\ InWrite <= HandCount /\ HandCount <= 1
  BY OneInHand, Zenon
<1>6. /\ Enqueued \in Int /\ Settled \in Int /\ stops \in Nat
      /\ count.written \in Nat /\ count.failed \in Nat
  BY Quantities, Numbers, Zenon
<1>7. app'.clean <=> clean
  BY <1>1
<1>8. r = Settled + (IF clean THEN 0 ELSE PendingCount) + HandCount
  BY <1>1, <1>2 DEF Settled
<1>9. clean => PendingCount = 0 /\ HandCount = 0
  BY <1>2
<1> HIDE DEF clean, r
<1>10. clean => r = Enqueued
  BY <1>2, <1>4, <1>5, <1>6, <1>8, <1>9
<1>11. r \in Enqueued..(Enqueued + stops)
  BY <1>2, <1>4, <1>5, <1>6, <1>8, <1>10
<1> QED
  BY <1>1, <1>7, <1>10, <1>11 DEF ReportCoversJobs, r, Enqueued

\* And it stays true: a submission or another stop withdraws it.
LEMMA ReportStays ==
  ASSUME TypeOK, TypeOK', ReportCoversJobs, [Next]_vars, ~StopReturn
  PROVE  ReportCoversJobs'
<1>1. CASE Start \/ SubmitTrade \/ (\E k \in Keys : SubmitDepth(k)) \/ StopRequest
  <2>1. app'.told = FALSE
    BY <1>1 DEF Start, SubmitTrade, SubmitDepth, StopRequest, TypeOK, Apps
  <2> QED
    BY <2>1 DEF ReportCoversJobs
<1>2. ASSUME NEW t \in Threads, Work(t)
      PROVE  ReportCoversJobs'
  <2>1. app' = app /\ stops' = stops /\ count'.enqueued = count.enqueued
    <3>1. CASE TakeDepth(t) \/ TakeTrade(t) \/ TakeSentinel(t) \/ ThreadEnds(t) \/ Finish(t)
      BY <3>1 DEF TakeDepth, TakeTrade, TakeSentinel, ThreadEnds, Finish, bounds
    <3>2. ASSUME NEW o \in {"written", "failed"}, WriteEnds(t, o)
          PROVE  app' = app /\ stops' = stops /\ count'.enqueued = count.enqueued
      BY <3>2, Terms DEF WriteEnds, bounds, Counts
    <3> QED
      BY <1>2, <3>1, <3>2 DEF Work
  <2> QED
    BY <2>1 DEF ReportCoversJobs
<1>3. CASE UNCHANGED vars
  BY <1>3 DEF vars, ReportCoversJobs
<1>4. CASE Drop
  <2>1. app' = app /\ stops' = stops /\ count'.enqueued = count.enqueued
    BY <1>4, Terms DEF Drop, Counts
  <2> QED
    BY <2>1 DEF ReportCoversJobs
<1> QED
  BY <1>1, <1>2, <1>3, <1>4 DEF Next, Work

\* Each stop pushes one sentinel, and nothing is queued behind it while it joins.
LEMMA StopStep ==
  ASSUME TypeOK, TypeOK', StopInv, [Next]_vars
  PROVE  StopInv'
<1>n. /\ stops \in Nat /\ jobs \in Nat /\ trades \in Seq(Nat)
      /\ Cardinality(Pills) \in Nat /\ Cardinality(Pills') \in Nat
  BY Terms, Zenon
<1>1. CASE \/ Start \/ StopReturn \/ Drop \/ UNCHANGED vars
           \/ \E k \in Keys : SubmitDepth(k)
  <2>1. /\ trades' = trades /\ stops' = stops
        /\ app'.at = "joining" => app.at = "joining" /\ accepting' = accepting
    BY <1>1 DEF Start, StopReturn, SubmitDepth, Drop, vars, lanes, bounds, TypeOK, Apps
  <2> QED
    BY <2>1 DEF StopInv, Pills, EndsInSentinel
<1>2. CASE SubmitTrade
  <2>1. /\ trades' = Append(trades, jobs + 1) /\ stops' = stops /\ app'.at = app.at
        /\ accepting
    BY <1>2 DEF SubmitTrade, TypeOK, Apps
  <2>2. jobs + 1 \in Nat /\ jobs + 1 # Sentinel
    BY <1>n DEF Sentinel
  <2>3. Cardinality(Pills') = Cardinality(Pills) + 0
    BY <2>1, <2>2, PillsPushed, Zenon
  <2>4. Cardinality(Pills') <= stops'
    BY <1>n, <2>1, <2>3 DEF StopInv
  <2>5. app'.at # "joining"
    BY <2>1 DEF StopInv
  <2> QED
    BY <2>4, <2>5 DEF StopInv
<1>3. CASE StopRequest
  <2>1. /\ trades' = Append(trades, Sentinel) /\ stops' = stops + 1 /\ accepting' = FALSE
    BY <1>3 DEF StopRequest
  <2>2. Sentinel \in Nat
    BY DEF Sentinel
  <2>3. Cardinality(Pills') = Cardinality(Pills) + 1
    BY <2>1, <2>2, PillsPushed, Zenon
  <2>4. EndsInSentinel'
    BY <1>n, <2>1 DEF EndsInSentinel, Sentinel
  <2>5. Cardinality(Pills') <= stops' /\ stops' >= 1
    BY <1>n, <2>1, <2>3 DEF StopInv
  <2> QED
    BY <2>1, <2>4, <2>5 DEF StopInv
<1>4. ASSUME NEW t \in Threads, Work(t)
      PROVE  StopInv'
  <2>1. app' = app /\ stops' = stops /\ accepting' = accepting
    BY <1>4 DEF Work, TakeDepth, TakeTrade, TakeSentinel, ThreadEnds, WriteEnds, Finish,
                bounds
  <2>2. trades' = trades \/ (trades # <<>> /\ trades' = Tail(trades))
    BY <1>4 DEF Work, TakeDepth, TakeTrade, TakeSentinel, ThreadEnds, WriteEnds, Finish,
                lanes, HeadIsSentinel
  <2>3. Cardinality(Pills') <= Cardinality(Pills)
    <3>1. CASE trades' = trades
      BY <1>n, <3>1 DEF Pills
    <3>2. CASE trades # <<>> /\ trades' = Tail(trades)
      <4>1. Cardinality(Pills')
              = Cardinality(Pills) - (IF Head(trades) = Sentinel THEN 1 ELSE 0)
        BY <3>2, PillsPulled, Zenon
      <4> QED
        BY <1>n, <4>1
    <3> QED
      BY <2>2, <3>1, <3>2
  <2>4. (trades = <<>> \/ EndsInSentinel) => (trades' = <<>> \/ EndsInSentinel')
    <3>1. CASE trades' = trades
      BY <3>1 DEF EndsInSentinel
    <3>2. CASE trades # <<>> /\ trades' = Tail(trades)
      <4>1. /\ Len(trades) \in Nat /\ Len(trades) >= 1 /\ Len(trades') = Len(trades) - 1
            /\ trades' \in Seq(Nat)
            /\ \A i \in 1..Len(trades') : trades'[i] = trades[i + 1]
        BY <1>n, <3>2
      <4>2. trades' # <<>> => Len(trades') >= 1 /\ trades'[Len(trades')] = trades[Len(trades)]
        BY <4>1
      <4> QED
        BY <3>2, <4>2 DEF EndsInSentinel
    <3> QED
      BY <2>2, <3>1, <3>2
  <2>5. Cardinality(Pills') <= stops'
    BY <1>n, <2>1, <2>3 DEF StopInv
  <2> QED
    BY <2>1, <2>4, <2>5 DEF StopInv
<1> QED
  BY <1>1, <1>2, <1>3, <1>4 DEF Next, Work

\* Every submission is enqueued, takes the place of a waiting book or is dropped, and
\* every accepted job is written, failed, waiting or in a worker's hand, whatever the
\* interleaving of submissions, worker, stops and restarts, and what stop() reports
\* leaves none out (submit, _run and stop of FeedWriter).
THEOREM JobsAreNotLost == Spec => []NoJobLost
<1>1. Init => TypeOK /\ WorkerInv /\ AccountInv
  <2> SUFFICES ASSUME Init PROVE WorkerInv /\ AccountInv
    BY InitTypeOK
  <2>1. WorkerInv
    BY DEF Init, WorkerInv, OneWorker, Fresh, Alive
  <2>2. Pills = {} /\ Writing = {} /\ Held = {}
    BY DEF Init, Pills, Writing, Held
  <2>3. trades = <<>> /\ depth = <<>>
        /\ count.enqueued = 0 /\ count.written = 0 /\ count.failed = 0
        /\ jobs = 0 /\ count.superseded = 0 /\ count.dropped = 0
        /\ inFlight = 0 /\ stops = 0 /\ app.told = FALSE /\ app.at = "idle"
    BY DEF Init
  <2> QED
    BY <2>1, <2>2, <2>3, FS_EmptySet
       DEF AccountInv, SubmissionsCounted, JobsAccounted, ReportCoversJobs, StopInv
<1>2. TypeOK /\ WorkerInv /\ AccountInv /\ [Next]_vars => (TypeOK /\ WorkerInv /\ AccountInv)'
  <2> SUFFICES ASSUME TypeOK, WorkerInv, AccountInv, [Next]_vars
               PROVE  TypeOK' /\ WorkerInv' /\ AccountInv'
    OBVIOUS
  <2>1. TypeOK' /\ WorkerInv'
    BY NextTypeOK, WorkerStep
  <2>2. JobsAccounted'
    <3>1. CASE UNCHANGED vars
      BY <3>1 DEF vars, AccountInv, JobsAccounted, Pills, Writing, Held
    <3> QED
      BY <2>1, <3>1, SubmitAccounts, DropAccounts, WorkAccounts, CallerAccounts
         DEF Next, Work, AccountInv
  <2>3. ReportCoversJobs'
    BY <2>1, ReportMade, ReportStays DEF AccountInv
  <2>4. StopInv'
    BY <2>1, StopStep DEF AccountInv
  <2>5. SubmissionsCounted'
    BY SubmissionStep DEF AccountInv
  <2> QED
    BY <2>1, <2>2, <2>3, <2>4, <2>5 DEF AccountInv
<1>3. AccountInv => NoJobLost
  BY DEF AccountInv, NoJobLost
<1> QED
  BY <1>1, <1>2, <1>3, PTL DEF Spec
=============================================================================
