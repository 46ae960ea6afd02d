---------------------- MODULE MaintenanceJournalProofs ----------------------
(***************************************************************************)
(* Proofs about MaintenanceJournal, for every queue length and any number  *)
(* of rows.                                                                *)
(***************************************************************************)
EXTENDS MaintenanceJournal, TLAPS

\* What a push leaves in the queue, whether it was full or not.
LEMMA PushedQueue ==
  ASSUME TypeOK, NEW n \in Nat \ {0}
  PROVE  /\ Pushed(n) \in Seq(Nat \ {0})
         /\ Pushed(n) # <<>>
         /\ Full => Len(Pushed(n)) = Len(queue)
         /\ ~Full => Len(Pushed(n)) = Len(queue) + 1
         /\ Len(Pushed(n)) <= MaxLen
<1>1. CASE Full
  <2>1. /\ queue \in Seq(Nat \ {0}) /\ Len(queue) = MaxLen
        /\ MaxLen \in Nat \ {0} /\ queue # <<>>
    BY <1>1, JournalAssumption DEF Full, TypeOK
  <2>2. Tail(queue) \in Seq(Nat \ {0}) /\ Len(Tail(queue)) = MaxLen - 1
    BY <2>1
  <2>3. Pushed(n) = Append(Tail(queue), n)
    BY <1>1 DEF Pushed
  <2> QED
    BY <1>1, <2>1, <2>2, <2>3
<1>2. CASE ~Full
  BY <1>2, JournalAssumption DEF Pushed, Full, TypeOK
<1> QED
  BY <1>1, <1>2

\* A queue that gives up its head.
LEMMA RestOfQueue ==
  ASSUME TypeOK, queue # <<>>
  PROVE  /\ Head(queue) \in Nat \ {0}
         /\ Tail(queue) \in Seq(Nat \ {0})
         /\ Len(Tail(queue)) = Len(queue) - 1
BY DEF TypeOK

\* The journal is created empty.
LEMMA TypeInit == Init => TypeOK
<1> SUFFICES ASSUME Init
             PROVE  TypeOK
  OBVIOUS
<1>1. queue \in Seq(Nat \ {0}) /\ Len(queue) <= MaxLen
  BY JournalAssumption DEF Init
<1>2. submitted \in 0..MaxSubmits
  BY JournalAssumption DEF Init
<1> QED
  BY <1>1, <1>2 DEF Init, TypeOK

\* Every step of submitter, worker and shutdown keeps the types.
LEMMA TypeNext == TypeOK /\ [Next]_vars => TypeOK'
<1> SUFFICES ASSUME TypeOK, [Next]_vars
             PROVE  TypeOK'
  OBVIOUS
<1>1. CASE Submit
  <2>1. submitted + 1 \in Nat \ {0}
    BY DEF TypeOK
  <2>2. submitted' \in 0..MaxSubmits /\ dropped' \in Nat
    BY <1>1, JournalAssumption DEF Submit, TypeOK
  <2>3. queue' \in Seq(Nat \ {0}) /\ Len(queue') <= MaxLen
    BY <1>1, <2>1, PushedQueue DEF Submit, TypeOK
  <2> QED
    BY <1>1, <2>2, <2>3 DEF Submit, TypeOK
<1>2. CASE Take
  <2>1. /\ row' \in Nat \ {0} /\ queue' \in Seq(Nat \ {0})
        /\ Len(queue') = Len(queue) - 1
    BY <1>2, RestOfQueue DEF Take
  <2>2. Len(queue') <= MaxLen
    BY <2>1, JournalAssumption DEF TypeOK
  <2> QED
    BY <1>2, <2>1, <2>2 DEF Take, TypeOK, counters
<1>3. CASE WriteSucceeds \/ WriteFails
  BY <1>3 DEF WriteSucceeds, WriteFails, TypeOK
<1>4. CASE Start \/ WorkerEnds \/ Stop \/ Join \/ JoinTimesOut
  BY <1>4 DEF Start, WorkerEnds, Stop, Join, JoinTimesOut, TypeOK, counters
<1>5. CASE Clear
  BY <1>5, JournalAssumption DEF Clear, TypeOK
<1>6. CASE Return
  BY <1>6 DEF Return, TypeOK, Report, counters
<1>7. CASE Close
  BY <1>7 DEF Close, TypeOK, counters
<1>8. CASE UNCHANGED vars
  BY <1>8 DEF vars, TypeOK, counters
<1> QED
  BY <1>1, <1>2, <1>3, <1>4, <1>5, <1>6, <1>7, <1>8 DEF Next, Worker, Shutdown

\* The queue never outgrows its bound and the worker holds at most one row.
THEOREM TypeCorrect == Spec => []TypeOK
<1>1. TypeOK /\ [Next]_vars => TypeOK'
  BY TypeNext
<1> QED
  BY <1>1, TypeInit, PTL DEF Spec

----------------------------------------------------------------------------
\* Every step moves a row from one account to another or brings a new one.
LEMMA CountNext == TypeOK /\ EveryRowCounted /\ [Next]_vars => EveryRowCounted'
<1> SUFFICES ASSUME TypeOK, EveryRowCounted, [Next]_vars
             PROVE  EveryRowCounted'
  OBVIOUS
<1>0. Len(queue) \in Nat /\ Holding \in 0..1
  BY DEF TypeOK, Holding
<1>1. CASE Submit
  <2>1. submitted + 1 \in Nat \ {0} /\ Holding' = Holding
    BY <1>1 DEF Submit, TypeOK, Holding
  <2>2. CASE stopping
    BY <1>0, <1>1, <2>1, <2>2 DEF Submit, EveryRowCounted, TypeOK, Drops
  <2>3. CASE ~stopping
    <3>1. Len(queue') = IF Full THEN Len(queue) ELSE Len(queue) + 1
      BY <1>1, <2>1, <2>3, PushedQueue DEF Submit
    <3> QED
      BY <1>0, <1>1, <2>1, <2>3, <3>1 DEF Submit, EveryRowCounted, TypeOK, Drops
  <2> QED
    BY <2>2, <2>3
<1>2. CASE Take
  <2>1. Len(queue') = Len(queue) - 1 /\ Holding = 0 /\ Holding' = 1
    BY <1>2, RestOfQueue DEF Take, Holding
  <2> QED
    BY <1>0, <1>2, <2>1 DEF Take, EveryRowCounted, TypeOK, counters
<1>3. CASE WriteSucceeds \/ WriteFails
  <2>1. Holding = 1 /\ Holding' = 0
    BY <1>3 DEF WriteSucceeds, WriteFails, Holding
  <2> QED
    BY <1>0, <1>3, <2>1 DEF WriteSucceeds, WriteFails, EveryRowCounted, TypeOK
<1>4. CASE Start \/ WorkerEnds \/ Stop \/ Join \/ JoinTimesOut \/ Return \/ Close
           \/ UNCHANGED vars
  <2>1. Holding' = Holding
    BY <1>4 DEF Start, WorkerEnds, Stop, Join, JoinTimesOut, Return, Close, vars, Holding
  <2>2. UNCHANGED <<queue, submitted, written, errors, dropped, abandoned>>
    BY <1>4 DEF Start, WorkerEnds, Stop, Join, JoinTimesOut, Return, Close, vars, counters
  <2> QED
    BY <2>1, <2>2 DEF EveryRowCounted
<1>5. CASE Clear
  <2>1. Len(queue') = 0 /\ Holding' = Holding
    BY <1>5 DEF Clear, Holding
  <2> QED
    BY <1>0, <1>5, <2>1 DEF Clear, EveryRowCounted, TypeOK
<1> QED
  BY <1>1, <1>2, <1>3, <1>4, <1>5 DEF Next, Worker, Shutdown

\* No row disappears without a counter, however submissions, writes and the
\* shutdown interleave.
THEOREM RowsAreCounted == Spec => []EveryRowCounted
<1>1. Init => EveryRowCounted
  BY DEF Init, EveryRowCounted, Holding
<1>2. TypeOK /\ EveryRowCounted /\ [Next]_vars => EveryRowCounted'
  BY CountNext
<1> QED
  BY <1>1, <1>2, TypeCorrect, PTL DEF Spec

----------------------------------------------------------------------------
\* What `NewestWait' needs to be inductive: no row is newer than the last one
\* submitted.
Bounded == row <= submitted /\ \A k \in 1..Len(queue) : queue[k] <= submitted

OrderInv == TypeOK /\ NewestWait /\ Bounded

\* Where a queue of two or more rows has its first.
LEMMA PastTheFirst ==
  ASSUME NEW n \in Nat \ {0}, n # 1
  PROVE  1 \in 1..n - 1 /\ 1 \in 1..n
OBVIOUS

\* The numbers the order is about.
LEMMA OrderTypes ==
  ASSUME TypeOK
  PROVE  /\ Len(queue) \in Nat /\ submitted \in Nat /\ row \in Nat
         /\ \A k \in 1..Len(queue) : queue[k] \in Nat \ {0}
         /\ queue # <<>> => Len(queue) \in Nat \ {0}
BY JournalAssumption DEF TypeOK

\* A push to a queue with room continues it.
LEMMA OrderAppend ==
  ASSUME OrderInv, Submit, ~stopping, ~Full
  PROVE  NewestWait' /\ Bounded'
<1>1. /\ row' = row /\ submitted' = submitted + 1 /\ stopping' = stopping
      /\ queue' = Append(queue, submitted + 1)
  BY DEF Submit, Pushed
<1>2. /\ Len(queue) \in Nat /\ submitted \in Nat /\ row \in Nat
      /\ \A k \in 1..Len(queue) : queue[k] \in Nat \ {0}
  BY OrderTypes DEF OrderInv
<1>3. /\ Len(queue') = Len(queue) + 1
      /\ queue'[Len(queue) + 1] = submitted + 1
      /\ \A k \in 1..Len(queue) : queue'[k] = queue[k]
  BY <1>1, <1>2 DEF OrderInv, TypeOK
<1>4. Bounded'
  <2>1. \A k \in 1..Len(queue') : queue'[k] <= submitted'
    <3> TAKE k \in 1..Len(queue')
    <3>1. CASE k \in 1..Len(queue)
      BY <1>1, <1>2, <1>3, <3>1 DEF OrderInv, Bounded
    <3>2. CASE k = Len(queue) + 1
      BY <1>1, <1>2, <1>3, <3>2
    <3> QED
      BY <1>2, <1>3, <3>1, <3>2
  <2> QED
    BY <1>1, <1>2, <2>1 DEF OrderInv, Bounded
<1>5. \A k \in 1..Len(queue') - 1 : queue'[k + 1] = queue'[k] + 1
  <2> TAKE k \in 1..Len(queue') - 1
  <2>1. CASE k = Len(queue)
    <3>1. k \in 1..Len(queue) /\ queue # <<>>
      BY <1>2, <1>3, <2>1
    <3>2. queue[k] = submitted
      BY <2>1, <3>1 DEF OrderInv, NewestWait
    <3> QED
      BY <1>3, <2>1, <3>1, <3>2
  <2>2. CASE k # Len(queue)
    <3>1. k \in 1..Len(queue) - 1 /\ k \in 1..Len(queue) /\ k + 1 \in 1..Len(queue)
      BY <1>2, <1>3, <2>2
    <3> QED
      BY <1>3, <3>1 DEF OrderInv, NewestWait
  <2> QED
    BY <2>1, <2>2
<1>6. row' < queue'[1]
  <2>1. CASE queue = <<>>
    <3>1. queue'[1] = submitted + 1
      BY <1>3, <2>1
    <3> QED
      BY <1>1, <1>2, <3>1 DEF OrderInv, Bounded
  <2>2. CASE queue # <<>>
    <3>1. 1 \in 1..Len(queue)
      BY <2>2, OrderTypes DEF OrderInv
    <3> QED
      BY <1>1, <1>3, <2>2, <3>1 DEF OrderInv, NewestWait
  <2> QED
    BY <2>1, <2>2
<1>7. queue'[Len(queue')] = submitted'
  BY <1>1, <1>3
<1> QED
  BY <1>4, <1>5, <1>6, <1>7 DEF NewestWait

\* A push to a full queue loses the oldest row and continues the rest.
LEMMA OrderShift ==
  ASSUME OrderInv, Submit, ~stopping, Full
  PROVE  NewestWait' /\ Bounded'
<1>1. /\ row' = row /\ submitted' = submitted + 1 /\ stopping' = stopping
      /\ queue' = Append(Tail(queue), submitted + 1)
  BY DEF Submit, Pushed
<1>2. /\ Len(queue) \in Nat \ {0} /\ submitted \in Nat /\ row \in Nat
      /\ \A k \in 1..Len(queue) : queue[k] \in Nat \ {0}
      /\ queue # <<>>
  BY OrderTypes, JournalAssumption DEF OrderInv, Full
<1>3. /\ Len(queue') = Len(queue)
      /\ queue'[Len(queue)] = submitted + 1
      /\ \A k \in 1..Len(queue) - 1 : queue'[k] = queue[k + 1]
  <2>1. Tail(queue) \in Seq(Nat \ {0}) /\ Len(Tail(queue)) = Len(queue) - 1
    BY <1>2, RestOfQueue DEF OrderInv
  <2>2. \A k \in 1..Len(queue) - 1 : Tail(queue)[k] = queue[k + 1]
    BY <1>2 DEF OrderInv, TypeOK
  <2> QED
    BY <1>1, <1>2, <2>1, <2>2
<1>4. queue[Len(queue)] = submitted /\ row < queue[1]
  BY <1>2 DEF OrderInv, NewestWait
<1>5. Bounded'
  <2>1. \A k \in 1..Len(queue') : queue'[k] <= submitted'
    <3> TAKE k \in 1..Len(queue')
    <3>1. CASE k \in 1..Len(queue) - 1
      <4>1. k + 1 \in 1..Len(queue) /\ queue'[k] = queue[k + 1]
        BY <1>2, <1>3, <3>1
      <4>2. queue[k + 1] <= submitted /\ queue[k + 1] \in Nat
        BY <1>2, <4>1 DEF OrderInv, Bounded
      <4> QED
        BY <1>1, <1>2, <4>1, <4>2
    <3>2. CASE k = Len(queue)
      BY <1>1, <1>2, <1>3, <3>2
    <3> QED
      BY <1>2, <1>3, <3>1, <3>2
  <2> QED
    BY <1>1, <1>2, <2>1 DEF OrderInv, Bounded
<1>6. \A k \in 1..Len(queue') - 1 : queue'[k + 1] = queue'[k] + 1
  <2> TAKE k \in 1..Len(queue') - 1
  <2>1. queue'[k] = queue[k + 1]
    BY <1>2, <1>3
  <2>2. CASE k + 1 = Len(queue)
    BY <1>2, <1>3, <1>4, <2>1, <2>2
  <2>3. CASE k + 1 # Len(queue)
    <3>1. k + 1 \in 1..Len(queue) - 1
      BY <1>2, <1>3, <2>3
    <3>2. queue'[k + 1] = queue[k + 1 + 1] /\ queue[k + 1 + 1] = queue[k + 1] + 1
      BY <1>3, <3>1 DEF OrderInv, NewestWait
    <3> QED
      BY <2>1, <3>2
  <2> QED
    BY <2>2, <2>3
<1>7. row' < queue'[1]
  <2>1. CASE Len(queue) = 1
    BY <1>1, <1>2, <1>3, <2>1 DEF OrderInv, Bounded
  <2>2. CASE Len(queue) # 1
    <3>0. Len(queue) \in Nat \ {0}
      BY <1>2
    <3>1. 1 \in 1..Len(queue) - 1 /\ 1 \in 1..Len(queue)
      BY <2>2, <3>0, PastTheFirst, Zenon
    <3>2. queue'[1] = queue[1] + 1
      BY <1>3, <3>1 DEF OrderInv, NewestWait
    <3>3. queue[1] \in Nat
      BY <1>2, <3>1
    <3>4. row' < queue[1] /\ row' \in Nat
      BY <1>1, <1>2, <1>4
    <3> QED
      BY <3>2, <3>3, <3>4
  <2> QED
    BY <2>1, <2>2
<1>8. queue'[Len(queue')] = submitted'
  BY <1>1, <1>3
<1> QED
  BY <1>5, <1>6, <1>7, <1>8 DEF NewestWait

\* A submission that is refused changes nothing but the counters.
LEMMA OrderRefused ==
  ASSUME OrderInv, Submit, stopping
  PROVE  NewestWait' /\ Bounded'
<1>1. /\ row' = row /\ submitted' = submitted + 1 /\ stopping' = stopping
      /\ queue' = queue
  BY DEF Submit
<1>2. Bounded'
  BY <1>1, OrderTypes DEF OrderInv, Bounded
<1> QED
  BY <1>1, <1>2 DEF OrderInv, NewestWait

\* The worker takes the oldest row.
LEMMA OrderTake ==
  ASSUME OrderInv, Take
  PROVE  NewestWait' /\ Bounded'
<1>1. /\ queue # <<>> /\ row' = Head(queue) /\ queue' = Tail(queue)
      /\ submitted' = submitted /\ stopping' = stopping
  BY DEF Take
<1>2. /\ Len(queue) \in Nat \ {0} /\ submitted \in Nat
      /\ \A k \in 1..Len(queue) : queue[k] \in Nat \ {0}
  BY <1>1, OrderTypes DEF OrderInv
<1>3. /\ row' = queue[1]
      /\ Len(queue') = Len(queue) - 1
      /\ \A k \in 1..Len(queue) - 1 : queue'[k] = queue[k + 1]
  <2>1. row' = queue[1]
    BY <1>1 DEF OrderInv, TypeOK
  <2>2. Len(queue') = Len(queue) - 1
    BY <1>1, RestOfQueue DEF OrderInv
  <2>3. \A k \in 1..Len(queue) - 1 : queue'[k] = queue[k + 1]
    BY <1>1, <1>2 DEF OrderInv, TypeOK
  <2> QED
    BY <2>1, <2>2, <2>3
<1>4. Bounded'
  <2>1. 1 \in 1..Len(queue) /\ \A k \in 1..Len(queue') : k + 1 \in 1..Len(queue)
    BY <1>2, <1>3
  <2>2. \A k \in 1..Len(queue') : k \in 1..Len(queue) - 1
    BY <1>2, <1>3
  <2> QED
    BY <1>1, <1>3, <2>1, <2>2 DEF OrderInv, Bounded
<1>5. \A k \in 1..Len(queue') - 1 : queue'[k + 1] = queue'[k] + 1
  <2> TAKE k \in 1..Len(queue') - 1
  <2>1. k \in 1..Len(queue) - 1 /\ k + 1 \in 1..Len(queue) - 1
    BY <1>2, <1>3
  <2>2. queue'[k] = queue[k + 1] /\ queue'[k + 1] = queue[k + 1 + 1]
    BY <1>3, <2>1
  <2>3. queue[k + 1 + 1] = queue[k + 1] + 1
    BY <2>1 DEF OrderInv, NewestWait
  <2> QED
    BY <2>2, <2>3
<1>6. ASSUME queue' # <<>>
      PROVE  row' < queue'[1]
  <2>1. Len(queue') # 0
    BY <1>1, <1>6, RestOfQueue DEF OrderInv
  <2>2. 1 \in 1..Len(queue) - 1 /\ 1 \in 1..Len(queue)
    BY <1>2, <1>3, <2>1
  <2>3. queue'[1] = queue[1] + 1
    BY <1>3, <2>2 DEF OrderInv, NewestWait
  <2> QED
    BY <1>2, <1>3, <2>2, <2>3
<1>7. ASSUME ~stopping', queue' # <<>>
      PROVE  queue'[Len(queue')] = submitted'
  <2>1. Len(queue') # 0
    BY <1>1, <1>7, RestOfQueue DEF OrderInv
  <2>2. Len(queue) - 1 \in 1..Len(queue) - 1
    BY <1>2, <1>3, <2>1
  <2>3. queue'[Len(queue) - 1] = queue[Len(queue)]
    BY <1>2, <1>3, <2>2
  <2>4. queue[Len(queue)] = submitted
    BY <1>1, <1>7 DEF OrderInv, NewestWait
  <2> QED
    BY <1>1, <1>3, <2>3, <2>4
<1> QED
  BY <1>4, <1>5, <1>6, <1>7 DEF NewestWait

\* The row leaves the worker's hands.
LEMMA OrderWrite ==
  ASSUME OrderInv, WriteSucceeds \/ WriteFails
  PROVE  NewestWait' /\ Bounded'
<1>1. /\ row' = 0 /\ queue' = queue /\ submitted' = submitted
      /\ stopping' = stopping
  BY DEF WriteSucceeds, WriteFails
<1>2. Bounded'
  BY <1>1, OrderTypes DEF OrderInv, Bounded
<1>3. ASSUME queue # <<>>
      PROVE  0 < queue[1]
  <2>1. 1 \in 1..Len(queue)
    BY <1>3, OrderTypes DEF OrderInv
  <2> QED
    BY <2>1, OrderTypes DEF OrderInv
<1> QED
  BY <1>1, <1>2, <1>3 DEF OrderInv, NewestWait

\* The shutdown empties the queue or leaves it alone.
LEMMA OrderClear ==
  ASSUME OrderInv, Clear
  PROVE  NewestWait' /\ Bounded'
<1>1. queue' = <<>> /\ row' = row /\ submitted' = submitted
  BY DEF Clear
<1> QED
  BY <1>1 DEF OrderInv, NewestWait, Bounded

\* A step that touches neither the rows nor their order.
LEMMA OrderSame ==
  ASSUME OrderInv,
         \/ Start \/ WorkerEnds \/ Join \/ JoinTimesOut \/ Return \/ Close \/ Stop
         \/ UNCHANGED vars
  PROVE  NewestWait' /\ Bounded'
<1>1. /\ queue' = queue /\ row' = row /\ submitted' = submitted
      /\ ~stopping' => ~stopping
  BY DEF Start, WorkerEnds, Join, JoinTimesOut, Return, Close, Stop, vars
<1> QED
  BY <1>1 DEF OrderInv, NewestWait, Bounded

\* What waits are the newest rows in the order they came, and what the worker
\* writes is older: the drop policy costs the oldest telemetry and nothing is
\* reordered.
THEOREM NewestRowsWait == Spec => []NewestWait
<1>1. Init => NewestWait /\ Bounded
  BY DEF Init, NewestWait, Bounded
<1>2. OrderInv /\ [Next]_vars => NewestWait' /\ Bounded'
  <2> SUFFICES ASSUME OrderInv, [Next]_vars
               PROVE  NewestWait' /\ Bounded'
    OBVIOUS
  <2>1. CASE Submit
    BY <2>1, OrderAppend, OrderShift, OrderRefused
  <2>2. CASE Take
    BY <2>2, OrderTake
  <2>3. CASE WriteSucceeds \/ WriteFails
    BY <2>3, OrderWrite
  <2>4. CASE Clear
    BY <2>4, OrderClear
  <2>5. CASE Start \/ WorkerEnds \/ Join \/ JoinTimesOut \/ Return \/ Close \/ Stop
             \/ UNCHANGED vars
    BY <2>5, OrderSame
  <2> QED
    BY <2>1, <2>2, <2>3, <2>4, <2>5 DEF Next, Worker, Shutdown
<1>3. TypeOK /\ NewestWait /\ Bounded /\ [Next]_vars => NewestWait' /\ Bounded'
  BY <1>2 DEF OrderInv
<1> QED
  BY <1>1, <1>3, TypeCorrect, PTL DEF Spec

----------------------------------------------------------------------------
\* A worker that has ended left nothing behind.
EndedEmpty == worker = "ended" => stopping /\ queue = <<>>

\* Rows are abandoned only by a join that timed out or a worker never started.
THEOREM AbandonedOnlyOnTimeout == Spec => AbandonsOnlyOnTimeout
<1>1. Init => EndedEmpty
  BY DEF Init, EndedEmpty
<1>2. TypeOK /\ EndedEmpty /\ [Next]_vars => EndedEmpty'
  <2> SUFFICES ASSUME TypeOK, EndedEmpty, [Next]_vars
               PROVE  EndedEmpty'
    OBVIOUS
  <2>1. CASE Submit \/ Clear
    BY <2>1 DEF Submit, Clear, EndedEmpty
  <2>2. CASE Start \/ Take \/ WriteSucceeds \/ WriteFails \/ WorkerEnds
    BY <2>2 DEF Start, Take, WriteSucceeds, WriteFails, WorkerEnds, Finished,
                EndedEmpty
  <2>3. CASE Stop \/ Join \/ JoinTimesOut \/ Return \/ Close \/ UNCHANGED vars
    BY <2>3 DEF Stop, Join, JoinTimesOut, Return, Close, vars, EndedEmpty
  <2> QED
    BY <2>1, <2>2, <2>3 DEF Next, Worker, Shutdown
<1>3. TypeOK /\ EndedEmpty /\ [Next]_vars
        => [abandoned' > abandoned => worker # "ended"]_vars
  <2> SUFFICES ASSUME TypeOK, EndedEmpty, [Next]_vars, worker = "ended"
               PROVE  ~(abandoned' > abandoned)
    OBVIOUS
  <2>0. abandoned \in Nat
    BY DEF TypeOK
  <2>1. CASE Clear
    BY <2>0, <2>1 DEF Clear, EndedEmpty
  <2>2. CASE ~Clear
    <3>1. abandoned' = abandoned
      BY <2>2 DEF Next, Worker, Shutdown, Start, Submit, Take, WriteSucceeds,
                  WriteFails, WorkerEnds, Stop, Join, JoinTimesOut, Return, Close, vars,
                  counters
    <3> QED
      BY <2>0, <3>1
  <2> QED
    BY <2>1, <2>2
<1> QED
  BY <1>1, <1>2, <1>3, TypeCorrect, PTL DEF Spec, AbandonsOnlyOnTimeout
=============================================================================
