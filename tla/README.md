# Verification of the BTC prediction tool's paper-trading core

This directory holds TLA+ modules of the repository's paper-trading engine
(`backend/binance_paper/`), the TLC configurations that check them on small
instances, and proofs that the TLA+ proof system checks for every instance.

## 1. Inventory

The repository is a BTC prediction tool: a Python backend that ingests exchange
feeds, makes forecasts and trades them on paper, a browser frontend, recorders
for research data, and a large body of research and training code.

| part | source | state it keeps | operations | modelled |
|---|---|---|---|---|
| paper service | `binance_paper/service.py` | pending intents, unwind markers, run flags, latest snapshot | `initialize`, `on_book`, `run`, `start_engine`, `pause_engine`, `update_strategy`, `close_position`, `close_all`, `shutdown` | `PaperService` |
| maintenance journal | `service.py`, class `_MaintenanceJournal` | bounded queue, worker thread, counters | `start`, `submit`, `_run`, `stop` | `MaintenanceJournal` |
| paper ledger | `binance_paper/persistence.py`, `portfolio.py` | accounts, positions, trades, funding events, order events (DuckDB) | `open_position`, `mark_positions`, `apply_observed_funding`, `close_position`, `append_order_event`, `cancel_orphan_pending_orders`, `reconcile_or_raise` | `PaperAccount`; the order table in `PaperService` |
| capital governor, loss limits | `governor.py`, `risk_engine.py`, `net_pnl_since` | none of its own; reads accounts, trades, intents, feed | `evaluate`, `evaluate_entry` | `GovernorModes`, `PaperGovernor` |
| fill simulator, post-fill geometry | `fill_simulator.py`, `post_fill_geometry.py` | none | `simulate`, its verdict | as choices of `PaperService` |
| market adapter, sample window | `market_adapter.py`, `sample_window.py` | last book, samples, drop counter | `ingest_book`, `snapshot` with `contiguous_tail`, `trade_count_window` | `MarketFeed` |
| registry, configuration, strategies | `strategy_registry.py`, `config.py`, `strategies/` | enabled flags, risk limits | `update` | the enabled flag |
| signed-position engine | `engine.py`, `store.py`, `quant_platform/risk_engine.py` | netted position in memory; orders, funding and position rows; kill switch, `position_known` | `submit_market`, `apply_funding`, `set_paper_enabled`, `reconcile`, restart | `PaperEngine`, `OrderOnce` |
| trading authority, control auth | `trading_authority.py`, `control_auth.py` | expiring grants in memory; the configured token | arm, disarm, check | not modelled: no module calls the first; the second is one comparison per request |
| supervisor, training lease | `task_supervisor.py`, `training_pipeline_lease.py` | restart counts; the lease file | start, fail, back off; `acquire`, `release` | the lease: `TrainingLease` |
| feed writer | `feed_writer.py` | trade lane, depth lane, worker thread, counters | `start`, `submit`, `submit_depth`, `_drain`, `stop` | `FeedWriter` |
| model promotion, revision ledger | `model_promotion.py`, `promote_challenger.py`, `model_revision_ledger.py` | artifact pointers | stage, promote, roll back | not yet |
| recorders, venues | `venues/`, `polymarket/`, `capture_app/` | order books with sequence numbers, archive files | diff, snapshot, resync, rotate | not yet |
| quant platform | `quant_platform/` | event bus, hash-chained audit ledger, risk engine | publish, append, verify, `evaluate` | `RiskEngine.evaluate`, inside `PaperEngine` |
| prediction verifier | `prediction_verifier.py` | predictions awaiting settlement | settle | not yet |
| server, database, ingestion | `server.py`, `database.py`, `data_ingestion.py` | sockets, tables, the aggregate-trade watermark | callbacks, HTTP, `_poll_aggregate_trade_counts` | the book stream and the trade poll, in `MarketFeed`; the rest is I/O around handlers that are modelled |
| models, features, research, frontend | the rest | - | - | not modelled: numerical code and presentation, no protocol |

### How the parts of the paper engine interact

`data_ingestion._emit` calls `BinancePaperService.on_book` synchronously for
every book and swallows its exceptions (`data_ingestion.py:311`). The server
runs `run()` as a task that evaluates the strategies, and serves the HTTP
handlers. All three take one re-entrant lock, so handlers do not overlap; what
interleaves is whole handlers, over state that outlives them: an intent queued
by one is filled by another hundreds of milliseconds later. Every transition of
an order is both a change of `_pending` in memory and a row in DuckDB. A crash
can fall between any two of those writes, and any write can fail. The journal's
worker is the one true concurrent thread of this service.

Three parts beside it are shared by threads or processes. The feed writer
(`server.py` starts and stops it and submits from the WebSocket callbacks) is a
queue with one worker thread. The training lease is one file that processes of
`auto_finetune.py` create and delete. The signed-position engine `engine.py`
(one position per instrument, positive or negative) is a library with a lock of
its own that `set_paper_enabled` and `reconcile` do not take; in the repository
only its tests call it. `MarketFeed` is upstream of the paper service: the adapter it
models makes the snapshot that `on_book` and `run` read.

### Which behaviours are hard

- orders of one strategy queued by three callers, filled later, under gates
  that moved in between (slots, authority);
- memory and table out of step after a failed write or a crash;
- exits that must happen in the end although books are stale, fills are
  rejected, the gate is off or another strategy's entry raises first;
- the six money columns of an account, each written by several transactions;
- settlements of funding seen many times, late, or for an older position;
- loss limits measured over a window that a position spans, and added up over
  strategies;
- a bounded queue that is full, or that is being drained for shutdown while a
  write hangs; two lanes that must not starve each other;
- a restart of a writer whose old thread is still in a write;
- a lease whose owner died before writing it, and two processes that take over
  the same dead lease;
- a retried order around a crash; a switch or a comparison that does not take
  the lock of what it is about;
- books reordered, repeated or lost, and counts polled on another path.

`PROJECT.json` lists each of these hazards at its line, with the properties
aimed at it, and those no property covers yet.

## 2. Modules

| module | what it is |
|---|---|
| `PaperAccount` | the ledger: four transactions on accounts, positions, trades, funding |
| `GovernorModes` | the governor's decision ladder, a function from facts to a mode |
| `PaperLifecycle` | abstract specification: what the service promises about a strategy |
| `PaperService` | the service: intents, order table, positions, gates, crashes; implements `PaperLifecycle`, uses `GovernorModes` |
| `PaperGovernor` | the loss limits: measure, aggregate, gates; uses `GovernorModes` |
| `MaintenanceJournal` | the audit queue, its worker and the shutdown |
| `OrderOnce` | abstract specification: an order id is answered once, and the exposure moves by the answers |
| `PaperEngine` | the signed-position engine and its store; implements `OrderOnce` |
| `FeedWriter` | the two lanes, their worker, stops and restarts |
| `TrainingLease` | the lease file and the processes that want it |
| `MarketFeed` | the feed client's book and trade paths, the adapter, the sample window |
| `MCPaperAccount`, `MCPaperService`, `MCPaperGovernor`, `MCPaperEngine`, `MCTrainingLease` | values for the constants, symmetry |
| `...Proofs` | the theorems about the module they extend |

### PaperAccount

Money is integer; quantities, prices, rates and leverage come from small sets.
The columns are those of `binance_paper_accounts` (`account` holds the ones that
an equation ties together, `totals` the running sums), a position has the fee,
the margin, the settlements it has been charged and their sum. `trades` holds
the sums over the closed trades. `OpenPosition`, `MarkPositions`, `ApplyFunding`
and `ClosePosition` are the four transactions; each writes every column its
`UPDATE` writes. All strategies trade one symbol, so a mark or a settlement
moves all open positions in one transaction. `Advance` is the feed: a settlement
may be reported at any later time, and again.

### PaperService

`mode` says who holds the lock and how far it is; a handler is several steps
because the process may die between any two database writes (`Crash`). A step is
one database transaction with the memory changes around it. `orders` is the set
of orders whose last row is `PENDING`; `positions` are the open rows; `pending`
is `_pending`. Correspondence:

- `on_book`: `BookArrives`, then for each due intent one of `CancelDue`,
  `RejectDue`, `FillEntry`, `FillEntryRaises`, `FillExit`, `IntentRaises`, after
  a fill `Unwind` for the markers and `Reverse`, then `SkipMaintenance` or
  `Maintain` (mark, funding, governor, cancellation of entries) and a
  `QueueExit` per leaving position, `BookDone`. `BookWriteFails` is any other
  failed write: nothing is committed and the callback raises. The intents due on
  one book are taken by age; entry and exit of one tick in either order, as the
  milliseconds decide.
- An order's transitions follow `validate_order_transition`: from no event only
  PENDING or REJECTED, so an intent whose PENDING row was not written
  (`~Mirrored`) can still be rejected (`RejectDue`), but its cancellation or its
  fill raises (`IntentRaises`, `CancelEntries`). An exit is filled only on a fresh
  book, so a stale one never makes it raise.
- `run`: `StartEvaluation`, `Evaluate` per strategy, `EvaluationFails`,
  `EvaluationDone`. An exception sets `_integrity_error` under no lock, then writes
  an event, then stops the engine: `Latch`, and `StopEngine` or, when the event
  cannot be written, `LatchFails`, after which the supervisor starts `run` again
  with the engine still active. HTTP handlers come in between (`LockFree`); books
  do not, as `run` does not yield there.
- handlers: `StartEngine`, `PauseEngine`, `UpdateStrategy`, `ClosePosition`
  (and each iteration of `close_all`).
- process: `Initialize`, `CancelOrphan` per orphaned row, `RecoveryDone`,
  `Shutdown`, `Crash`.

Abstractions. Time is the age of intents in ticks, a tick at least
`sample_interval_ms`, so `sampled` (the portfolio was maintained in this tick)
is one bit. What an account has lost is one level, `loss`, chosen when positions
are marked; `PaperGovernor` is where it comes from, and the facts `ruined`,
`invalid` and `starved` are left to it. Whether a stop, a target or a thesis
closes a position, whether an entry's price limits hold and whether a fill is
admissible are choices. Order and position ids are reused once terminal. The
first statement of `update_strategy` (memory) and its write are one step.

### PaperGovernor

One strategy's account is cash (available plus margin), the open position's
gain, and `accrued`, what that position has paid so far. `today` and `week` are
the sums over trades that exited in the period, which is what `net_pnl_since`
selects (a trade that entered in the period has exited in it too). `dayStart`
and `weekStart` are history: the equity at the boundary that the code says it
does not have. Severity is computed as in `governor.py` by cross-multiplying
integers. A settlement of funding is one transaction over the open positions,
with amount 0 for those charged before. Risk limits do not change while the model runs; order sizes and
margins are left to `PaperAccount`.

### MaintenanceJournal

Rows are numbered as they are submitted. The worker holds one row while it
writes outside the condition. `Stop`, `Join` or `JoinTimesOut`, `Clear`,
`Return` (the counters are read) and `Close` are the steps of `stop()` and
`shutdown()`; the timeout may expire at any
time while the thread lives. Any thread may submit, as the class allows; in the
service all submissions come from under the service lock. One start and one stop
per object.

### PaperEngine and OrderOnce

`orders` and `funding` are the tables in the order of their commits, `row` the
position row; `position`, `kill`, `known` are the engine's fields. `Submit` is
`submit_market` up to `commit_order`, under the lock; `work` is what it is about
to commit. `Commit`, `CommitFails`, `Assign` are the transaction, its rollback
and the assignment after it; between any two of them the process may die or
`SetPaperEnabled`, `ReconcileRead`, `ReconcileCompare` and `ReconcileAssign` may
run, because those do not take the lock. The comparison of the seven fields is one
step: where an assignment falls between two fields, one that differs also differs
from the position before it or from the one after it. `Restart` loads the row and compares it with `Replay`, which
applies the fills by timestamp and id as the code does: `Replayed` is the last of
them applied to what the others leave. Quantities and money are integers in a
unit fine enough that no average entry is rounded, which is what the constants
`MaxSize` and `Grid` say (`GridAssumption`): an entry that n fills lead to is a
multiple of `Grid[n]`, and so is the price of every book. Any finite set of
prices meets it in a small enough unit; in the instance `Grid` is 3600, 60, 1.
The code's tolerance of 1e-8 is then equality. The walk through
the book is a price, a depth and whether the slippage bound admits the fill.
A request repeated with its id changes nothing, so it is a stutter.
`OrderOnce` knows an answer per id and an exposure.

### FeedWriter

Jobs are numbered as they are submitted. A worker is `taking`, `writing`
(outside the lock), `counted` or `leaving`; there is one per call of `start()`
that made a thread, because a thread that outlives the timeout of `stop()` goes
on. The condition variable's wait is not a step: a worker with nothing to take
is simply not enabled. A submission takes a number whether it is enqueued, takes
the place of a waiting book or is dropped, and `count` has a counter for each.
`ghost` records who passed whom and in which order writes
ended; no guard reads it.

### TrainingLease

`file` is the lease on disk with the process and attempt that created it (its
token), whether it is written, and whether it is older than 30 s. A process goes
through the steps of `acquire` and `release` one system call at a time.
`overtaken` remembers that an `unlink` removed a lease other than the one judged,
or one whose creator was alive. Each process acquires once; process ids are not
reused.

### MarketFeed

The venue stamps and numbers books; the network delivers any book sent, at any
time and again. A message may lack its `update_id`. `Deliver` is the WebSocket
callback with `ingest_book` inside, `PollReceived` an answer of the aggregate-trade
endpoint that lists the trades from any one up to the watermark's successor to
the newest it knows: it may repeat trades counted before, and the watermark drops
them. One answer lists a trade once. The windows a snapshot publishes
(`History`, `Complete`, `TradeCount`) are functions of the samples. `received`,
`seed` and `takenAt` are history.

## 3. Runs

| run | instance and bounds | shows |
|---|---|---|
| `account` | 1 strategy, 2 prices, 2 leverages, settlements at times 1..3 reported in any order, 2 trades | columns reconcile, cash conserved, realized equals trades, drawdown lag, one charge per settlement |
| `service` | 2 strategies, 3 orders, 2 positions, 2 loss levels, 1 crash or shutdown, 1 failed write | slots, mirror of memory and table (exact until a write fails), authority of entries; the service implements `PaperLifecycle` |
| `service_live` | 1 strategy, 2 orders, 1 position, 1 crash or shutdown, no failed write; `Ttl` 3 lies beyond the overdue rule (`OverdueAfter` 2), so the rule is what ends an entry that cannot open | orders settle, held positions close, emergencies flatten |
| `governor` | 2 strategies with different daily limits, 3 days with a Monday (`DaysPerWeek` 2), 2 trades, funding paid | error of the measure, bound of the loss of a period, the aggregate halts only on a breach, finality of the drawdown limit |
| `journal` | queue of 2, 5 rows | accounting, progress, and that shutdown returns |
| `paper_engine` | 3 orders, 1 settlement, 3 requests (buy, sell through zero, reduce), 3 books with equal and reversed timestamps, two loss windows | books agree in memory, row and replayed value; one late fill; reductions reduce; why a position becomes unknown; the engine implements `OrderOnce` |
| `feed_writer` | lanes of 2, budget 2, 2 keys, 4 jobs, 2 starts, 2 stops | no submission or job uncounted, order of writes, neither lane starves, an accepting writer is served, a stop drains |
| `training_lease` | 4 processes, 2 attempts | exclusion unless overtaken; a lone process is refused only by a young unwritten lease |
| `market_feed` | time 0..4, interval 2, gap 3, window 2, 2 samples, 3 books, 3 trades, answers of 2 rows, rows repeated | the quote is the newest, history is time, the count is true |
| `service_unwind`, `service_stuck`, `engine_restart` | small | three of the disagreements of section 6 |

Why the bounds are enough. A service hazard needs at most one order in flight,
the position it would collide with and one more order (three ids), and one crash
or one failed write; two strategies interact only
through the loop over due intents, through the governor and through the shared
market. A settlement repeated and one reported after the next is three times. A
loss limit needs two losing trades in a day and a position over the boundary. A
queue of two distinguishes head, tail and overflow, and five rows fill it, drain
it and fill it again. The engine needs a fill, one that passes it by timestamp
and one to net against; three orders and a settlement give that before and after
a restart. The writer needs a job in hand, a full lane and a job in the other;
two starts give an old thread beside a new one. A lease is overtaken by the
second of two judges of a dead owner, and a fourth process meets the result. A
hole in the samples needs a pause longer than the gap within the horizon, and
the runs reach complete windows with two trades, holes, evictions and drops.
Two samples admit one hole only, so this run does not tell
the first hole from the last; `HistoryIsElapsedTime` covers every length.
Every theorem of section 5 removes the bound for the
property it proves.

`service_live` has one strategy. With two and no restart, `IntentResolves` (one
loss level) and `EmergencyFlattens` hold as well: an exit behind another
strategy's entry that raises waits until the TTL or the overdue rule ends that
entry, and younger entries stand behind it. The state graph is larger by a factor
of five to ten, so these instances are not kept. `HeldPositionCloses` does not
hold with two strategies: while an entry raises (the cash no longer covers its
margin), the callback ends before maintenance queues an exit for another
strategy's position, and an operator who pauses and resumes the engine before a
book can end that entry, so that the next evaluation replaces it, each time,
keeps maintenance out for ever. With an operator who does not, the book that
ends the entry reaches maintenance.

`CHECK_DEADLOCK FALSE` stands where the model stops on purpose: the bounded time
and trades of `PaperAccount` and `PaperGovernor`, the journal, which is done
once it is closed, the orders of `PaperEngine` and the jobs, starts and stops of
`FeedWriter`, which are used up, and the processes of `TrainingLease`, each of
which acquires once.

Each cfg gives values to constants only. Strategies and ids are a symmetry of the
safety run of the service; its liveness runs use none. `service_live` runs
the whole service.

## 4. Fairness

`FairSpec` of `PaperService`:

- weak fairness of the handler that holds the lock: code runs on;
- strong fairness of `Tick`: time passes, although a tick waits for the lock;
- strong fairness of a healthy book when the portfolio has not been maintained
  in this tick, and when an exit is due: the feed is not stale exactly at those
  moments for ever (the feed's watchdogs reconnect it);
- strong fairness of exit fills: a market that is asked again and again fills.

No fairness is assumed of requests, signals, crashes or writes that fail.

`FairSpec` of `MaintenanceJournal`: the shutting-down thread runs on. The worker may
hang in a write for ever; only `RowsResolve` assumes that it does not, as the
antecedent `WorkerFairness`.

`FairSpec` of `FeedWriter`: weak fairness of each thread's steps, so that a
running worker goes on and its writes return; callers owe nothing. `StopDrains`
is the one property that uses it, and it says nothing of a write that hangs.

## 5. What is proved

All proofs hold for every value of the constants that satisfies the named
assumptions of the module. Every type invariant, safety invariant, action
property and refinement that a passing run checks is also a theorem. The
assumptions are types and positive bounds, and beyond those:

- `GovernorAssumption`: at least one strategy, finitely many (`governor.py` calls
  a portfolio without accounts invalid);
- `LeaseAssumption`: at least two attempts (`range(2)`, one to clear a dead lease
  and one to create); with one attempt a lone process may be refused;
- `GridAssumption` of `PaperEngine`: no average of entries is rounded (section 2).
  Of the properties proved, only the worth of the position in `BooksAgree` needs it.

Several arguments are inductions over a finite set or over the numbers. The
induction theorems of the library cannot be instantiated by the provers, so the
modules derive what they need from minimal elements of the well-founded order on
the numbers, stated for a set in place of a predicate: `NumberInduction`,
`SubsetInduction` (one element at a time), and from it that the folds of the
community modules exist and satisfy their equations (`FoldExists`, `SumExists`).

- `PaperAccountProofs`: the type invariant; `Reconciles` (so no restart between
  two commits refuses to start), `CashConserved`, `RealizedMatchesTrades`,
  `DrawdownLagsByEntryFee`, `FundingOnce`. These are inductive together: each
  column equation is about one strategy and needs the position to carry what was
  charged to it, which is why one invariant `Inv` joins them.
- `PaperServiceProofs`: the type invariant; `SlotExclusion`; `LifecycleSpec`, the
  refinement; `DurableMirror`; `EntryAuthority`, with `LatchIsRecorded` (the handler of an
  exception in `run` is under way only with the latch set). Slots are not inductive as they
  stand: a handler in the middle of `evaluate`, `post` or `exits` acts on what an
  earlier step established, so the strengthening says what each mode knows of the
  intents, the markers and the positions. The refinement uses slots: a phase is a
  function of a strategy's slot only because at most one thing occupies it.
  `EntryAuthority` rests on the mirror: closing a gate cancels the pending
  entries one by one and stops at an intent without a row, which only a failed
  write leaves.
- `PaperGovernorProofs`: the type invariant; `PeriodDrift`, from a ledger
  equation between the trades of a period and the cash; `PeriodLossBounded`, from
  "while a position is open the trades of the period are within the limit";
  `DrawdownIsFinal`, from the drawdown column never falling; `OnlyABreachHalts`,
  from two facts about sums over any finite set: a total is linear in its terms,
  and positive if all of them are. If no strategy has reached a limit of its own,
  every term of "limit less loss" is positive. For the drawdown this needs the
  same limit for all, as the property says: the governor weighs the limits by the
  stakes and the losses not at all.
- `MaintenanceJournalProofs`: the type invariant; `EveryRowCounted`; and two
  properties that no run spends time on: `NewestWait` (the rows that wait are the
  newest, in order) and `AbandonsOnlyOnTimeout`.
- `PaperEngineProofs`: the type invariant; `OneLateFill`; `ReduceOnlyReduces`;
  `OrderOnceSpec`, the refinement; `BooksAgree`; `UnknownHasCause`. `IInv` says
  what `work` holds in each stage in terms of the position it was computed from,
  because a commit is judged by a row that the submission has not written yet.
  `BookInv` is about the tables: a column of the row is the sum of the order rows
  or the funding rows; the worth of the row (cash less quantity times entry) is
  the capital less each fill's fee and notional, plus funding, which is what makes
  the value independent of the order of the fills (`FillKeepsWorth`, by cases on a
  fill that opens, adds, reduces, closes or turns); and while the commits are in
  the order of the timestamps the replay is the row itself, because the replay of
  one more and later fill is that fill applied to the replay (`ReplayOfLater`),
  and payments commute with fills (`PaymentsCommute`). `UnknownHasCause` adds what
  `reconcile` carries from its comparison to its assignment (`VerdictSound`), and
  that a later commit puts no fills in order (`OrderIsLost`).
- `FeedWriterProofs`: the type invariant; `NeitherStarves`, from the budget of the
  one living worker; `AcceptingIsServed`, from where the sentinels stand;
  `WritesInOrder`, from an invariant that orders what was written, the job in
  hand, and the lane behind it, and from there being at most one worker alive;
  `NoJobLost`, from counting the submissions, the jobs in the lanes and in the threads' hands, with
  the sentinels, one per `stop()` at most, that a report may count as jobs.
- `TrainingLeaseProofs`: `ExclusiveUnlessOvertaken`, for any number of processes
  and attempts. The invariant says that a lease about to be unlinked, if it is
  still the judged one, has a dead owner or stayed unwritten for 30 s, and that
  every process past its creation finds its own token in the file, written or not
  as its step says, until somebody is overtaken. `LoneIsServed` is about the steps that
  refuse: `acquire` refuses on a young unreadable lease, on a living owner or
  after its last attempt. For a process alone the second cannot be, and it is on
  its first attempt until it has unlinked a lease, after which it creates its own
  (`Refusals`, `LoneRefusal`).
- `MarketFeedProofs`: `QuoteIsNewest`, `HistoryIsTime`, `TradeCountIsTrue`. The first needs that the
  venue's numbers follow its clock, so that a book compared by time and a book
  compared by id are never passed over for an older one; the second that samples
  are an interval apart and that `contiguous_tail` starts after the last hole; the
  third that a sample's count lies between the trades taken before its instant and
  those taken up to it, and that the trades taken are an interval of ids that ends
  at the watermark.

Only model-checked: liveness and everything under fairness, as no prover here
deals with `ENABLED`: `IntentResolves`, `HeldPositionCloses`, `EmergencyFlattens`,
`RowsResolve`, `ShutdownReturns`, `StopDrains`.

## 6. Where code and comments disagree

Each of these has a counterexample; the first three have a run that finds it.

1. `service_unwind`: `service.py:688` says a dead position "is UNWOUND". The
   unwind is queued once; if the simulator rejects it, it is never queued again.
2. `service_stuck`: an intent enters `_pending` before its row is written
   (`service.py:583`). If the insert of an exit fails, each book on which the
   simulator fills that exit raises before marks, funding and exits, against
   `service.py:282`. A rejection by the simulator (a stale book, transport lag,
   missing or thin depth) is a legal first event (`schemas.py:44`), deletes the
   intent and lets maintenance go on, and so does a restart; on a market that is
   liquid at each book neither comes, and the position stays open.
3. `engine_restart`: `replay_position` sorts fills by timestamp and id, not by
   commit (`store.py:379`). Two fills of equal or reversed timestamps replay in
   another order, so a restart of the "Restart-safe" engine (`engine.py:1`) does
   not know its undamaged position and refuses every order, reductions included,
   against `quant_platform/risk_engine.py:91`.
4. `UnwindsOnlyDead` (`PaperService`): the unwind marker (`service.py:709`)
   survives the rollback of the transaction it was set in, and unwinds the
   strategy's next position.
5. `ErrsStrict` (`PaperGovernor`): `net_pnl_since` "ERRS STRICT"
   (`persistence.py:1336`), but a gain carried over midnight loosens it.
   `PeriodDrift` gives the exact error; the fees and the funding of a position
   still open are missing from the measure as well.
6. `ReportIsComplete` (`MaintenanceJournal`): after a join timeout the row in the
   worker's hands is in no counter of the stored report (`service.py:73`,
   `service.py:219`).

Smaller ones met while modelling, none of them a run:

- `training_pipeline_lease.py:79` takes care that nothing "would allow two
  owners". Two takers of one dead lease, or a taker and a creator that stalled for
  30 s between creating and writing, can still both own it: `unlink` does not look
  at the file again. `ExclusiveUnlessOvertaken` names exactly these cases.
- `feed_writer.py` says `abandoned` is "exactly how many were lost". It may be one
  more for a job whose write has been counted and is still in flight, and one more
  for the sentinel of an earlier stop. A `stop()` on a writer that does not accept
  leaves a sentinel that ends the next thread at once.
- A retried `funding_id` after the position changed raises "collision", since the
  stored quantity is compared with the present one.
- `data_ingestion.py:434` avoids "calling old trades newly received intensity"
  for the first answer only: after an outage of the poll the whole backlog counts
  at the moment it arrives.
- `sample_interval_ms` may be set up to 60 000 ms, the permitted gap is fixed at
  2000 ms: above it, every two samples are a hole and no strategy has a history.
  The model assumes `Interval <= MaxGap`.
- Without `update_id`, a repeated book of the kept book's time is accepted again.

## 7. Not modelled, and why

Of the parts modelled: the walk through the book (data, no control depends on
more than the choices kept); the operator's change of risk limits while the
engine runs; a second `initialize` of the same service object after `shutdown`;
the registry's memory running ahead of its row when its write fails; equity
snapshots and metrics (read by no decision); the perpetual CVD bars, reconnects
with backoff and a local clock that runs backwards; reuse of process ids.

Of the repository: the supervisor's restarts with backoff; the recorders'
sequence gaps and resynchronisation; artifact promotion; the verifier of
predictions; the event bus and the hash-chained ledger. They keep state and could
be modelled; they come after the parts that trade. `trading_authority.py` and
`order_lifecycle.py` have no caller. Models, features, training and research are
numerical code, most of the repository by lines, with no protocol to check, and
the frontend is presentation.

## 8. Plan

Done: all modules of section 2 and their proofs.

Next, in this order:

1. `OrderBookRecorder`: sequence gaps and resynchronisation; abstract: a book
   that is shown is the exchange's book at some past moment.
2. `TaskSupervisor`: restarts with backoff beside `TrainingLease`.
3. `ModelPromotion`: crash between the steps of an artifact swap.
4. `MarketFeed` composed with `PaperService`: the `stale` choice of a book derived
   from the quote's age.
5. Proofs: that the modules composed keep the governor's facts (`PaperGovernor`
   refines the `loss` level of `PaperService`).
