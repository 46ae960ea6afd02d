----------------------------- MODULE MarketFeed -----------------------------
(***************************************************************************)
(* The market data of the paper service, from the venue to the snapshot a  *)
(* decision reads.  Two paths run side by side: books arrive over the      *)
(* WebSocket (data_ingestion.py) and are kept and sampled by the adapter   *)
(* (market_adapter.py); aggregate trades are polled over REST and only     *)
(* their running count is kept, which every sample copies.  The windows a  *)
(* snapshot publishes are those of sample_window.py.                       *)
(*                                                                         *)
(* The network may delay, reorder and repeat books (a lost one is never    *)
(* delivered), and a poll may fail.  The local clock does not run          *)
(* backwards here.                                                         *)
(***************************************************************************)
EXTENDS Integers, Sequences, FiniteSets, FiniteSetsExt

CONSTANTS
  Interval,     \* sample_interval_ms
  Stale,        \* quote_stale_ms
  MaxGap,       \* DEFAULT_MAX_GAP_MS
  Window,       \* the sixty seconds of agg_trade_count_60s
  Keep,         \* samples retained (the deque's maxlen)
  Limit,        \* rows of one answer of the aggregate-trade endpoint
  Horizon, MaxBooks, MaxDrops, MaxTrades      \* bounds of the instance

\* An interval longer than the gap would make a hole of every two samples.
ASSUME FeedAssumption ==
  /\ {Interval, Stale, MaxGap, Window, Keep, Limit} \subseteq Nat \ {0}
  /\ {Horizon, MaxBooks, MaxDrops, MaxTrades} \subseteq Nat
  /\ Interval <= MaxGap

VARIABLES
  now,          \* the local clock
  sent,         \* the books the venue has sent
  last,         \* _last_book, or NoBook
  samples,      \* _samples
  drops,        \* stale_book_drops
  watermark,    \* _last_perp_agg_trade_id, or NoTrade
  count,        \* agg_trade_message_count
  \* what really happened, read by the properties only
  received,     \* every book that was delivered
  seed,         \* the newest trade before counting began
  takenAt       \* when each trade was counted

bookVars  == <<sent, last, samples, drops, received>>
tradeVars == <<watermark, count, seed, takenAt>>
vars      == <<now, bookVars, tradeVars>>

NoBook   == [seq |-> 0]
NoTrade  == -1

\* `seq' is the place in the venue's order; the message carries it as its
\* update_id, but not every message has one.
Book == [seq : 1..MaxBooks, ts : 0..Horizon, hasId : BOOLEAN]

Newest == samples[Len(samples)]

TypeOK ==
  /\ now \in 0..Horizon
  /\ sent \subseteq Book /\ received \subseteq sent
  /\ \/ last = NoBook
     \/ \E b \in received : last = [book |-> b, seq |-> b.seq, recv |-> last.recv]
  /\ samples \in Seq([ts : 0..Horizon, event : 0..Horizon, count : 0..MaxTrades])
  /\ Len(samples) <= Keep
  /\ drops \in 0..MaxDrops
  /\ watermark \in {NoTrade} \cup 0..MaxTrades
  /\ count \in 0..MaxTrades
  /\ seed \in {NoTrade} \cup 0..MaxTrades

Init ==
  /\ now = 0
  /\ sent = {} /\ last = NoBook /\ samples = <<>> /\ drops = 0
  /\ watermark = NoTrade /\ count = 0
  /\ received = {} /\ seed = NoTrade /\ takenAt = <<>>

Tick ==
  /\ now < Horizon
  /\ now' = now + 1
  /\ UNCHANGED <<bookVars, tradeVars>>

-----------------------------------------------------------------------------
(* Books *)

\* The venue stamps and sends a book.
VenueBook(hasId) ==
  /\ Cardinality(sent) < MaxBooks
  /\ sent' = sent \cup {[seq |-> Cardinality(sent) + 1, ts |-> now, hasId |-> hasId]}
  /\ UNCHANGED <<now, last, samples, drops, received, tradeVars>>

\* Mutant: books without an update_id are taken as they come.
BehindById(b, kept) == b.hasId /\ kept.hasId /\ b.seq <= kept.seq

\* Two books are compared by update_id when both carry one, else by the time
\* of their events.
Behind(b, kept) ==
  IF b.hasId /\ kept.hasId THEN b.seq <= kept.seq ELSE b.ts < kept.ts

\* Mutant: the interval is measured from the last book, not the last sample.
SampleDueSinceBook == samples = <<>> \/ now - last.recv >= Interval

SampleDue == samples = <<>> \/ now - Newest.ts >= Interval

Retain(s) == IF Len(s) > Keep THEN Tail(s) ELSE s

Drop ==
  /\ drops < MaxDrops
  /\ drops' = drops + 1
  /\ UNCHANGED <<last, samples>>

Accept(b) ==
  /\ last' = [book |-> b, seq |-> b.seq, recv |-> now]
  /\ samples' =
       IF SampleDue
       THEN Retain(Append(samples, [ts |-> now, event |-> b.ts, count |-> count]))
       ELSE samples
  /\ UNCHANGED drops

IngestBook(b) ==
  IF last # NoBook /\ Behind(b, last.book) THEN Drop ELSE Accept(b)

\* A book reaches the client, late or for the second time perhaps, and the
\* client hands it to the adapter at once.
Deliver(b) ==
  /\ received' = received \cup {b}
  /\ IngestBook(b)
  /\ UNCHANGED <<now, sent, tradeVars>>

-----------------------------------------------------------------------------
(* Aggregate trades *)

\* The venue numbers its trades from 1.  The rows of an answer written when it
\* had executed `asOf' of them: the newest when the request named no id, else
\* those `from' an id on.  An answer lists a trade once.
Rows(from, asOf) ==
  IF watermark = NoTrade
  THEN Max({1, asOf - Limit + 1}) .. asOf
  ELSE from .. Min({from + Limit - 1, asOf})

\* The first answer is backlog: it sets the watermark and counts nothing.
Seed(rows) ==
  /\ watermark' = IF rows = {} THEN watermark ELSE Max(rows)
  /\ seed' = watermark'
  /\ UNCHANGED <<count, takenAt>>

\* Mutant: rows that were counted before are counted again.
TakeAllRows(rows) ==
  /\ watermark' = IF rows = {} THEN watermark ELSE Max(rows \cup {watermark})
  /\ count' = count + Cardinality(rows)
  /\ takenAt' = [r \in DOMAIN takenAt \cup rows |->
                   IF r \in rows THEN now ELSE takenAt[r]]
  /\ UNCHANGED seed

TakeRows(rows) ==
  LET accepted == {r \in rows : r > watermark} IN
  /\ watermark' = IF accepted = {} THEN watermark ELSE Max(accepted)
  /\ count' = count + Cardinality(accepted)
  /\ takenAt' = [r \in DOMAIN takenAt \cup accepted |->
                   IF r \in accepted THEN now ELSE takenAt[r]]
  /\ UNCHANGED seed

\* An answer arrives.  The request asks for what follows the watermark; the
\* answer may begin earlier, as a repeated or cached one does, and it shows any
\* number of trades the venue may have executed when it wrote it.  A poll that
\* fails changes nothing here.
PollReceived(from, asOf) ==
  /\ watermark # NoTrade => from <= watermark + 1
  /\ IF watermark = NoTrade THEN Seed(Rows(from, asOf)) ELSE TakeRows(Rows(from, asOf))
  /\ UNCHANGED <<now, bookVars>>

Next ==
  \/ Tick
  \/ \E hasId \in BOOLEAN : VenueBook(hasId)
  \/ \E b \in sent : Deliver(b)
  \/ \E from, asOf \in 1..MaxTrades : PollReceived(from, asOf)

Spec == Init /\ [][Next]_vars

-----------------------------------------------------------------------------
(* What a snapshot taken now publishes *)

Healthy == last # NoBook /\ now - last.recv <= Stale

\* contiguous_tail: the samples since the most recent hole.
Hole(i) == samples[i].ts - samples[i - 1].ts > MaxGap

History ==
  SubSeq(samples, Max({1} \cup {i \in 2..Len(samples) : Hole(i)}), Len(samples))

\* trade_count_window: the samples inside the window, the span they cover and
\* the trades counted between the first and the last of them.
Eligible == {i \in 1..Len(samples) : samples[i].ts >= now - Window}
First    == samples[Min(Eligible)]
Complete ==
  /\ Cardinality(Eligible) >= 2
  /\ 100 * (Newest.ts - First.ts) >= 95 * Window
TradeCount == Newest.count - First.count

-----------------------------------------------------------------------------
(* The quote is the newest of all the books that were delivered, in the    *)
(* venue's order and whatever the network did to them: no book of a later  *)
(* event was passed over for it, and while every message carries an        *)
(* update_id none of a later id either.  (market_adapter.ingest_book,      *)
(* "MONOTONIC EXCHANGE ORDER".)                                            *)
QuoteIsNewest ==
  /\ received # {} => last # NoBook
  /\ \A b \in received :
       /\ b.ts <= last.book.ts
       /\ (\A c \in received : c.hasId) => b.seq <= last.seq

(* In the published history the distance of two samples is elapsed time:   *)
(* neighbours are at least an interval and at most the permitted gap       *)
(* apart, and the quotes they hold follow the venue's clock.  It reaches   *)
(* up to now while the quote is healthy: the newest sample is then less    *)
(* than an interval older than a quote that is not stale.  Nor is history  *)
(* thrown away without reason: the newest sample is always less than an    *)
(* interval older than the kept quote, so a hole opens only where no book  *)
(* was accepted for more than MaxGap - Interval.  (sample_window.py: index *)
(* distance means elapsed time.)                                           *)
HistoryIsTime ==
  /\ \A i \in 1..Len(History) - 1 :
       /\ History[i + 1].ts - History[i].ts \in Interval..MaxGap
       /\ History[i].event <= History[i + 1].event
  /\ last # NoBook => /\ History # <<>>
                      /\ last.recv - Newest.ts \in 0..(Interval - 1)
  /\ Healthy => now - Newest.ts < Stale + Interval

(* A published trade count is the number of trades counted in its window,  *)
(* each of them once, none skipped, and none of the backlog of the first   *)
(* poll among them, although polls fail, are answered in part and end      *)
(* between any two samples.  (Trades counted in the very instant of the    *)
(* first or the last sample may fall on either side of it.)                *)
Counted(from, to) == {r \in DOMAIN takenAt : takenAt[r] \in from..to}

TradeCountIsTrue ==
  /\ watermark # NoTrade => DOMAIN takenAt = (seed + 1)..watermark
  /\ Complete =>
       TradeCount \in Cardinality(Counted(First.ts + 1, Newest.ts - 1))
                        .. Cardinality(Counted(First.ts, Newest.ts))
=============================================================================
