-------------------------- MODULE MarketFeedProofs --------------------------
(***************************************************************************)
(* Proofs about MarketFeed, for every choice of the intervals and bounds:  *)
(* the kept quote is the newest of the delivered books, the published      *)
(* history may be read by position, and a published trade count is that of *)
(* its window.  The first rests on the venue alone: it numbers its books   *)
(* one by one and its clock does not run backwards, so the two orders the  *)
(* adapter compares agree.  The second rests on the first, for samples     *)
(* hold the quotes, and on the newest sample never falling an interval     *)
(* behind the quote.  The third rests on every answer of the trade poll    *)
(* continuing where the one before it ended.                               *)
(***************************************************************************)
EXTENDS MarketFeed, FiniteSetTheorems, WellFoundedInduction, TLAPS

Books == [seq : Nat, ts : Nat, hasId : BOOLEAN]

\* What the venue guarantees.
VenueOrder ==
  /\ now \in Nat
  /\ sent \subseteq Books
  /\ IsFiniteSet(sent)
  /\ \A b \in sent : 1 <= b.seq /\ b.seq <= Cardinality(sent) /\ b.ts <= now
  /\ \A a, b \in sent : a.seq <= b.seq => a.ts <= b.ts

Kept == [book : Books, seq : Nat, recv : Nat]

\* What the adapter keeps is a delivered book.
KeptIsDelivered ==
  /\ received \subseteq sent
  /\ last # NoBook => /\ last \in Kept
                      /\ last.book \in received
                      /\ last.seq = last.book.seq

OrderInv == VenueOrder /\ KeptIsDelivered /\ QuoteIsNewest

LEMMA InitOrder == Init => OrderInv
  BY FS_EmptySet DEF Init, OrderInv, VenueOrder, KeptIsDelivered, QuoteIsNewest

\* A new book gets the next number and the present time.
LEMMA VenueKeepsOrder ==
  ASSUME OrderInv, NEW hasId \in BOOLEAN, VenueBook(hasId)
  PROVE  OrderInv'
<1> DEFINE new == [seq |-> Cardinality(sent) + 1, ts |-> now, hasId |-> hasId]
<1>1. /\ sent' = sent \cup {new}
      /\ UNCHANGED <<now, last, received>>
  BY DEF VenueBook
<1>2. Cardinality(sent) \in Nat
  BY FS_CardinalityType DEF OrderInv, VenueOrder
<1>3. new \in Books /\ new.seq = Cardinality(sent) + 1 /\ new.ts = now
  BY <1>2 DEF Books, OrderInv, VenueOrder
<1> HIDE DEF new
<1>4. new \notin sent
  BY <1>2, <1>3 DEF OrderInv, VenueOrder, Books
<1>5. IsFiniteSet(sent') /\ Cardinality(sent') = Cardinality(sent) + 1
  BY <1>1, <1>4, FS_AddElement DEF OrderInv, VenueOrder
<1>6. VenueOrder'
  <2>1. \A b \in sent' : 1 <= b.seq /\ b.seq <= Cardinality(sent') /\ b.ts <= now
    BY <1>1, <1>2, <1>3, <1>5 DEF OrderInv, VenueOrder, Books
  <2>2. ASSUME NEW a \in sent', NEW b \in sent', a.seq <= b.seq
        PROVE  a.ts <= b.ts
    <3>1. CASE b = new
      BY <1>1, <1>3, <3>1 DEF OrderInv, VenueOrder, Books
    <3>2. CASE b # new /\ a = new
      BY <1>1, <1>2, <1>3, <2>2, <3>2 DEF OrderInv, VenueOrder, Books
    <3>3. CASE b # new /\ a # new
      BY <1>1, <2>2, <3>3 DEF OrderInv, VenueOrder
    <3> QED
      BY <3>1, <3>2, <3>3
  <2> QED
    BY <1>1, <1>3, <1>5, <2>1, <2>2 DEF OrderInv, VenueOrder
<1>7. KeptIsDelivered' /\ QuoteIsNewest'
  BY <1>1 DEF OrderInv, KeptIsDelivered, QuoteIsNewest
<1> QED
  BY <1>6, <1>7 DEF OrderInv

\* The book that loses the comparison is not newer than the kept one.
LEMMA BehindIsOlder ==
  ASSUME OrderInv, NEW b \in sent, last # NoBook, Behind(b, last.book)
  PROVE  /\ b.ts <= last.book.ts
         /\ b.hasId /\ last.book.hasId => b.seq <= last.seq
<1>1. last.book \in sent /\ last.book \in Books /\ b \in Books /\ last.seq = last.book.seq
  BY DEF OrderInv, VenueOrder, KeptIsDelivered
<1> QED
  BY <1>1 DEF Behind, OrderInv, VenueOrder, Books

\* The book that wins it is not older.
LEMMA AheadIsNewer ==
  ASSUME OrderInv, NEW b \in sent, last # NoBook, ~Behind(b, last.book)
  PROVE  /\ last.book.ts <= b.ts
         /\ b.hasId /\ last.book.hasId => last.seq <= b.seq
<1>1. last.book \in sent /\ last.book \in Books /\ b \in Books /\ last.seq = last.book.seq
  BY DEF OrderInv, VenueOrder, KeptIsDelivered
<1> QED
  BY <1>1 DEF Behind, OrderInv, VenueOrder, Books

LEMMA DropKeepsNewest ==
  ASSUME OrderInv, NEW b \in sent, received' = received \cup {b},
         last # NoBook, Behind(b, last.book), UNCHANGED <<now, sent, last>>
  PROVE  OrderInv'
<1>1. VenueOrder'
  BY DEF OrderInv, VenueOrder
<1>2. KeptIsDelivered'
  BY DEF OrderInv, KeptIsDelivered
<1>3. /\ b.ts <= last.book.ts
      /\ b.hasId /\ last.book.hasId => b.seq <= last.seq
  BY BehindIsOlder
<1>4. last.book \in received
  BY DEF OrderInv, KeptIsDelivered
<1>5. QuoteIsNewest'
  BY <1>3, <1>4 DEF OrderInv, QuoteIsNewest
<1> QED
  BY <1>1, <1>2, <1>5 DEF OrderInv

LEMMA AcceptKeepsNewest ==
  ASSUME OrderInv, NEW b \in sent, received' = received \cup {b},
         last # NoBook => ~Behind(b, last.book),
         last' = [book |-> b, seq |-> b.seq, recv |-> now],
         UNCHANGED <<now, sent>>
  PROVE  OrderInv'
<1>1. VenueOrder'
  BY DEF OrderInv, VenueOrder
<1>2. b \in Books /\ received \subseteq Books
  BY DEF OrderInv, VenueOrder, KeptIsDelivered
<1>3. /\ last' \in Kept /\ last'.book = b /\ last'.seq = b.seq
      /\ last' # NoBook
  <2>1. 1 <= b.seq
    BY DEF OrderInv, VenueOrder
  <2>2. last'.seq = b.seq /\ NoBook.seq = 0
    BY DEF NoBook
  <2>3. last' # NoBook
    BY <1>2, <2>1, <2>2 DEF Books
  <2>4. last' \in Kept /\ last'.book = b
    BY <1>2 DEF Kept, Books, OrderInv, VenueOrder
  <2> QED
    BY <2>2, <2>3, <2>4
<1>4. KeptIsDelivered'
  BY <1>3 DEF OrderInv, KeptIsDelivered
<1>5. ASSUME NEW c \in received'
      PROVE  /\ c.ts <= b.ts
             /\ (\A d \in received' : d.hasId) => c.seq <= b.seq
  <2>1. CASE c = b
    BY <1>2, <2>1 DEF Books
  <2>2. CASE c \in received
    <3>1. last # NoBook /\ last.book \in received /\ last \in Kept
      BY <2>2 DEF OrderInv, QuoteIsNewest, KeptIsDelivered
    <3>2. /\ last.book.ts <= b.ts
          /\ b.hasId /\ last.book.hasId => last.seq <= b.seq
      BY <3>1, AheadIsNewer
    <3>3. /\ c.ts <= last.book.ts
          /\ (\A d \in received : d.hasId) => c.seq <= last.seq
      BY <2>2 DEF OrderInv, QuoteIsNewest
    <3>4. c \in Books /\ last.book \in Books /\ last.seq \in Nat
      BY <1>2, <2>2, <3>1 DEF Kept
    <3> QED
      BY <1>2, <3>1, <3>2, <3>3, <3>4 DEF Books
  <2> QED
    BY <2>1, <2>2
<1>6. QuoteIsNewest'
  BY <1>3, <1>5 DEF QuoteIsNewest
<1> QED
  BY <1>1, <1>4, <1>6 DEF OrderInv

LEMMA NextOrder == OrderInv /\ [Next]_vars => OrderInv'
<1> SUFFICES ASSUME OrderInv, [Next]_vars PROVE OrderInv'
  OBVIOUS
<1>1. CASE Tick
  <2>1. now' = now + 1 /\ UNCHANGED <<sent, last, received>>
    BY <1>1 DEF Tick, bookVars
  <2>2. VenueOrder'
    BY <2>1 DEF OrderInv, VenueOrder, Books
  <2> QED
    BY <2>1, <2>2 DEF OrderInv, KeptIsDelivered, QuoteIsNewest
<1>2. CASE \E hasId \in BOOLEAN : VenueBook(hasId)
  BY <1>2, VenueKeepsOrder
<1>3. CASE \E b \in sent : Deliver(b)
  <2>1. PICK b \in sent : Deliver(b)
    BY <1>3
  <2>2. received' = received \cup {b} /\ UNCHANGED <<now, sent>>
    BY <2>1 DEF Deliver
  <2>3. CASE last # NoBook /\ Behind(b, last.book)
    <3>1. UNCHANGED last
      BY <2>1, <2>3 DEF Deliver, IngestBook, Drop
    <3> QED
      BY <2>2, <2>3, <3>1, DropKeepsNewest
  <2>4. CASE ~(last # NoBook /\ Behind(b, last.book))
    <3>1. last' = [book |-> b, seq |-> b.seq, recv |-> now]
      BY <2>1, <2>4 DEF Deliver, IngestBook, Accept
    <3> QED
      BY <2>2, <2>4, <3>1, AcceptKeepsNewest
  <2> QED
    BY <2>3, <2>4
<1>4. CASE \E from, asOf \in 1..MaxTrades : PollReceived(from, asOf)
  BY <1>4 DEF PollReceived, bookVars, OrderInv, VenueOrder, KeptIsDelivered, QuoteIsNewest
<1>5. CASE UNCHANGED vars
  BY <1>5 DEF vars, bookVars, OrderInv, VenueOrder, KeptIsDelivered, QuoteIsNewest
<1> QED
  BY <1>1, <1>2, <1>3, <1>4, <1>5 DEF Next

(* However the network delays, reorders and repeats the books, the quote   *)
(* kept by market_adapter.ingest_book is the newest of those delivered.    *)
THEOREM NewestIsKept == Spec => []QuoteIsNewest
<1>1. OrderInv => QuoteIsNewest
  BY DEF OrderInv
<1> QED
  BY <1>1, InitOrder, NextOrder, PTL DEF Spec

-----------------------------------------------------------------------------
(* Largest and smallest elements *)

LEMMA Constants ==
  /\ Interval \in Nat /\ Interval >= 1
  /\ MaxGap \in Nat /\ Stale \in Nat /\ Limit \in Nat
  /\ Keep \in Nat /\ Keep >= 1
  BY FeedAssumption

\* Strict inclusion of finite sets is well founded, so one of the intervals
\* from an element of S up to hi contains no other: the one that starts at
\* the largest element.
LEMMA LargestElement ==
  ASSUME NEW lo \in Int, NEW hi \in Int, NEW S \in SUBSET (lo..hi), S # {}
  PROVE  Max(S) \in S /\ \A x \in S : x <= Max(S)
<1> DEFINE T == {x..hi : x \in S}
           R == StrictSubsetOrdering(lo..hi)
<1>1. T \subseteq FiniteSubsetsOf(lo..hi)
  <2> SUFFICES ASSUME NEW x \in S PROVE x..hi \in FiniteSubsetsOf(lo..hi)
    OBVIOUS
  <2>1. x \in Int /\ x..hi \subseteq lo..hi
    OBVIOUS
  <2>2. IsFiniteSet(x..hi)
    BY <2>1, FS_Interval
  <2> QED
    BY <2>1, <2>2 DEF FiniteSubsetsOf
<1>2. T # {}
  OBVIOUS
<1>3. IsWellFoundedOn(R, FiniteSubsetsOf(lo..hi))
  BY FS_StrictSubsetOrderingWellFounded
<1> HIDE DEF T, R
<1>4. PICK c \in T : \A d \in T : ~ (<<d, c>> \in R)
  BY <1>1, <1>2, <1>3, WFMin
<1>5. PICK m \in S : c = m..hi
  BY <1>4 DEF T
<1>6. \A x \in S : m >= x
  <2> SUFFICES ASSUME NEW x \in S, x > m PROVE FALSE
    OBVIOUS
  <2>1. x..hi \in T
    BY DEF T
  <2>2. x..hi \subseteq m..hi /\ m..hi \subseteq lo..hi /\ m \in m..hi /\ m \notin x..hi
    OBVIOUS
  <2>3. x..hi # m..hi
    BY <2>2
  <2>4. <<x..hi, m..hi>> \in R
    BY <2>2, <2>3 DEF R, StrictSubsetOrdering
  <2> QED
    BY <1>4, <1>5, <2>1, <2>4
<1>7. \E x \in S : \A y \in S : x >= y
  BY <1>6
<1>8. Max(S) \in S /\ \A y \in S : Max(S) >= y
  BY <1>7, Zenon DEF Max
<1> QED
  BY <1>8

LEMMA ExtremeOfTwo ==
  ASSUME NEW a \in Int, NEW b \in Int
  PROVE  Max({a, b}) \in Int /\ Min({a, b}) \in Int
<1>1. (\E x \in {a, b} : \A y \in {a, b} : x >= y) /\ (\E x \in {a, b} : \A y \in {a, b} : x <= y)
  <2>1. CASE a <= b
    BY <2>1
  <2>2. CASE b <= a
    BY <2>2
  <2> QED
    BY <2>1, <2>2
<1>2. Max({a, b}) \in {a, b} /\ Min({a, b}) \in {a, b}
  BY <1>1, Zenon DEF Max, Min
<1> QED
  BY <1>2

-----------------------------------------------------------------------------
(* The samples *)

Sample == [ts : Nat, event : Nat, count : Nat]

CountType == count \in Nat /\ watermark \in Int

Ordered(s) ==
  \A i \in 1..Len(s) - 1 :
    s[i + 1].ts - s[i].ts >= Interval /\ s[i].event <= s[i + 1].event

\* The newest sample is never an interval older than the quote, nor of a
\* later event.
FollowsQuote ==
  /\ last = NoBook <=> samples = <<>>
  /\ last # NoBook => /\ last.recv \in Nat /\ last.recv <= now
                      /\ last.recv - Newest.ts \in 0..(Interval - 1)
                      /\ Newest.event <= last.book.ts

HistInv ==
  /\ OrderInv
  /\ CountType
  /\ samples \in Seq(Sample)
  /\ Ordered(samples)
  /\ FollowsQuote

LEMMA InitHist == Init => HistInv
<1> SUFFICES ASSUME Init PROVE HistInv
  OBVIOUS
<1>1. CountType
  BY DEF Init, CountType, NoTrade
<1>2. samples = <<>> /\ last = NoBook
  BY DEF Init
<1>3. samples \in Seq(Sample) /\ Ordered(samples)
  BY <1>2 DEF Ordered
<1>4. FollowsQuote
  BY <1>2 DEF FollowsQuote
<1> QED
  BY <1>1, <1>3, <1>4, InitOrder DEF HistInv

\* Retaining a sequence that ends in t leaves a sequence that ends in t.
LEMMA RetainKeepsEnd ==
  ASSUME NEW s \in Seq(Sample), s # <<>>, Ordered(s)
  PROVE  /\ Retain(s) \in Seq(Sample) /\ Retain(s) # <<>>
         /\ Retain(s)[Len(Retain(s))] = s[Len(s)]
         /\ Ordered(Retain(s))
<1>1. CASE Len(s) > Keep
  <2>1. Retain(s) = Tail(s) /\ Len(s) >= 2
    BY <1>1, Constants DEF Retain
  <2>2. /\ Tail(s) \in Seq(Sample) /\ Len(Tail(s)) = Len(s) - 1
        /\ \A i \in 1..Len(s) - 1 : Tail(s)[i] = s[i + 1]
    BY <2>1
  <2>3. Ordered(Tail(s))
    <3> SUFFICES ASSUME NEW i \in 1..Len(Tail(s)) - 1
                 PROVE  /\ Tail(s)[i + 1].ts - Tail(s)[i].ts >= Interval
                        /\ Tail(s)[i].event <= Tail(s)[i + 1].event
      BY DEF Ordered
    <3>1. i \in 1..Len(s) - 1 /\ i + 1 \in 1..Len(s) - 1
      BY <2>2
    <3>2. Tail(s)[i] = s[i + 1] /\ Tail(s)[i + 1] = s[(i + 1) + 1]
      BY <2>2, <3>1
    <3> QED
      BY <3>1, <3>2 DEF Ordered
  <2>4. Tail(s)[Len(Tail(s))] = s[Len(s)]
    BY <2>1, <2>2
  <2> QED
    BY <2>1, <2>2, <2>3, <2>4
<1>2. CASE ~(Len(s) > Keep)
  BY <1>2 DEF Retain
<1> QED
  BY <1>1, <1>2

\* A sample taken an interval after the newest extends the order.
LEMMA AppendKeepsOrder ==
  ASSUME NEW s \in Seq(Sample), NEW t \in Sample, Ordered(s),
         s # <<>> => t.ts - s[Len(s)].ts >= Interval /\ s[Len(s)].event <= t.event
  PROVE  Ordered(Append(s, t))
<1> DEFINE a == Append(s, t)
<1>1. /\ a \in Seq(Sample) /\ Len(a) = Len(s) + 1 /\ a[Len(s) + 1] = t
      /\ \A i \in 1..Len(s) : a[i] = s[i]
  OBVIOUS
<1> HIDE DEF a
<1> SUFFICES ASSUME NEW i \in 1..Len(a) - 1
             PROVE  a[i + 1].ts - a[i].ts >= Interval /\ a[i].event <= a[i + 1].event
  BY DEF Ordered, a
<1>2. CASE i = Len(s)
  <2>1. s # <<>> /\ a[i] = s[Len(s)] /\ a[i + 1] = t
    BY <1>1, <1>2
  <2> QED
    BY <2>1
<1>3. CASE i # Len(s)
  <2>1. i \in 1..Len(s) - 1 /\ i \in 1..Len(s) /\ i + 1 \in 1..Len(s)
    BY <1>1, <1>3
  <2>2. a[i] = s[i] /\ a[i + 1] = s[i + 1]
    BY <1>1, <2>1
  <2> QED
    BY <2>1, <2>2 DEF Ordered
<1> QED
  BY <1>2, <1>3

LEMMA AcceptKeepsHistory ==
  ASSUME HistInv, NEW b \in sent, Accept(b), UNCHANGED <<now, count, watermark>>,
         last # NoBook => ~Behind(b, last.book), OrderInv'
  PROVE  HistInv'
<1> DEFINE t == [ts |-> now, event |-> b.ts, count |-> count]
<1>1. /\ last' = [book |-> b, seq |-> b.seq, recv |-> now]
      /\ samples' = IF SampleDue THEN Retain(Append(samples, t)) ELSE samples
  BY DEF Accept
<1>2. now \in Nat /\ b \in Books /\ 1 <= b.seq /\ b.ts \in Nat
  BY DEF HistInv, OrderInv, VenueOrder, Books
<1>3. t \in Sample /\ t.ts = now /\ t.event = b.ts
  BY <1>2 DEF Sample, HistInv, CountType
<1> HIDE DEF t
<1>4. last'.recv = now /\ last'.book = b /\ last' # NoBook
  <2>1. last'.seq = b.seq /\ NoBook.seq = 0
    BY <1>1 DEF NoBook
  <2>2. b.seq # 0
    BY <1>2 DEF Books
  <2>3. last' # NoBook
    BY <2>1, <2>2
  <2>4. last'.recv = now /\ last'.book = b
    BY <1>1
  <2> QED
    BY <2>3, <2>4
<1>5. samples \in Seq(Sample) /\ Ordered(samples) /\ CountType
  BY DEF HistInv
<1>6. ASSUME samples # <<>>
      PROVE  /\ Newest \in Sample /\ Newest.ts <= now
             /\ Newest.event <= b.ts
  <2>1. last # NoBook /\ last.recv \in Nat /\ last.recv <= now
        /\ last.recv - Newest.ts \in 0..(Interval - 1) /\ Newest.event <= last.book.ts
    BY <1>6 DEF HistInv, FollowsQuote
  <2>2. Newest \in Sample
    BY <1>5, <1>6 DEF Newest
  <2>3. Newest.ts \in Nat /\ Newest.event \in Nat
    BY <2>2 DEF Sample
  <2>4. Newest.ts <= now
    BY <1>2, <2>1, <2>3, Constants
  <2>5. last.book.ts <= b.ts
    BY <2>1, AheadIsNewer DEF HistInv
  <2>6. last.book.ts \in Nat
    BY <2>1 DEF HistInv, OrderInv, KeptIsDelivered, Kept, Books
  <2> QED
    BY <1>2, <2>1, <2>2, <2>3, <2>4, <2>5, <2>6
<1>7. CASE SampleDue
  <2>1. samples # <<>> => t.ts - Newest.ts >= Interval /\ Newest.event <= t.event
    BY <1>3, <1>6, <1>7 DEF SampleDue
  <2>2. Ordered(Append(samples, t))
    BY <1>3, <1>5, <2>1, AppendKeepsOrder DEF Newest
  <2>3. /\ Append(samples, t) \in Seq(Sample) /\ Append(samples, t) # <<>>
        /\ Append(samples, t)[Len(Append(samples, t))] = t
    BY <1>3, <1>5
  <2>4. /\ samples' \in Seq(Sample) /\ samples' # <<>> /\ Ordered(samples')
        /\ samples'[Len(samples')] = t
    BY <1>1, <1>7, <2>2, <2>3, RetainKeepsEnd
  <2>5. Newest' = t
    BY <2>4 DEF Newest
  <2>6. FollowsQuote'
    BY <1>2, <1>3, <1>4, <2>4, <2>5, Constants DEF FollowsQuote
  <2> QED
    BY <1>5, <2>4, <2>6 DEF HistInv, CountType
<1>8. CASE ~SampleDue
  <2>1. samples' = samples /\ samples # <<>> /\ ~(now - Newest.ts >= Interval)
    BY <1>1, <1>8 DEF SampleDue
  <2>2. Newest' = Newest
    BY <2>1 DEF Newest
  <2>3. Newest.ts \in Nat /\ Newest.ts <= now /\ Newest.event <= b.ts
    BY <1>6, <2>1 DEF Sample
  <2>4. FollowsQuote'
    BY <1>2, <1>4, <2>1, <2>2, <2>3, Constants DEF FollowsQuote
  <2> QED
    BY <1>5, <2>1, <2>4 DEF HistInv, CountType, Ordered
<1> QED
  BY <1>7, <1>8

LEMMA PollKeepsCount ==
  ASSUME CountType, NEW from \in Nat, NEW asOf \in Nat, PollReceived(from, asOf)
  PROVE  CountType'
<1> DEFINE rows == Rows(from, asOf)
<1>1. \E lo, hi \in Int : rows = lo..hi
  <2>1. /\ 1 \in Int /\ asOf \in Int /\ asOf - Limit + 1 \in Int
        /\ from + Limit - 1 \in Int /\ from \in Int
    BY Constants DEF CountType
  <2>2. Max({1, asOf - Limit + 1}) \in Int /\ Min({from + Limit - 1, asOf}) \in Int
    BY <2>1, ExtremeOfTwo, Zenon
  <2> QED
    BY <2>1, <2>2 DEF Rows
<1> HIDE DEF rows
<1>2. rows \subseteq Int /\ IsFiniteSet(rows)
  BY <1>1, FS_Interval
<1>3. ASSUME NEW S \in SUBSET rows, S # {}
      PROVE  Max(S) \in Int
  <2>1. PICK lo, hi \in Int : rows = lo..hi
    BY <1>1
  <2>2. Max(S) \in S
    BY <1>3, <2>1, LargestElement
  <2> QED
    BY <1>2, <2>2
<1>4. CASE watermark = NoTrade
  <2>1. count' = count /\ watermark' = IF rows = {} THEN watermark ELSE Max(rows)
    BY <1>4 DEF PollReceived, Seed, rows
  <2> QED
    BY <1>3, <2>1 DEF CountType
<1>5. CASE watermark # NoTrade
  <2> DEFINE accepted == {r \in rows : r > watermark}
  <2>1. /\ watermark' = IF accepted = {} THEN watermark ELSE Max(accepted)
        /\ count' = count + Cardinality(accepted)
    BY <1>5 DEF PollReceived, TakeRows, rows
  <2>2. IsFiniteSet(accepted)
    BY <1>2, FS_Subset
  <2>3. Cardinality(accepted) \in Nat
    BY <2>2, FS_CardinalityType
  <2>4. accepted \in SUBSET rows
    OBVIOUS
  <2> HIDE DEF accepted
  <2> QED
    BY <1>3, <2>1, <2>3, <2>4 DEF CountType
<1> QED
  BY <1>4, <1>5

LEMMA NextHist == HistInv /\ [Next]_vars => HistInv'
<1> SUFFICES ASSUME HistInv, [Next]_vars PROVE HistInv'
  OBVIOUS
<1>0. OrderInv'
  BY NextOrder DEF HistInv
<1>1. CASE Tick
  <2>1. now' = now + 1 /\ UNCHANGED <<last, samples, count, watermark>>
    BY <1>1 DEF Tick, bookVars, tradeVars
  <2>2. now \in Nat
    BY DEF HistInv, OrderInv, VenueOrder
  <2>3. FollowsQuote'
    BY <2>1, <2>2 DEF HistInv, FollowsQuote, Newest
  <2> QED
    BY <1>0, <2>1, <2>3 DEF HistInv, CountType, Ordered
<1>2. CASE \E hasId \in BOOLEAN : VenueBook(hasId)
  <2>1. UNCHANGED <<now, last, samples, count, watermark>>
    BY <1>2 DEF VenueBook, tradeVars
  <2> QED
    BY <1>0, <2>1 DEF HistInv, CountType, Ordered, FollowsQuote, Newest
<1>3. CASE \E b \in sent : Deliver(b)
  <2>1. PICK b \in sent : Deliver(b)
    BY <1>3
  <2>2. UNCHANGED <<now, count, watermark>>
    BY <2>1 DEF Deliver, tradeVars
  <2>3. CASE last # NoBook /\ Behind(b, last.book)
    <3>1. UNCHANGED <<last, samples>>
      BY <2>1, <2>3 DEF Deliver, IngestBook, Drop
    <3> QED
      BY <1>0, <2>2, <3>1 DEF HistInv, CountType, Ordered, FollowsQuote, Newest
  <2>4. CASE ~(last # NoBook /\ Behind(b, last.book))
    <3>1. Accept(b)
      BY <2>1, <2>4 DEF Deliver, IngestBook
    <3> QED
      BY <1>0, <2>2, <2>4, <3>1, AcceptKeepsHistory
  <2> QED
    BY <2>3, <2>4
<1>4. CASE \E from, asOf \in 1..MaxTrades : PollReceived(from, asOf)
  <2>1. PICK from \in 1..MaxTrades, asOf \in 1..MaxTrades : PollReceived(from, asOf)
    BY <1>4
  <2>2. UNCHANGED <<now, last, samples>>
    BY <2>1 DEF PollReceived, bookVars
  <2>3. from \in Nat /\ asOf \in Nat
    BY FeedAssumption
  <2>4. CountType'
    BY <2>1, <2>3, PollKeepsCount DEF HistInv
  <2> QED
    BY <1>0, <2>2, <2>4 DEF HistInv, Ordered, FollowsQuote, Newest
<1>5. CASE UNCHANGED vars
  BY <1>0, <1>5 DEF vars, bookVars, tradeVars, HistInv, CountType, Ordered, FollowsQuote, Newest
<1> QED
  BY <1>1, <1>2, <1>3, <1>4, <1>5 DEF Next

\* After the last hole there is none.
LEMMA TailHasNoHole ==
  ASSUME samples \in Seq(Sample), samples # <<>>
  PROVE  /\ Len(History) \in 1..Len(samples)
         /\ \A i \in 1..Len(History) - 1 : \E j \in 1..Len(samples) - 1 :
              /\ History[i] = samples[j] /\ History[i + 1] = samples[j + 1]
              /\ ~Hole(j + 1)
<1> DEFINE n == Len(samples)
           S == {1} \cup {i \in 2..n : Hole(i)}
           m == Max(S)
<1>1. n \in Nat /\ n >= 1
  OBVIOUS
<1>2. S \in SUBSET (1..n) /\ S # {}
  BY <1>1
<1>3. m \in S /\ \A x \in S : x <= m
  <2> HIDE DEF S
  <2>1. 1 \in Int /\ n \in Int
    BY <1>1
  <2>2. Max(S) \in S /\ \A x \in S : x <= Max(S)
    BY <1>2, <2>1, LargestElement, Zenon
  <2> QED
    BY <2>2
<1>4. m \in 1..n
  BY <1>2, <1>3
<1>5. History = SubSeq(samples, m, n)
  BY DEF History
<1>6. \A k \in (m + 1)..n : ~Hole(k)
  <2> SUFFICES ASSUME NEW k \in (m + 1)..n, Hole(k) PROVE FALSE
    OBVIOUS
  <2>1. k \in 2..n
    BY <1>1, <1>4
  <2>2. k \in S
    BY <2>1
  <2> HIDE DEF S, m
  <2> QED
    BY <1>3, <1>4, <2>2
<1> HIDE DEF m, S
<1>7. /\ Len(History) = n - m + 1
      /\ \A i \in 1..(n - m + 1) : History[i] = samples[m + i - 1]
  BY <1>1, <1>4, <1>5
<1>8. ASSUME NEW i \in 1..Len(History) - 1
      PROVE  \E j \in 1..n - 1 : /\ History[i] = samples[j]
                                 /\ History[i + 1] = samples[j + 1]
                                 /\ ~Hole(j + 1)
  <2> DEFINE j == m + i - 1
  <2>1. j \in 1..n - 1 /\ j + 1 \in (m + 1)..n /\ j + 1 = m + (i + 1) - 1
    BY <1>1, <1>4, <1>7
  <2>2. History[i] = samples[j] /\ History[i + 1] = samples[j + 1]
    BY <1>1, <1>4, <1>7, <2>1
  <2>3. ~Hole(j + 1)
    BY <1>6, <2>1
  <2> HIDE DEF j
  <2> QED
    BY <2>1, <2>2, <2>3
<1> QED
  BY <1>1, <1>4, <1>7, <1>8

LEMMA HistoryFollows == HistInv => HistoryIsTime
<1> SUFFICES ASSUME HistInv PROVE HistoryIsTime
  OBVIOUS
<1>1. samples \in Seq(Sample) /\ Ordered(samples) /\ FollowsQuote /\ now \in Nat
  BY DEF HistInv, OrderInv, VenueOrder
<1>2. CASE samples = <<>>
  <2>1. last = NoBook /\ ~Healthy
    BY <1>1, <1>2 DEF FollowsQuote, Healthy
  <2> DEFINE S == {1} \cup {i \in 2..Len(samples) : Hole(i)}
  <2>2. 1 \in Int /\ S \in SUBSET (1..1) /\ S # {}
    BY <1>2
  <2>3. Max(S) \in S
    <3> HIDE DEF S
    <3> QED
      BY <2>2, LargestElement, Zenon
  <2>4. Max(S) = 1
    BY <2>2, <2>3
  <2>5. History = SubSeq(samples, 1, 0)
    BY <1>2, <2>4 DEF History
  <2>6. Len(History) = 0
    BY <1>2, <2>5
  <2> QED
    BY <2>1, <2>6 DEF HistoryIsTime
<1>3. CASE samples # <<>>
  <2>1. last # NoBook /\ last.recv \in Nat /\ last.recv - Newest.ts \in 0..(Interval - 1)
    BY <1>1, <1>3 DEF FollowsQuote
  <2>2. Newest.ts \in Nat
    <3>1. Newest \in Sample
      BY <1>1, <1>3 DEF Newest
    <3> QED
      BY <3>1 DEF Sample
  <2>3. Len(History) \in 1..Len(samples)
    BY <1>1, <1>3, TailHasNoHole
  <2>4. History # <<>>
    BY <1>1, <2>3
  <2>5. Healthy => now - Newest.ts < Stale + Interval
    BY <1>1, <2>1, <2>2, Constants DEF Healthy
  <2>6. ASSUME NEW i \in 1..Len(History) - 1
        PROVE  /\ History[i + 1].ts - History[i].ts \in Interval..MaxGap
               /\ History[i].event <= History[i + 1].event
    <3>1. PICK j \in 1..Len(samples) - 1 :
            /\ History[i] = samples[j] /\ History[i + 1] = samples[j + 1]
            /\ ~Hole(j + 1)
      BY <1>1, <1>3, TailHasNoHole
    <3>2. samples[j + 1].ts - samples[j].ts >= Interval
          /\ samples[j].event <= samples[j + 1].event
      BY <1>1 DEF Ordered
    <3>3. samples[j] \in Sample /\ samples[j + 1] \in Sample
      BY <1>1
    <3>4. samples[j].ts \in Nat /\ samples[j + 1].ts \in Nat
      BY <3>3 DEF Sample
    <3>5. samples[j + 1].ts - samples[j].ts <= MaxGap
      BY <3>1, <3>4, Constants DEF Hole
    <3> QED
      BY <3>1, <3>2, <3>4, <3>5, Constants
  <2> QED
    BY <2>1, <2>4, <2>5, <2>6 DEF HistoryIsTime
<1> QED
  BY <1>2, <1>3

(* The published history has no hole, follows the venue's clock, reaches   *)
(* up to a healthy quote, and is cut only where the feed was silent        *)
(* (market_adapter.snapshot with sample_window.contiguous_tail).           *)
THEOREM HistoryIsElapsedTime == Spec => []HistoryIsTime
  BY InitHist, NextHist, HistoryFollows, PTL DEF Spec
-----------------------------------------------------------------------------
(* The trade count *)

\* The trades counted before time t, and up to it; their number, and a sample whose
\* count is true at its time: every trade of an earlier time and none of a later one.
Before(f, t) == {r \in DOMAIN f : f[r] < t}

UpTo(f, t) == {r \in DOMAIN f : f[r] <= t}

Within(f, from, to) == {r \in DOMAIN f : f[r] \in from..to}

TrueAt(f, s) ==
  /\ Cardinality(Before(f, s.ts)) <= s.count
  /\ s.count <= Cardinality(UpTo(f, s.ts))

\* The trades counted are those after the seed, up to the watermark.
TradesInv ==
  /\ IsFiniteSet(DOMAIN takenAt)
  /\ count = Cardinality(DOMAIN takenAt)
  /\ \A r \in DOMAIN takenAt : takenAt[r] \in Nat /\ takenAt[r] <= now
  /\ watermark = NoTrade => DOMAIN takenAt = {}
  /\ watermark # NoTrade => /\ watermark \in Nat /\ seed \in Nat /\ seed <= watermark
                            /\ DOMAIN takenAt = (seed + 1)..watermark

SamplesInv ==
  \A i \in 1..Len(samples) : samples[i].ts <= now /\ TrueAt(takenAt, samples[i])

CountInv == HistInv /\ TradesInv /\ SamplesInv

LEMMA InitCount == Init => CountInv
<1> SUFFICES ASSUME Init PROVE CountInv
  OBVIOUS
<1>1. samples = <<>> /\ DOMAIN takenAt = {} /\ count = 0 /\ watermark = NoTrade
  BY DEF Init
<1>2. TradesInv
  BY <1>1, FS_EmptySet DEF TradesInv
<1>3. SamplesInv
  BY <1>1 DEF SamplesInv
<1> QED
  BY <1>2, <1>3, InitHist DEF CountInv

LEMMA SmallestElement ==
  ASSUME NEW lo \in Int, NEW hi \in Int, NEW S \in SUBSET (lo..hi), S # {}
  PROVE  Min(S) \in S /\ \A x \in S : Min(S) <= x
<1> DEFINE N == {0 - x : x \in S}
<1>1. N \in SUBSET ((0 - hi)..(0 - lo)) /\ N # {} /\ 0 - hi \in Int /\ 0 - lo \in Int
  <2>1. 0 - hi \in Int /\ 0 - lo \in Int
    OBVIOUS
  <2>2. N # {}
    OBVIOUS
  <2>3. \A x \in S : x \in Int /\ lo <= x /\ x <= hi
    OBVIOUS
  <2>4. \A x \in S : 0 - x \in (0 - hi)..(0 - lo)
    BY <2>3
  <2> QED
    BY <2>1, <2>2, <2>4
<1>2. Max(N) \in N /\ \A y \in N : y <= Max(N)
  <2> HIDE DEF N
  <2> QED
    BY <1>1, LargestElement, Zenon
<1>3. PICK m \in S : Max(N) = 0 - m
  BY <1>2
<1>4. \A x \in S : m <= x
  <2> TAKE x \in S
  <2>1. 0 - x \in N
    OBVIOUS
  <2>2. 0 - x <= 0 - m
    BY <1>2, <1>3, <2>1, Zenon
  <2>3. x \in Int /\ m \in Int
    OBVIOUS
  <2> HIDE DEF N
  <2> QED
    BY <2>2, <2>3
<1>5. \E x \in S : \A y \in S : x <= y
  BY <1>4
<1>6. Min(S) \in S /\ \A y \in S : Min(S) <= y
  BY <1>5, Zenon DEF Min
<1> QED
  BY <1>6

\* The two ends of a window and what lies between them, as numbers of trades.
LEMMA BetweenSamples ==
  ASSUME NEW f, IsFiniteSet(DOMAIN f), \A r \in DOMAIN f : f[r] \in Nat,
         NEW a \in Sample, NEW b \in Sample, TrueAt(f, a), TrueAt(f, b), a.ts < b.ts
  PROVE  b.count - a.count \in Cardinality(Within(f, a.ts + 1, b.ts - 1))
                                 .. Cardinality(Within(f, a.ts, b.ts))
<1>0. a.ts \in Nat /\ b.ts \in Nat /\ a.count \in Nat /\ b.count \in Nat
  BY DEF Sample
<1>1. \A t : IsFiniteSet(Before(f, t)) /\ IsFiniteSet(UpTo(f, t))
  <2> TAKE t
  <2>1. Before(f, t) \in SUBSET DOMAIN f /\ UpTo(f, t) \in SUBSET DOMAIN f
    BY DEF Before, UpTo
  <2> QED
    BY <2>1, FS_Subset
<1>2. \A t : Cardinality(Before(f, t)) \in Nat /\ Cardinality(UpTo(f, t)) \in Nat
  BY <1>1, FS_CardinalityType
<1>3. /\ Within(f, a.ts, b.ts) = UpTo(f, b.ts) \ Before(f, a.ts)
      /\ UpTo(f, b.ts) \cap Before(f, a.ts) = Before(f, a.ts)
  BY <1>0 DEF Within, UpTo, Before
<1>4. /\ Within(f, a.ts + 1, b.ts - 1) = Before(f, b.ts) \ UpTo(f, a.ts)
      /\ Before(f, b.ts) \cap UpTo(f, a.ts) = UpTo(f, a.ts)
  BY <1>0 DEF Within, UpTo, Before
<1>5. Cardinality(Within(f, a.ts, b.ts))
        = Cardinality(UpTo(f, b.ts)) - Cardinality(Before(f, a.ts))
  BY <1>1, <1>3, FS_Difference, Zenon
<1>6. Cardinality(Within(f, a.ts + 1, b.ts - 1))
        = Cardinality(Before(f, b.ts)) - Cardinality(UpTo(f, a.ts))
  BY <1>1, <1>4, FS_Difference, Zenon
<1>7. /\ Cardinality(Before(f, a.ts)) <= a.count /\ a.count <= Cardinality(UpTo(f, a.ts))
      /\ Cardinality(Before(f, b.ts)) <= b.count /\ b.count <= Cardinality(UpTo(f, b.ts))
  BY DEF TrueAt
<1> DEFINE ba == Cardinality(Before(f, a.ts))  ua == Cardinality(UpTo(f, a.ts))
           bb == Cardinality(Before(f, b.ts))  ub == Cardinality(UpTo(f, b.ts))
           x == a.count  y == b.count
<1>8. /\ ba \in Nat /\ ua \in Nat /\ bb \in Nat /\ ub \in Nat /\ x \in Nat /\ y \in Nat
      /\ ba <= x /\ x <= ua /\ bb <= y /\ y <= ub
  BY <1>0, <1>2, <1>7
<1> SUFFICES y - x \in (bb - ua)..(ub - ba)
  BY <1>5, <1>6, Zenon
<1> HIDE DEF ba, ua, bb, ub, x, y
<1> QED
  BY <1>8

\* A published trade count is that of its window.
LEMMA CountFollows == CountInv => TradeCountIsTrue
<1> SUFFICES ASSUME CountInv, Complete
             PROVE  TradeCount \in Cardinality(Counted(First.ts + 1, Newest.ts - 1))
                                     .. Cardinality(Counted(First.ts, Newest.ts))
  BY DEF CountInv, TradesInv, TradeCountIsTrue
<1>1. samples \in Seq(Sample) /\ Len(samples) \in Nat
  BY DEF CountInv, HistInv
<1>2. Eligible \in SUBSET (1..Len(samples))
  BY DEF Eligible
<1>3. Eligible # {}
  <2>1. Eligible = {} => Cardinality(Eligible) = 0
    BY FS_EmptySet
  <2> QED
    BY <2>1 DEF Complete
<1>4. Min(Eligible) \in 1..Len(samples)
  <2>1. 1 \in Int /\ Len(samples) \in Int
    BY <1>1
  <2>2. Min(Eligible) \in Eligible
    BY <1>2, <1>3, <2>1, SmallestElement, Zenon
  <2> QED
    BY <1>2, <2>2
<1>5. Len(samples) \in 1..Len(samples)
  BY <1>1, <1>4
<1>6. First \in Sample /\ Newest \in Sample
  BY <1>1, <1>4, <1>5 DEF First, Newest
<1>7. TrueAt(takenAt, First) /\ TrueAt(takenAt, Newest)
  BY <1>4, <1>5 DEF First, Newest, CountInv, SamplesInv
<1>8. First.ts < Newest.ts
  <2>1. Window \in Nat /\ Window >= 1
    BY FeedAssumption
  <2>2. First.ts \in Nat /\ Newest.ts \in Nat
    BY <1>6 DEF Sample
  <2> QED
    BY <2>1, <2>2 DEF Complete
<1>9. \A from, to : Counted(from, to) = Within(takenAt, from, to)
  BY DEF Counted, Within
<1>10. IsFiniteSet(DOMAIN takenAt) /\ \A r \in DOMAIN takenAt : takenAt[r] \in Nat
  BY DEF CountInv, TradesInv
<1>11. Newest.count - First.count
         \in Cardinality(Within(takenAt, First.ts + 1, Newest.ts - 1))
               .. Cardinality(Within(takenAt, First.ts, Newest.ts))
  BY <1>6, <1>7, <1>8, <1>10, BetweenSamples, Zenon
<1> QED
  BY <1>9, <1>11, Zenon DEF TradeCount

\* What a retained sequence holds was in the sequence.
LEMMA RetainKeepsSome ==
  ASSUME NEW s \in Seq(Sample)
  PROVE  \A i \in 1..Len(Retain(s)) : \E j \in 1..Len(s) : Retain(s)[i] = s[j]
<1>1. CASE Len(s) > Keep
  <2>1. /\ Retain(s) = Tail(s) /\ s # <<>>
    BY <1>1, Constants DEF Retain
  <2>2. \A i \in 1..Len(Tail(s)) : i + 1 \in 1..Len(s) /\ Tail(s)[i] = s[i + 1]
    BY <2>1
  <2> QED
    BY <2>1, <2>2
<1>2. CASE ~(Len(s) > Keep)
  BY <1>2 DEF Retain
<1> QED
  BY <1>1, <1>2

\* A sample copies the running count, which is true at this moment.
LEMMA SampleIsTrue ==
  ASSUME CountInv, NEW s \in Sample, s.ts = now, s.count = count
  PROVE  TrueAt(takenAt, s)
<1>1. UpTo(takenAt, now) = DOMAIN takenAt /\ Before(takenAt, now) \in SUBSET DOMAIN takenAt
  BY DEF CountInv, TradesInv, UpTo, Before
<1>2. Cardinality(Before(takenAt, now)) <= Cardinality(DOMAIN takenAt)
  BY <1>1, FS_Subset DEF CountInv, TradesInv
<1>3. count = Cardinality(DOMAIN takenAt) /\ count \in Nat
  BY DEF CountInv, TradesInv, HistInv, CountType
<1> QED
  BY <1>1, <1>2, <1>3 DEF TrueAt

LEMMA AcceptKeepsSamples ==
  ASSUME CountInv, NEW b \in sent, Accept(b), UNCHANGED <<now, takenAt>>
  PROVE  SamplesInv'
<1> DEFINE t == [ts |-> now, event |-> b.ts, count |-> count]
           a == Append(samples, t)
<1>1. samples' = IF SampleDue THEN Retain(a) ELSE samples
  BY DEF Accept
<1>2. now \in Nat /\ b.ts \in Nat /\ count \in Nat /\ samples \in Seq(Sample)
  BY DEF CountInv, HistInv, OrderInv, VenueOrder, Books, CountType
<1>3. t \in Sample /\ t.ts = now /\ t.count = count
  BY <1>2 DEF Sample
<1> HIDE DEF t
<1>4. TrueAt(takenAt, t)
  BY <1>3, SampleIsTrue
<1>5. a \in Seq(Sample) /\ Len(a) = Len(samples) + 1
      /\ \A j \in 1..Len(a) : a[j] = t \/ \E k \in 1..Len(samples) : a[j] = samples[k]
  BY <1>2, <1>3
<1> HIDE DEF a
<1>6. \A j \in 1..Len(a) : a[j].ts <= now /\ TrueAt(takenAt, a[j])
  BY <1>2, <1>3, <1>4, <1>5 DEF CountInv, SamplesInv
<1>7. \A i \in 1..Len(Retain(a)) : \E j \in 1..Len(a) : Retain(a)[i] = a[j]
  BY <1>5, RetainKeepsSome
<1>8. \A i \in 1..Len(samples') : samples'[i].ts <= now /\ TrueAt(takenAt, samples'[i])
  <2>1. CASE SampleDue
    BY <1>1, <1>6, <1>7, <2>1
  <2>2. CASE ~SampleDue
    BY <1>1, <2>2 DEF CountInv, SamplesInv
  <2> QED
    BY <2>1, <2>2
<1> QED
  BY <1>8 DEF SamplesInv

\* Trades counted now make no earlier sample untrue.
LEMMA LaterTradesKeepTruth ==
  ASSUME NEW f, NEW g, NEW A, NEW n \in Nat, NEW s \in Sample, s.ts <= n,
         IsFiniteSet(DOMAIN g), \A r \in DOMAIN f : f[r] \in Nat,
         DOMAIN g = DOMAIN f \cup A, A \cap DOMAIN f = {},
         \A r \in DOMAIN g : g[r] = IF r \in A THEN n ELSE f[r],
         TrueAt(f, s)
  PROVE  TrueAt(g, s)
<1>0. s.ts \in Nat /\ s.count \in Nat
  BY DEF Sample
<1>1. Before(g, s.ts) = Before(f, s.ts)
  BY <1>0 DEF Before
<1>2. UpTo(f, s.ts) \in SUBSET UpTo(g, s.ts)
  BY <1>0 DEF UpTo
<1>3. UpTo(g, s.ts) \in SUBSET DOMAIN g
  BY DEF UpTo
<1>4. IsFiniteSet(UpTo(g, s.ts)) /\ IsFiniteSet(UpTo(f, s.ts))
  BY <1>2, <1>3, FS_Subset
<1>5. Cardinality(UpTo(f, s.ts)) <= Cardinality(UpTo(g, s.ts))
  BY <1>2, <1>4, FS_Subset
<1>6. Cardinality(UpTo(f, s.ts)) \in Nat /\ Cardinality(UpTo(g, s.ts)) \in Nat
  BY <1>4, FS_CardinalityType
<1> QED
  BY <1>0, <1>1, <1>5, <1>6 DEF TrueAt

\* The first answer seeds the watermark with a trade that exists.
LEMMA SeedKeepsCount ==
  ASSUME CountInv, NEW from \in 1..MaxTrades, NEW asOf \in 1..MaxTrades,
         PollReceived(from, asOf), watermark = NoTrade
  PROVE  TradesInv' /\ SamplesInv'
<1>0. asOf \in Nat /\ asOf >= 1 /\ Limit \in Nat /\ Limit >= 1
  BY FeedAssumption
<1> DEFINE lo == Max({1, asOf - Limit + 1})
<1>1. Rows(from, asOf) = lo..asOf /\ lo \in Int /\ lo <= asOf
  <2>1. Rows(from, asOf) = lo..asOf
    BY DEF Rows
  <2>2. {1, asOf - Limit + 1} \in SUBSET ((1 - Limit)..asOf) /\ {1, asOf - Limit + 1} # {}
    BY <1>0
  <2>3. 1 - Limit \in Int /\ asOf \in Int
    BY <1>0
  <2>4. lo \in {1, asOf - Limit + 1}
    BY <2>2, <2>3, LargestElement, Zenon
  <2> HIDE DEF lo
  <2> QED
    BY <1>0, <2>1, <2>4
<1> HIDE DEF lo
<1>2. Max(Rows(from, asOf)) = asOf /\ Rows(from, asOf) # {}
  <2>1. asOf \in Rows(from, asOf)
    BY <1>0, <1>1
  <2>2. Rows(from, asOf) \in SUBSET (lo..asOf) /\ asOf \in Int
    BY <1>0, <1>1
  <2>3. Max(Rows(from, asOf)) \in Rows(from, asOf) /\ \A x \in Rows(from, asOf) : x <= Max(Rows(from, asOf))
    BY <1>1, <2>1, <2>2, LargestElement, Zenon
  <2> DEFINE m == Max(Rows(from, asOf))
  <2>4. m \in lo..asOf /\ asOf <= m
    BY <1>1, <2>1, <2>3
  <2> HIDE DEF m
  <2>5. m = asOf
    BY <1>0, <1>1, <2>4
  <2> QED
    BY <2>1, <2>5 DEF m
<1>3. Seed(Rows(from, asOf)) /\ UNCHANGED <<now, samples>>
  BY DEF PollReceived, bookVars
<1>4. watermark' = asOf /\ seed' = asOf /\ count' = count /\ takenAt' = takenAt
  BY <1>2, <1>3 DEF Seed
<1>5. DOMAIN takenAt = {} /\ (asOf + 1)..asOf = {}
  BY <1>0 DEF CountInv, TradesInv
<1>6. TradesInv'
  BY <1>0, <1>3, <1>4, <1>5 DEF CountInv, TradesInv, NoTrade
<1>7. SamplesInv'
  BY <1>3, <1>4 DEF CountInv, SamplesInv
<1> QED
  BY <1>6, <1>7

\* Of every later answer the rows after the watermark are counted, each of them once;
\* since it begins no later than there, it skips none.
LEMMA RowsKeepCount ==
  ASSUME CountInv, NEW from \in 1..MaxTrades, NEW asOf \in 1..MaxTrades,
         PollReceived(from, asOf), watermark # NoTrade
  PROVE  TradesInv' /\ SamplesInv'
<1> DEFINE hi == Min({from + Limit - 1, asOf})
           A == {r \in Rows(from, asOf) : r > watermark}
<1>0. /\ asOf \in Nat /\ Limit \in Nat /\ watermark \in Nat /\ seed \in Nat
      /\ seed <= watermark /\ now \in Nat /\ count \in Nat
      /\ DOMAIN takenAt = (seed + 1)..watermark /\ IsFiniteSet(DOMAIN takenAt)
      /\ count = Cardinality(DOMAIN takenAt)
      /\ \A r \in DOMAIN takenAt : takenAt[r] \in Nat /\ takenAt[r] <= now
  BY Constants, FeedAssumption
     DEF CountInv, TradesInv, HistInv, OrderInv, VenueOrder, CountType
<1>1. /\ Rows(from, asOf) = from..hi /\ hi \in Int
      /\ from \in Int /\ from <= watermark + 1
  <2>1. /\ from + Limit - 1 \in Int /\ asOf \in Int
        /\ from \in Int /\ from <= watermark + 1
    BY <1>0, FeedAssumption DEF PollReceived
  <2>2. hi \in Int
    BY <2>1, ExtremeOfTwo, Zenon
  <2> QED
    BY <2>1, <2>2 DEF Rows
<1> HIDE DEF hi
<1>2. A = (watermark + 1)..hi
  BY <1>0, <1>1
<1>3. /\ watermark' = IF A = {} THEN watermark ELSE Max(A)
      /\ count' = count + Cardinality(A)
      /\ takenAt' = [r \in DOMAIN takenAt \cup A |-> IF r \in A THEN now ELSE takenAt[r]]
      /\ seed' = seed /\ now' = now /\ samples' = samples
  BY DEF PollReceived, TakeRows, bookVars
<1> HIDE DEF A
<1>4. watermark' = IF hi > watermark THEN hi ELSE watermark
  <2>1. CASE hi > watermark
    <3>1. hi \in A /\ A \in SUBSET ((watermark + 1)..hi) /\ watermark + 1 \in Int
      BY <1>0, <1>1, <1>2, <2>1
    <3>2. Max(A) \in A /\ \A x \in A : x <= Max(A)
      BY <1>1, <3>1, LargestElement, Zenon
    <3> DEFINE m == Max(A)
    <3>3. m \in (watermark + 1)..hi /\ hi <= m
      BY <1>2, <3>1, <3>2
    <3> HIDE DEF m
    <3>4. m = hi
      BY <1>0, <1>1, <3>3
    <3> QED
      BY <1>3, <2>1, <3>1, <3>4 DEF m
  <2>2. CASE ~(hi > watermark)
    <3>1. A = {}
      BY <1>0, <1>1, <1>2, <2>2
    <3> QED
      BY <1>3, <2>2, <3>1
  <2> QED
    BY <2>1, <2>2
<1>5. /\ watermark' \in Nat /\ watermark <= watermark'
      /\ DOMAIN takenAt \cup A = (seed + 1)..watermark' /\ A \cap DOMAIN takenAt = {}
  BY <1>0, <1>1, <1>2, <1>4
<1>6. IsFiniteSet(A) /\ Cardinality(A) \in Nat
  BY <1>0, <1>1, <1>2, FS_Interval, FS_CardinalityType
<1>7. /\ IsFiniteSet(DOMAIN takenAt \cup A)
      /\ Cardinality(DOMAIN takenAt \cup A)
           = Cardinality(DOMAIN takenAt) + Cardinality(A)
  <2>1. DOMAIN takenAt \cap A = {}
    BY <1>5
  <2>2. /\ IsFiniteSet(DOMAIN takenAt \cup A)
        /\ Cardinality(DOMAIN takenAt \cup A)
             = Cardinality(DOMAIN takenAt) + Cardinality(A) - Cardinality(DOMAIN takenAt \cap A)
    BY <1>0, <1>6, FS_Union, Zenon
  <2>3. Cardinality(DOMAIN takenAt \cap A) = 0
    BY <2>1, FS_EmptySet
  <2>4. Cardinality(DOMAIN takenAt) \in Nat
    BY <1>0
  <2> DEFINE c == Cardinality(DOMAIN takenAt)  d == Cardinality(A)
             u == Cardinality(DOMAIN takenAt \cup A)
  <2>5. u = c + d - 0 /\ c \in Nat /\ d \in Nat
    BY <1>6, <2>2, <2>3, <2>4
  <2> HIDE DEF c, d, u
  <2>6. u = c + d
    BY <2>5
  <2> QED
    BY <2>2, <2>6 DEF u, c, d
<1>8. /\ DOMAIN takenAt' = DOMAIN takenAt \cup A
      /\ \A r \in DOMAIN takenAt' : takenAt'[r] = IF r \in A THEN now ELSE takenAt[r]
  BY <1>3
<1>9. TradesInv'
  <2>1. IsFiniteSet(DOMAIN takenAt') /\ count' = Cardinality(DOMAIN takenAt')
    BY <1>0, <1>3, <1>7, <1>8, Zenon
  <2>2. \A r \in DOMAIN takenAt' : takenAt'[r] \in Nat /\ takenAt'[r] <= now'
    BY <1>0, <1>3, <1>8
  <2>3. watermark' # NoTrade
    BY <1>5 DEF NoTrade
  <2>4. /\ watermark' \in Nat /\ seed' \in Nat /\ seed' <= watermark'
        /\ DOMAIN takenAt' = (seed' + 1)..watermark'
    BY <1>0, <1>3, <1>5, <1>8
  <2> QED
    BY <2>1, <2>2, <2>3, <2>4 DEF TradesInv
<1>10. SamplesInv'
  <2> SUFFICES ASSUME NEW i \in 1..Len(samples) PROVE TrueAt(takenAt', samples[i])
    BY <1>3 DEF CountInv, SamplesInv
  <2>1. samples[i] \in Sample
    BY DEF CountInv, HistInv
  <2>2. samples[i].ts <= now /\ TrueAt(takenAt, samples[i])
    BY DEF CountInv, SamplesInv
  <2>3. /\ now \in Nat /\ IsFiniteSet(DOMAIN takenAt')
        /\ \A r \in DOMAIN takenAt : takenAt[r] \in Nat
        /\ DOMAIN takenAt' = DOMAIN takenAt \cup A /\ A \cap DOMAIN takenAt = {}
        /\ \A r \in DOMAIN takenAt' : takenAt'[r] = IF r \in A THEN now ELSE takenAt[r]
    BY <1>0, <1>5, <1>7, <1>8
  <2> DEFINE f == takenAt  g == takenAt'
  <2>4. \A n \in Nat : \A B :
          /\ IsFiniteSet(DOMAIN g) /\ \A r \in DOMAIN f : f[r] \in Nat
          /\ DOMAIN g = DOMAIN f \cup B /\ B \cap DOMAIN f = {}
          /\ \A r \in DOMAIN g : g[r] = IF r \in B THEN n ELSE f[r]
          => \A s \in Sample : s.ts <= n /\ TrueAt(f, s) => TrueAt(g, s)
    BY LaterTradesKeepTruth, Zenon
  <2> QED
    BY <2>1, <2>2, <2>3, <2>4
<1> QED
  BY <1>9, <1>10

LEMMA NextCount == CountInv /\ [Next]_vars => CountInv'
<1> SUFFICES ASSUME CountInv, [Next]_vars PROVE CountInv'
  OBVIOUS
<1>0. HistInv'
  BY NextHist DEF CountInv
<1>1. CASE Tick
  <2>1. now' = now + 1 /\ UNCHANGED <<samples, tradeVars>>
    BY <1>1 DEF Tick, bookVars
  <2>2. now \in Nat /\ samples \in Seq(Sample)
    BY DEF CountInv, HistInv, OrderInv, VenueOrder
  <2>3. TradesInv'
    BY <2>1, <2>2 DEF CountInv, TradesInv, tradeVars
  <2>4. SamplesInv'
    <3>1. \A i \in 1..Len(samples) : samples[i].ts \in Nat
      <4>1. \A i \in 1..Len(samples) : samples[i] \in Sample
        BY <2>2
      <4> QED
        BY <4>1 DEF Sample
    <3> QED
      BY <2>1, <2>2, <3>1 DEF CountInv, SamplesInv, tradeVars
  <2> QED
    BY <1>0, <2>3, <2>4 DEF CountInv
<1>2. CASE (\E hasId \in BOOLEAN : VenueBook(hasId)) \/ UNCHANGED vars
  <2>1. UNCHANGED <<now, samples, watermark, count, seed, takenAt>>
    BY <1>2 DEF VenueBook, vars, bookVars, tradeVars
  <2> QED
    BY <1>0, <2>1 DEF CountInv, TradesInv, SamplesInv
<1>3. ASSUME NEW b \in sent, Deliver(b)
      PROVE  CountInv'
  <2>1. UNCHANGED <<now, watermark, count, seed, takenAt>> /\ IngestBook(b)
    BY <1>3 DEF Deliver, tradeVars
  <2>2. TradesInv'
    BY <2>1 DEF CountInv, TradesInv
  <2>3. CASE last # NoBook /\ Behind(b, last.book)
    <3>1. samples' = samples
      BY <2>1, <2>3 DEF IngestBook, Drop
    <3> QED
      BY <1>0, <2>1, <2>2, <3>1 DEF CountInv, SamplesInv
  <2>4. CASE ~(last # NoBook /\ Behind(b, last.book))
    <3>1. Accept(b)
      BY <2>1, <2>4 DEF IngestBook
    <3> QED
      BY <1>0, <2>1, <2>2, <3>1, AcceptKeepsSamples DEF CountInv
  <2> QED
    BY <2>3, <2>4
<1>4. ASSUME NEW from \in 1..MaxTrades, NEW asOf \in 1..MaxTrades,
         PollReceived(from, asOf)
      PROVE  CountInv'
  <2>1. TradesInv' /\ SamplesInv'
    BY <1>4, SeedKeepsCount, RowsKeepCount
  <2> QED
    BY <1>0, <2>1 DEF CountInv
<1> QED
  BY <1>1, <1>2, <1>3, <1>4 DEF Next

(* Polls that fail, are answered in part or end between two samples skip   *)
(* no trade and count none twice, and a published count is that of its     *)
(* window (_poll_aggregate_trade_counts with trade_count_window).          *)
THEOREM CountsAreTrue == Spec => []TradeCountIsTrue
  BY InitCount, NextCount, CountFollows, PTL DEF Spec
=============================================================================
