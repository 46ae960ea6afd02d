------------------------- MODULE PaperEngineProofs --------------------------
(***************************************************************************)
(* Proofs about PaperEngine for every set of orders, requests, books and   *)
(* funding events.  The inductive invariant describes the submission that  *)
(* holds the lock: until its commit its next position is the durable one   *)
(* plus its own row, and after its commit it is the durable one.  For the  *)
(* books, every fill moves the worth of the position (its cash less what   *)
(* its entry says it costs) by the fill's fee and notional alone, so that  *)
(* the fills may be replayed in any order; and in the order of the commits *)
(* the replay of one more fill is that fill applied to the row.            *)
(***************************************************************************)
EXTENDS PaperEngine, FiniteSetTheorems, TLAPS

\* The submission that holds the lock and has not committed an order yet.
Pending == work # None /\ work.stage = "order"

Exposing == kill /\ Pending /\ work.entry.delta # 0 /\ ~work.entry.request.reduceOnly

\* What a pending order will do to the position.
Sound(r, delta, before, after) ==
  /\ after.quantity = before.quantity + delta
  /\ r.reduceOnly /\ delta # 0 =>
       /\ Size(after.quantity) < Size(before.quantity)
       /\ after.quantity # 0 => SameSide(before.quantity, after.quantity)

Balanced(p) == p.cash = Capital + p.realized - p.fees + p.funding

WorkSound ==
  /\ work # None => up /\ Balanced(work.next)
  /\ Pending =>
       /\ Sound(work.entry.request, work.entry.delta, row, work.next)
       /\ ~Recorded(work.entry.id)
  /\ work # None /\ work.stage = "funding" => work.next.quantity = row.quantity

LateSound ==
  /\ late <= 1
  /\ ~kill => late = 0
  /\ Exposing => late = 0

IInv == TypeOK /\ MemoryIsDurable /\ CashAddsUp /\ WorkSound /\ LateSound

----------------------------------------------------------------------------
(* Lemmas about the operators. *)

\* Appending a row adds exactly that row.
LEMMA RowsOfAppend ==
  ASSUME NEW S, NEW s \in Seq(S), NEW e \in S
  PROVE  ToSet(Append(s, e)) = ToSet(s) \cup {e}
<1>1. /\ Append(s, e) \in Seq(S)
      /\ Len(Append(s, e)) = Len(s) + 1
      /\ \A i \in 1..Len(s) : Append(s, e)[i] = s[i]
      /\ Append(s, e)[Len(s) + 1] = e
  OBVIOUS
<1>2. DOMAIN s = 1..Len(s) /\ DOMAIN Append(s, e) = 1..(Len(s) + 1) /\ Len(s) \in Nat
  BY <1>1
<1>3. 1..(Len(s) + 1) = (1..Len(s)) \cup {Len(s) + 1}
  BY <1>2
<1> QED
  BY <1>1, <1>2, <1>3 DEF ToSet

\* The gain, the entry price and the leverage after a fill are integers.
LEMMA FillIntegers ==
  ASSUME NEW p \in PositionSet, NEW delta \in Int, delta # 0, NEW price \in Nat,
         NEW leverage \in Int
  PROVE  /\ Realized(p, delta, price) \in Int
         /\ Entry(p, delta, price) \in Int
         /\ Leverage(p, delta, leverage) \in Int
<1> DEFINE q == p.quantity
           n == p.entry
<1>1. q \in Int /\ n \in Int /\ p.leverage \in Int
  BY DEF PositionSet
<1>2. Size(q) \in Nat /\ Size(delta) \in Nat \ {0}
  BY <1>1 DEF Size
<1>3. Realized(p, delta, price) \in Int
  <2>1. Lower(Size(q), Size(delta)) \in Int /\ Direction(q) \in Int
    BY <1>2 DEF Lower, Direction
  <2>2. price - n \in Int
    BY <1>1
  <2>3. Lower(Size(q), Size(delta)) * (price - n) * Direction(q) \in Int
    BY <2>1, <2>2
  <2> QED
    BY <2>3 DEF Realized
<1>4. Entry(p, delta, price) \in Int
  <2>1. Size(q) * n + Size(delta) * price \in Int
    BY <1>1, <1>2
  <2>2. Size(q) + Size(delta) \in Nat \ {0}
    BY <1>2
  <2>3. (Size(q) * n + Size(delta) * price) \div (Size(q) + Size(delta)) \in Int
    BY <2>1, <2>2
  <2> QED
    BY <1>1, <2>3 DEF Entry
<1>5. Leverage(p, delta, leverage) \in Int
  BY <1>1 DEF Leverage, Lower
<1> QED
  BY <1>3, <1>4, <1>5

\* A fill keeps a position a position and its cash balanced.
LEMMA FillKeepsBalance ==
  ASSUME NEW p \in PositionSet, NEW o \in OrderRow, o.delta # 0
  PROVE  /\ ApplyFill(p, o) \in PositionSet
         /\ ApplyFill(p, o).quantity = p.quantity + o.delta
         /\ Balanced(p) => Balanced(ApplyFill(p, o))
<1> DEFINE gain == Realized(p, o.delta, o.price)
<1>1. o.delta \in Int /\ o.price \in Nat /\ o.fee \in Int /\ o.request.leverage \in Int
  BY EngineAssumption DEF OrderRow
<1>2. /\ gain \in Int
      /\ Entry(p, o.delta, o.price) \in Int
      /\ Leverage(p, o.delta, o.request.leverage) \in Int
  BY <1>1, FillIntegers
<1>3. /\ p.quantity \in Int /\ p.realized \in Int /\ p.fees \in Int
      /\ p.cash \in Int /\ p.funding \in Int
  BY DEF PositionSet
<1> HIDE DEF gain
<1>4. ApplyFill(p, o) =
        [p EXCEPT !.quantity = p.quantity + o.delta,
                  !.entry    = Entry(p, o.delta, o.price),
                  !.leverage = Leverage(p, o.delta, o.request.leverage),
                  !.realized = p.realized + gain,
                  !.fees     = p.fees + o.fee,
                  !.cash     = p.cash + gain - o.fee]
  BY DEF ApplyFill, gain
<1>5. /\ p.quantity + o.delta \in Int /\ p.realized + gain \in Int
      /\ p.fees + o.fee \in Int /\ p.cash + gain - o.fee \in Int
  BY <1>1, <1>2, <1>3
<1>6. ApplyFill(p, o) \in PositionSet
  BY <1>2, <1>4, <1>5 DEF PositionSet
<1>7. /\ ApplyFill(p, o).quantity = p.quantity + o.delta
      /\ ApplyFill(p, o).realized = p.realized + gain
      /\ ApplyFill(p, o).fees = p.fees + o.fee
      /\ ApplyFill(p, o).cash = p.cash + gain - o.fee
      /\ ApplyFill(p, o).funding = p.funding
  BY <1>4 DEF PositionSet
<1>8. Balanced(p) => Balanced(ApplyFill(p, o))
  BY <1>1, <1>2, <1>3, <1>7, EngineAssumption DEF Balanced
<1> QED
  BY <1>6, <1>7, <1>8

\* A funding payment does, too.
LEMMA FundingKeepsBalance ==
  ASSUME NEW p \in PositionSet, NEW f \in FundingRow
  PROVE  /\ ApplyFunding(p, f) \in PositionSet
         /\ ApplyFunding(p, f).quantity = p.quantity
         /\ Balanced(p) => Balanced(ApplyFunding(p, f))
<1>1. f.payment \in Int
  BY DEF FundingRow
<1>2. /\ p.realized \in Int /\ p.fees \in Int /\ p.cash \in Int /\ p.funding \in Int
  BY DEF PositionSet
<1> DEFINE funds == p.funding + f.payment
           cash == p.cash + f.payment
<1>4. funds \in Int /\ cash \in Int
  BY <1>1, <1>2
<1>5. ApplyFunding(p, f) = [p EXCEPT !.funding = funds, !.cash = cash]
  BY DEF ApplyFunding, Paid
<1> HIDE DEF funds, cash
<1>6. /\ ApplyFunding(p, f) \in PositionSet
      /\ ApplyFunding(p, f).quantity = p.quantity
      /\ ApplyFunding(p, f).realized = p.realized
      /\ ApplyFunding(p, f).fees = p.fees
      /\ ApplyFunding(p, f).cash = cash
      /\ ApplyFunding(p, f).funding = funds
  BY <1>4, <1>5 DEF PositionSet
<1>3. /\ ApplyFunding(p, f) \in PositionSet
      /\ ApplyFunding(p, f).quantity = p.quantity
      /\ ApplyFunding(p, f).realized = p.realized
      /\ ApplyFunding(p, f).fees = p.fees
      /\ ApplyFunding(p, f).cash = p.cash + f.payment
      /\ ApplyFunding(p, f).funding = p.funding + f.payment
  BY <1>6 DEF funds, cash
<1> QED
  BY <1>1, <1>2, <1>3, EngineAssumption DEF Balanced

----------------------------------------------------------------------------
(* Folds over finite sets: what replay_position computes over the fills and *)
(* what the columns of the tables add up to.                                *)

\* Induction over the natural numbers, for a set of them.
LEMMA NumberInduction ==
  ASSUME NEW N, 0 \in N, \A n \in Nat : n \in N => n + 1 \in N
  PROVE  Nat \subseteq N
<1> DEFINE bad == Nat \ N
<1> SUFFICES ASSUME bad # {} PROVE FALSE
  OBVIOUS
<1>1. \E n \in bad : \A m \in bad : ~(<<m, n>> \in OpToRel(<, Nat))
  BY NatLessThanWellFounded, WFMin, bad \subseteq Nat, Zenon
<1>2. PICK n \in bad : \A m \in bad : ~(<<m, n>> \in OpToRel(<, Nat))
  BY <1>1
<1>3. n \in Nat /\ n # 0
  OBVIOUS
<1>4. n - 1 \in Nat /\ n - 1 < n /\ (n - 1) + 1 = n
  BY <1>3
<1>5. <<n - 1, n>> \in OpToRel(<, Nat)
  BY <1>3, <1>4 DEF OpToRel
<1>6. n - 1 \in N
  BY <1>2, <1>4, <1>5
<1> QED
  BY <1>4, <1>6

\* The sizes of the subsets of a finite set.
LEMMA SubsetSizes ==
  ASSUME NEW S, IsFiniteSet(S), NEW set \in SUBSET S
  PROVE  /\ IsFiniteSet(set) /\ Cardinality(set) \in Nat
         /\ Cardinality(set) <= 0 => set = {}
         /\ \A x \in set : /\ set \ {x} \in SUBSET S
                           /\ Cardinality(set \ {x}) = Cardinality(set) - 1
<1>1. IsFiniteSet(set) /\ Cardinality(set) \in Nat
  BY FS_Subset, FS_CardinalityType
<1>2. Cardinality(set) = 0 <=> set = {}
  BY <1>1, FS_EmptySet
<1>3. \A x \in set : Cardinality(set \ {x}) = Cardinality(set) - 1
  BY <1>1, FS_RemoveElement
<1> QED
  BY <1>1, <1>2, <1>3

Inductive(P, S) ==
  /\ {} \in P
  /\ \A set \in SUBSET S : set # {} => \E x \in set : set \ {x} \in P => set \in P

\* Induction over the subsets of a finite set, one element at a time.
LEMMA SubsetInduction ==
  ASSUME NEW S, IsFiniteSet(S), NEW P, Inductive(P, S)
  PROVE  SUBSET S \subseteq P
<1> DEFINE N == {n \in Nat : \A set \in SUBSET S : Cardinality(set) <= n => set \in P}
<1>1. 0 \in N
  BY SubsetSizes DEF Inductive
<1>2. ASSUME NEW n \in Nat, n \in N PROVE n + 1 \in N
  <2>1. ASSUME NEW set \in SUBSET S, Cardinality(set) <= n + 1, set # {}
        PROVE  set \in P
    <3>1. PICK x \in set : set \ {x} \in P => set \in P
      BY <2>1 DEF Inductive
    <3>2. /\ Cardinality(set) \in Nat /\ set \ {x} \in SUBSET S
          /\ Cardinality(set \ {x}) = Cardinality(set) - 1
      BY SubsetSizes
    <3>3. Cardinality(set \ {x}) <= n
      BY <2>1, <3>2
    <3>4. set \ {x} \in P
      BY <1>2, <3>2, <3>3
    <3> QED
      BY <3>1, <3>4
  <2>2. \A set \in SUBSET S : Cardinality(set) <= n + 1 => set \in P
    BY <2>1 DEF Inductive
  <2> QED
    BY <2>2
<1>3. Nat \subseteq N
  <2> HIDE DEF N
  <2> QED
    BY <1>1, <1>2, NumberInduction
<1>4. ASSUME NEW set \in SUBSET S PROVE set \in P
  <2>1. Cardinality(set) \in Nat /\ Cardinality(set) \in N
    BY <1>3, SubsetSizes
  <2> QED
    BY <2>1
<1> QED
  BY <1>4

\* fold computes g over every subset of S, taking away first the element that
\* pick names.
Folds(fold, S, base, pick, g) ==
  \A set \in SUBSET S :
    fold[set] = IF set = {} THEN base ELSE g[pick[set]][fold[set \ {pick[set]}]]

Foldable(S, V, base, pick, g) ==
  /\ IsFiniteSet(S)
  /\ base \in V
  /\ \A set \in SUBSET S : set # {} => pick[set] \in set
  /\ g \in [S -> [V -> V]]

\* Such a fold exists.
LEMMA FoldExists ==
  ASSUME NEW S, NEW V, NEW base, NEW pick, NEW g, Foldable(S, V, base, pick, g)
  PROVE  \E fold \in [SUBSET S -> V] : Folds(fold, S, base, pick, g)
<1> DEFINE Small(n) == {set \in SUBSET S : Cardinality(set) <= n}
           Rest(set) == set \ {pick[set]}
           Value(fold, set) == IF set = {} THEN base ELSE g[pick[set]][fold[Rest(set)]]
           Solves(fold, n) == \A set \in Small(n) : fold[set] = Value(fold, set)
           N == {n \in Nat : \E fold \in [Small(n) -> V] : Solves(fold, n)}
<1>0. /\ IsFiniteSet(S)
      /\ base \in V
      /\ \A set \in SUBSET S : set # {} => pick[set] \in set
      /\ \A x \in S, v \in V : g[x][v] \in V
  BY DEF Foldable
<1>a. ASSUME NEW set \in SUBSET S, set # {}
      PROVE  /\ pick[set] \in S
             /\ Rest(set) \in SUBSET S
             /\ Cardinality(set) \in Nat
             /\ Cardinality(Rest(set)) = Cardinality(set) - 1
  <2>1. pick[set] \in set
    BY <1>0, <1>a
  <2> QED
    BY <1>0, <2>1, SubsetSizes
<1>b. \A set \in SUBSET S : Cardinality(set) \in Nat /\ (Cardinality(set) <= 0 => set = {})
  BY <1>0, SubsetSizes
<1>1. 0 \in N
  <2> DEFINE fold == [set \in Small(0) |-> base]
  <2>1. fold \in [Small(0) -> V] /\ Solves(fold, 0)
    BY <1>0, <1>b
  <2> QED
    BY <2>1
<1>2. ASSUME NEW n \in Nat, n \in N PROVE n + 1 \in N
  <2>1. PICK fold \in [Small(n) -> V] : Solves(fold, n)
    BY <1>2
  <2> DEFINE more == [set \in Small(n + 1) |->
                        IF set \in Small(n) THEN fold[set] ELSE Value(fold, set)]
  <2>2. ASSUME NEW set \in Small(n + 1), set # {}
        PROVE  /\ Rest(set) \in Small(n) /\ Rest(set) \in Small(n + 1)
               /\ pick[set] \in S
    <3>1. /\ pick[set] \in S
          /\ Rest(set) \in SUBSET S
          /\ Cardinality(set) \in Nat
          /\ Cardinality(Rest(set)) = Cardinality(set) - 1
      BY <1>a, <2>2, Zenon
    <3>2. Cardinality(set) <= n + 1
      OBVIOUS
    <3>3. Cardinality(Rest(set)) <= n /\ Cardinality(Rest(set)) <= n + 1
      <4> DEFINE c == Cardinality(set)
                 r == Cardinality(Rest(set))
      <4>1. r = c - 1 /\ c \in Nat /\ c <= n + 1
        BY <3>1, <3>2
      <4> HIDE DEF c, r
      <4>2. r <= n /\ r <= n + 1
        BY <4>1
      <4> QED
        BY <4>2 DEF r
    <3> HIDE DEF Rest
    <3> QED
      BY <3>1, <3>3
  <2>3. {} \in Small(n)
    <3>1. {} \in SUBSET S /\ Cardinality({}) = 0
      BY FS_EmptySet
    <3> QED
      BY <3>1
  <2>4. Small(n) \subseteq Small(n + 1)
    <3>1. ASSUME NEW set \in Small(n) PROVE Cardinality(set) <= n + 1
      BY <1>b
    <3> QED
      BY <3>1
  <2>5. /\ \A set \in Small(n) : fold[set] = Value(fold, set) /\ fold[set] \in V
        /\ \A set \in Small(n + 1) :
             more[set] = IF set \in Small(n) THEN fold[set] ELSE Value(fold, set)
        /\ more = [set \in Small(n + 1) |-> more[set]]
    BY <2>1
  <2> HIDE DEF Small, Rest, more
  <2>6. ASSUME NEW set \in Small(n + 1) PROVE more[set] \in V
    <3>1. CASE set \in Small(n)
      BY <2>5, <3>1
    <3>2. CASE set \notin Small(n)
      <4>1. set # {} /\ more[set] = g[pick[set]][fold[Rest(set)]]
        BY <2>3, <2>5, <3>2
      <4>2. pick[set] \in S /\ fold[Rest(set)] \in V
        BY <2>2, <2>5, <4>1
      <4> QED
        BY <1>0, <4>1, <4>2
    <3> QED
      BY <3>1, <3>2
  <2>7. ASSUME NEW set \in Small(n + 1) PROVE more[set] = Value(more, set)
    <3>1. CASE set = {}
      BY <2>3, <2>4, <2>5, <3>1
    <3>2. CASE set # {}
      <4>1. more[Rest(set)] = fold[Rest(set)]
        BY <2>2, <2>5, <3>2
      <4>2. more[set] = Value(fold, set)
        BY <2>5
      <4> QED
        BY <3>2, <4>1, <4>2
    <3> QED
      BY <3>1, <3>2
  <2> QED
    <3> HIDE DEF Value
    <3>1. more \in [Small(n + 1) -> V]
      BY <2>5, <2>6
    <3>2. Solves(more, n + 1)
      BY <2>7
    <3>3. n + 1 \in Nat
      OBVIOUS
    <3> HIDE DEF Solves
    <3> QED
      BY <3>1, <3>2, <3>3
<1>3. Cardinality(S) \in N
  <2>1. Nat \subseteq N
    <3> HIDE DEF N
    <3> QED
      BY <1>1, <1>2, NumberInduction
  <2> QED
    BY <1>0, <2>1, FS_CardinalityType
<1>4. Small(Cardinality(S)) = SUBSET S
  BY <1>0, FS_Subset, FS_CardinalityType
<1> QED
  BY <1>3, <1>4 DEF Folds

----------------------------------------------------------------------------
(* Sums. *)

AnyOf(set) == CHOOSE x \in set : TRUE

SumOf(f) ==
  CHOOSE sum : sum = [set \in SUBSET DOMAIN f |->
    IF set = {} THEN 0 ELSE f[AnyOf(set)] + sum[set \ {AnyOf(set)}]]

\* SumFunction reads the value of its fold at the whole domain.
LEMMA SumIsFold ==
  ASSUME NEW f
  PROVE  SumFunction(f) = SumOf(f)[DOMAIN f]
BY Zenon DEF SumFunction, SumFunctionOnSet, FoldFunctionOnSet, MapThenFoldSet, SumOf, AnyOf

LEMMA AnyIsElement ==
  ASSUME NEW set, set # {}
  PROVE  AnyOf(set) \in set
BY DEF AnyOf

\* sum adds f up over the subsets of S.
Sums(sum, f, S) ==
  /\ sum \in [SUBSET S -> Int]
  /\ sum[{}] = 0
  /\ \A set \in SUBSET S : set # {} => sum[set] = f[AnyOf(set)] + sum[set \ {AnyOf(set)}]

Adds(f, S) == IsFiniteSet(S) /\ f \in [S -> Int]

\* The fold of SumFunction does.
LEMMA SumExists ==
  ASSUME NEW S, NEW f, Adds(f, S)
  PROVE  Sums(SumOf(f), f, S)
<1> DEFINE pick == [set \in SUBSET S |-> AnyOf(set)]
           g == [x \in S |-> [n \in Int |-> f[x] + n]]
           Solution(sum) == sum = [set \in SUBSET S |->
             IF set = {} THEN 0 ELSE f[AnyOf(set)] + sum[set \ {AnyOf(set)}]]
<1>0. IsFiniteSet(S) /\ f \in [S -> Int] /\ DOMAIN f = S
  BY DEF Adds
<1>1. Foldable(S, Int, 0, pick, g)
  <2>1. g \in [S -> [Int -> Int]]
    BY <1>0
  <2>2. \A set \in SUBSET S : set # {} => pick[set] \in set
    BY AnyIsElement
  <2> HIDE DEF pick, g
  <2> QED
    BY <1>0, <2>1, <2>2 DEF Foldable
<1>2. PICK sum \in [SUBSET S -> Int] : Folds(sum, S, 0, pick, g)
  <2> HIDE DEF pick, g
  <2> QED
    BY <1>1, FoldExists
<1>3. ASSUME NEW set \in SUBSET S
      PROVE  sum[set] = IF set = {} THEN 0 ELSE f[AnyOf(set)] + sum[set \ {AnyOf(set)}]
  <2>1. CASE set = {}
    BY <1>2, <2>1 DEF Folds
  <2>2. CASE set # {}
    <3>1. AnyOf(set) \in S /\ set \ {AnyOf(set)} \in SUBSET S
      BY <2>2, AnyIsElement
    <3>2. sum[set] = g[AnyOf(set)][sum[set \ {AnyOf(set)}]]
      BY <1>2, <2>2 DEF Folds
    <3> QED
      BY <2>2, <3>1, <3>2
  <2> QED
    BY <2>1, <2>2
<1>4. Solution(sum)
  <2> DEFINE Value(set) == IF set = {} THEN 0 ELSE f[AnyOf(set)] + sum[set \ {AnyOf(set)}]
  <2>1. \A set \in SUBSET S : sum[set] = Value(set)
    BY <1>3
  <2>2. sum = [set \in SUBSET S |-> Value(set)]
    <3> HIDE DEF Value
    <3> QED
      BY <2>1
  <2> QED
    BY <2>2, Zenon
<1>5. SumOf(f) = CHOOSE it : Solution(it)
  BY <1>0 DEF SumOf
<1>6. Solution(SumOf(f))
  <2> HIDE DEF Solution
  <2> QED
    BY <1>4, <1>5
<1>7. /\ SumOf(f)[{}] = 0
      /\ \A set \in SUBSET S : set # {} =>
           SumOf(f)[set] = f[AnyOf(set)] + SumOf(f)[set \ {AnyOf(set)}]
  BY <1>6
<1> DEFINE P == {set \in SUBSET S : SumOf(f)[set] \in Int}
<1>8. {} \in P
  BY <1>7
<1>9. ASSUME NEW set \in SUBSET S, set # {}
      PROVE  \E x \in set : set \ {x} \in P => set \in P
  <2>1. AnyOf(set) \in set
    BY <1>9, AnyIsElement
  <2>2. f[AnyOf(set)] \in Int
    BY <1>0, <2>1
  <2>3. set \ {AnyOf(set)} \in P => set \in P
    BY <1>7, <1>9, <2>2
  <2> HIDE DEF P
  <2> QED
    BY <2>1, <2>3
<1>10. SUBSET S \subseteq P
  <2> HIDE DEF P
  <2> QED
    <3>1. Inductive(P, S)
      BY <1>8, <1>9 DEF Inductive
    <3> QED
      BY <1>0, <3>1, SubsetInduction
<1>11. SumOf(f) \in [SUBSET S -> Int]
  BY <1>6, <1>10
<1> QED
  BY <1>7, <1>11, Zenon DEF Sums

\* Any element can be taken out of a sum first.
LEMMA SumWithout ==
  ASSUME NEW S, NEW f, Adds(f, S), NEW sum, Sums(sum, f, S),
         NEW set \in SUBSET S, NEW x \in set
  PROVE  sum[set] = f[x] + sum[set \ {x}]
<1> DEFINE Whole(some) == \A y \in some : sum[some] = f[y] + sum[some \ {y}]
           N == {n \in Nat : \A some \in SUBSET S : Cardinality(some) <= n => Whole(some)}
<1>0. IsFiniteSet(S) /\ f \in [S -> Int] /\ sum \in [SUBSET S -> Int]
  BY DEF Adds, Sums
<1>1. 0 \in N
  BY <1>0, SubsetSizes
<1>2. ASSUME NEW n \in Nat, n \in N PROVE n + 1 \in N
  <2>1. ASSUME NEW some \in SUBSET S, Cardinality(some) <= n + 1, NEW y \in some
        PROVE  sum[some] = f[y] + sum[some \ {y}]
    <3> DEFINE a == AnyOf(some)
               rest == some \ {a}
               other == some \ {y}
               both == rest \ {y}
    <3>1. a \in some /\ sum[some] = f[a] + sum[rest]
      BY AnyIsElement DEF Sums
    <3>2. /\ rest \in SUBSET S /\ other \in SUBSET S /\ both \in SUBSET S
          /\ Cardinality(rest) <= n /\ Cardinality(other) <= n
      <4>1. /\ Cardinality(some) \in Nat
            /\ rest \in SUBSET S /\ Cardinality(rest) = Cardinality(some) - 1
            /\ other \in SUBSET S /\ Cardinality(other) = Cardinality(some) - 1
        <5>1. /\ Cardinality(some) \in Nat
              /\ \A z \in some : /\ some \ {z} \in SUBSET S
                                 /\ Cardinality(some \ {z}) = Cardinality(some) - 1
          BY <1>0, SubsetSizes
        <5> QED
          BY <3>1, <5>1, Zenon
      <4> DEFINE c == Cardinality(some)
                 r == Cardinality(rest)
                 o == Cardinality(other)
      <4>2. c \in Nat /\ c <= n + 1 /\ r = c - 1 /\ o = c - 1
        BY <2>1, <4>1
      <4> HIDE DEF c, r, o
      <4>3. r <= n /\ o <= n
        BY <4>2
      <4> QED
        BY <4>1, <4>3 DEF r, o
    <3>3. CASE y = a
      BY <3>1, <3>3
    <3>4. CASE y # a
      <4>1. y \in rest /\ a \in other /\ other \ {a} = both
        BY <3>1, <3>4
      <4>2. Whole(rest) /\ Whole(other)
        BY <1>2, <3>2
      <4>3. sum[rest] = f[y] + sum[both] /\ sum[other] = f[a] + sum[both]
        BY <4>1, <4>2
      <4> DEFINE fa == f[a]
                 fy == f[y]
                 sb == sum[both]
      <4>4. fa \in Int /\ fy \in Int /\ sb \in Int
        BY <1>0, <3>1, <3>2
      <4>5. sum[some] = fa + (fy + sb) /\ sum[other] = fa + sb
        BY <3>1, <4>3
      <4> HIDE DEF fa, fy, sb
      <4>6. fa + (fy + sb) = fy + (fa + sb)
        BY <4>4
      <4> QED
        BY <4>5, <4>6 DEF fy
    <3> QED
      BY <3>3, <3>4
  <2>2. \A some \in SUBSET S : Cardinality(some) <= n + 1 => Whole(some)
    BY <2>1
  <2> QED
    BY <2>2
<1>3. Nat \subseteq N
  <2> HIDE DEF N
  <2> QED
    BY <1>1, <1>2, NumberInduction
<1>4. Cardinality(set) \in N /\ Cardinality(set) \in Nat
  BY <1>0, <1>3, SubsetSizes
<1>5. Whole(set)
  BY <1>4
<1> QED
  BY <1>5

\* A sum over more elements starts as the sum over fewer.
LEMMA SumsAgree ==
  ASSUME NEW S, NEW f, Adds(f, S), NEW T, NEW g, Adds(g, T), T \subseteq S,
         \A x \in T : g[x] = f[x],
         NEW sum, Sums(sum, f, S), NEW less, Sums(less, g, T)
  PROVE  \A set \in SUBSET T : sum[set] = less[set]
<1> DEFINE P == {set \in SUBSET T : sum[set] = less[set]}
<1>1. IsFiniteSet(T)
  BY DEF Adds
<1>2. {} \in P
  BY DEF Sums
<1>3. ASSUME NEW set \in SUBSET T, set # {}
      PROVE  \E x \in set : set \ {x} \in P => set \in P
  <2> DEFINE a == AnyOf(set)
             rest == set \ {a}
  <2>1. a \in set
    BY <1>3, AnyIsElement
  <2>2. sum[set] = f[a] + sum[rest]
    BY <1>3 DEF Sums
  <2>3. less[set] = g[a] + less[rest]
    BY <1>3 DEF Sums
  <2>4. g[a] = f[a]
    BY <2>1
  <2>5. rest \in P => set \in P
    BY <2>2, <2>3, <2>4
  <2> HIDE DEF P
  <2> QED
    BY <2>1, <2>5
<1>4. SUBSET T \subseteq P
  <2>1. Inductive(P, T)
    BY <1>2, <1>3 DEF Inductive
  <2> HIDE DEF P
  <2> QED
    BY <1>1, <2>1, SubsetInduction
<1> QED
  BY <1>4

\* more has the values of f and one for a further element.
Extends(more, f, S, e) ==
  /\ e \notin S
  /\ Adds(f, S)
  /\ Adds(more, S \cup {e})
  /\ \A x \in S : f[x] = more[x]

\* One more element adds its value.
LEMMA SumOfMore ==
  ASSUME NEW S, NEW e, NEW f, NEW more, Extends(more, f, S, e)
  PROVE  SumFunction(more) = SumFunction(f) + more[e]
<1> USE DEF Extends
<1> DEFINE T == S \cup {e}
           F == SumOf(f)
           M == SumOf(more)
<1>1. Sums(F, f, S) /\ Sums(M, more, T)
  BY SumExists
<1>2. SumFunction(f) = F[S] /\ SumFunction(more) = M[T]
  BY SumIsFold DEF Adds
<1> HIDE DEF F, M
<1>3. \A set \in SUBSET S : M[set] = F[set]
  <2>1. S \subseteq T /\ Adds(more, T)
    OBVIOUS
  <2> HIDE DEF T
  <2> QED
    BY <1>1, <2>1, SumsAgree
<1>4. M[T] = more[e] + M[T \ {e}]
  BY <1>1, SumWithout
<1>5. T \ {e} = S
  OBVIOUS
<1>6. M[T] = more[e] + F[S]
  BY <1>3, <1>4, <1>5
<1>7. more[e] \in Int /\ F[S] \in Int
  BY <1>1 DEF Adds, Sums
<1> QED
  BY <1>2, <1>6, <1>7

\* Elements of value zero can be left out of a sum.
LEMMA SumWithoutZeros ==
  ASSUME NEW S, NEW f, Adds(f, S), NEW sum, Sums(sum, f, S),
         NEW T \in SUBSET S, \A x \in S \ T : f[x] = 0
  PROVE  sum[T] = sum[S]
<1> DEFINE P == {set \in SUBSET S : sum[set] = sum[set \cap T]}
<1>1. IsFiniteSet(S) /\ sum \in [SUBSET S -> Int]
  BY DEF Adds, Sums
<1>2. {} \in P
  <2>1. {} \cap T = {}
    OBVIOUS
  <2> QED
    BY <2>1
<1>3. ASSUME NEW set \in SUBSET S, set # {}
      PROVE  \E x \in set : set \ {x} \in P => set \in P
  <2> DEFINE a == AnyOf(set)
             rest == set \ {a}
  <2>1. a \in set /\ rest \in SUBSET S
    BY <1>3, AnyIsElement
  <2>2. sum[set] = f[a] + sum[rest]
    BY <1>3 DEF Sums
  <2>3. ASSUME rest \in P PROVE sum[set] = sum[set \cap T]
    <3>1. sum[rest] = sum[rest \cap T] /\ sum[rest] \in Int
      BY <1>1, <2>1, <2>3
    <3>2. CASE a \in T
      <4>1. a \in set \cap T /\ (set \cap T) \ {a} = rest \cap T /\ set \cap T \in SUBSET S
        BY <2>1, <3>2
      <4>2. sum[set \cap T] = f[a] + sum[(set \cap T) \ {a}]
        BY <4>1, SumWithout
      <4>3. sum[set \cap T] = f[a] + sum[rest \cap T]
        BY <4>1, <4>2, Zenon
      <4> QED
        BY <2>2, <3>1, <4>3, Zenon
    <3>3. CASE a \notin T
      <4>1. f[a] = 0 /\ set \cap T = rest \cap T
        BY <2>1, <3>3
      <4> DEFINE r == sum[rest]
      <4>2. r \in Int /\ sum[set] = 0 + r /\ r = sum[rest \cap T]
        BY <2>2, <3>1, <4>1
      <4> HIDE DEF r
      <4>3. 0 + r = r
        BY <4>2
      <4> QED
        BY <4>1, <4>2, <4>3, Zenon
    <3> QED
      BY <3>2, <3>3
  <2>4. rest \in P => set \in P
    BY <2>3
  <2> HIDE DEF P
  <2> QED
    BY <2>1, <2>4
<1>4. SUBSET S \subseteq P
  <2>1. Inductive(P, S)
    BY <1>2, <1>3 DEF Inductive
  <2> HIDE DEF P
  <2> QED
    BY <1>1, <2>1, SubsetInduction
<1>5. sum[S] = sum[S \cap T] /\ S \cap T = T
  BY <1>4
<1> QED
  BY <1>5

----------------------------------------------------------------------------
(* The replay. *)

ReplayOf(S) ==
  CHOOSE fold : fold = [set \in SUBSET S |->
    IF set = {} THEN Flat ELSE ApplyFill(fold[set \ {LastOf(set)}], LastOf(set))]

\* Replayed reads the value of its fold at all the fills.
LEMMA ReplayIsFold ==
  ASSUME NEW S
  PROVE  Replayed(S) = ReplayOf(S)[S]
BY Zenon DEF Replayed, MapThenFoldSet, ReplayOf

\* Rows as the replay reads them: fills, each under an id of its own.
FillRows(S) ==
  /\ IsFiniteSet(S)
  /\ S \subseteq OrderRow
  /\ \A o \in S : o.delta # 0
  /\ \A x, y \in S : x.id = y.id => x = y

\* Timestamp and id order the fills totally.
LEMMA BeforeOrders ==
  ASSUME NEW S, FillRows(S)
  PROVE  /\ \A x, y \in S : x # y => Before(x, y) \/ Before(y, x)
         /\ \A x, y \in S : Before(x, y) => ~Before(y, x)
         /\ \A x, y, z \in S : Before(x, y) /\ Before(y, z) => Before(x, z)
<1>1. \A x \in S : x.ts \in Nat /\ x.id \in Nat
  BY EngineAssumption DEF FillRows, OrderRow
<1>2. \A x, y \in S : x # y => x.id # y.id
  BY DEF FillRows
<1> QED
  BY <1>1, <1>2 DEF Before

\* LastOf finds the one after which no other comes.
LEMMA LastIsLast ==
  ASSUME NEW S, FillRows(S), NEW set \in SUBSET S, set # {}
  PROVE  /\ LastOf(set) \in set
         /\ \A x \in set \ {LastOf(set)} : Before(x, LastOf(set))
<1> DEFINE NoneAfter(o, some) == \A x \in some \ {o} : Before(x, o)
           P == {some \in SUBSET S : some # {} => \E o \in some : NoneAfter(o, some)}
<1>0. IsFiniteSet(S)
  BY DEF FillRows
<1>1. {} \in P
  OBVIOUS
<1>2. ASSUME NEW some \in SUBSET S, some # {}
      PROVE  \E x \in some : some \ {x} \in P => some \in P
  <2>1. PICK a \in some : TRUE
    BY <1>2
  <2>2. ASSUME some \ {a} \in P PROVE \E o \in some : NoneAfter(o, some)
    <3>1. CASE some \ {a} = {}
      BY <3>1
    <3>2. CASE some \ {a} # {}
      <4>1. PICK o \in some \ {a} : NoneAfter(o, some \ {a})
        BY <2>2, <3>2
      <4>2. o \in S /\ a \in S /\ o # a
        OBVIOUS
      <4>3. CASE Before(a, o)
        BY <4>1, <4>3
      <4>4. CASE Before(o, a)
        <5>1. \A x \in some \ {a} : Before(x, a)
          BY <4>1, <4>2, <4>4, BeforeOrders
        <5> QED
          BY <5>1
      <4> QED
        BY <4>2, <4>3, <4>4, BeforeOrders
    <3> QED
      BY <3>1, <3>2
  <2>3. some \ {a} \in P => some \in P
    BY <2>2
  <2> HIDE DEF P
  <2> QED
    BY <2>3
<1>3. SUBSET S \subseteq P
  <2>1. Inductive(P, S)
    BY <1>1, <1>2 DEF Inductive
  <2> HIDE DEF P
  <2> QED
    BY <1>0, <2>1, SubsetInduction
<1>4. \E o \in set : NoneAfter(o, set)
  BY <1>3
<1> QED
  BY <1>4, Zenon DEF LastOf

\* fold replays every subset of S.
Replays(fold, S) ==
  /\ fold \in [SUBSET S -> PositionSet]
  /\ fold[{}] = Flat
  /\ \A set \in SUBSET S : set # {} =>
       fold[set] = ApplyFill(fold[set \ {LastOf(set)}], LastOf(set))

LEMMA FlatIsPosition == Flat \in PositionSet /\ Balanced(Flat)
BY EngineAssumption DEF Flat, PositionSet, Balanced

\* The fold of Replayed does.
LEMMA ReplayExists ==
  ASSUME NEW S, FillRows(S)
  PROVE  Replays(ReplayOf(S), S)
<1> DEFINE pick == [set \in SUBSET S |-> LastOf(set)]
           g == [o \in S |-> [p \in PositionSet |-> ApplyFill(p, o)]]
           Value(fold, set) ==
             IF set = {} THEN Flat ELSE ApplyFill(fold[set \ {LastOf(set)}], LastOf(set))
           Solution(fold) == fold = [set \in SUBSET S |-> Value(fold, set)]
<1>0. IsFiniteSet(S) /\ \A o \in S : o \in OrderRow /\ o.delta # 0
  BY DEF FillRows
<1>1. Foldable(S, PositionSet, Flat, pick, g)
  <2>1. \A o \in S, p \in PositionSet : ApplyFill(p, o) \in PositionSet
    BY <1>0, FillKeepsBalance
  <2>2. g \in [S -> [PositionSet -> PositionSet]]
    BY <2>1
  <2>3. \A set \in SUBSET S : set # {} => pick[set] \in set
    BY LastIsLast
  <2> HIDE DEF pick, g
  <2> QED
    BY <1>0, <2>2, <2>3, FlatIsPosition DEF Foldable
<1>2. PICK fold \in [SUBSET S -> PositionSet] : Folds(fold, S, Flat, pick, g)
  <2> HIDE DEF pick, g
  <2> QED
    BY <1>1, FoldExists
<1>3. ASSUME NEW set \in SUBSET S
      PROVE  fold[set] = Value(fold, set)
  <2>1. CASE set = {}
    BY <1>2, <2>1 DEF Folds
  <2>2. CASE set # {}
    <3>1. LastOf(set) \in S /\ set \ {LastOf(set)} \in SUBSET S
      BY <2>2, LastIsLast
    <3>2. fold[set] = g[LastOf(set)][fold[set \ {LastOf(set)}]]
      BY <1>2, <2>2 DEF Folds
    <3>3. fold[set \ {LastOf(set)}] \in PositionSet
      BY <3>1
    <3> QED
      BY <2>2, <3>1, <3>2, <3>3
  <2> QED
    BY <2>1, <2>2
<1>4. Solution(fold)
  <2> HIDE DEF Value
  <2> QED
    BY <1>3
<1>5. ReplayOf(S) = CHOOSE it : Solution(it)
  BY Zenon DEF ReplayOf
<1>6. Solution(ReplayOf(S))
  <2> HIDE DEF Solution
  <2> QED
    BY <1>4, <1>5
<1>7. /\ ReplayOf(S)[{}] = Flat
      /\ \A set \in SUBSET S : set # {} =>
           ReplayOf(S)[set]
             = ApplyFill(ReplayOf(S)[set \ {LastOf(set)}], LastOf(set))
  BY <1>6
<1> DEFINE P == {set \in SUBSET S : ReplayOf(S)[set] \in PositionSet}
<1>8. {} \in P
  BY <1>7, FlatIsPosition
<1>9. ASSUME NEW set \in SUBSET S, set # {}
      PROVE  \E x \in set : set \ {x} \in P => set \in P
  <2>1. LastOf(set) \in set
    BY <1>9, LastIsLast
  <2>2. ASSUME set \ {LastOf(set)} \in P PROVE set \in P
    <3>1. ReplayOf(S)[set \ {LastOf(set)}] \in PositionSet
      BY <2>2
    <3>2. ApplyFill(ReplayOf(S)[set \ {LastOf(set)}], LastOf(set)) \in PositionSet
      BY <1>0, <2>1, <3>1, FillKeepsBalance
    <3> QED
      BY <1>7, <1>9, <3>2
  <2> HIDE DEF P
  <2> QED
    BY <2>1, <2>2
<1>10. SUBSET S \subseteq P
  <2>1. Inductive(P, S)
    BY <1>8, <1>9 DEF Inductive
  <2> HIDE DEF P
  <2> QED
    BY <1>0, <2>1, SubsetInduction
<1>11. ReplayOf(S) \in [SUBSET S -> PositionSet]
  BY <1>6, <1>10
<1> QED
  BY <1>7, <1>11, Zenon DEF Replays

\* A replay of more fills starts as the replay of fewer.
LEMMA ReplaysAgree ==
  ASSUME NEW S, FillRows(S), NEW T, FillRows(T), T \subseteq S,
         NEW fold, Replays(fold, S), NEW less, Replays(less, T)
  PROVE  \A set \in SUBSET T : fold[set] = less[set]
<1> DEFINE P == {set \in SUBSET T : fold[set] = less[set]}
<1>1. IsFiniteSet(T)
  BY DEF FillRows
<1>2. {} \in P
  BY DEF Replays
<1>3. ASSUME NEW set \in SUBSET T, set # {}
      PROVE  \E x \in set : set \ {x} \in P => set \in P
  <2> DEFINE o == LastOf(set)
             rest == set \ {o}
  <2>1. o \in set
    BY <1>3, LastIsLast
  <2>2. fold[set] = ApplyFill(fold[rest], o)
    BY <1>3 DEF Replays
  <2>3. less[set] = ApplyFill(less[rest], o)
    BY <1>3 DEF Replays
  <2>4. rest \in P => set \in P
    <3> HIDE DEF o
    <3> QED
      BY <2>2, <2>3
  <2> HIDE DEF P
  <2> QED
    BY <2>1, <2>4
<1>4. SUBSET T \subseteq P
  <2>1. Inductive(P, T)
    BY <1>2, <1>3 DEF Inductive
  <2> HIDE DEF P
  <2> QED
    BY <1>1, <2>1, SubsetInduction
<1> QED
  BY <1>4

\* A fill after all others is applied to what they leave.
LEMMA ReplayOfLater ==
  ASSUME NEW S, FillRows(S), NEW e, e \notin S, FillRows(S \cup {e}),
         \A x \in S : Before(x, e)
  PROVE  Replayed(S \cup {e}) = ApplyFill(Replayed(S), e)
<1> DEFINE T == S \cup {e}
           F == ReplayOf(S)
           M == ReplayOf(T)
<1>1. Replays(F, S) /\ Replays(M, T)
  BY ReplayExists
<1>2. Replayed(S) = F[S] /\ Replayed(T) = M[T]
  BY ReplayIsFold, Zenon
<1>3. LastOf(T) = e
  <2>1. LastOf(T) \in T /\ \A x \in T \ {LastOf(T)} : Before(x, LastOf(T))
    BY LastIsLast, T # {}
  <2>2. LastOf(T) # e => Before(e, LastOf(T)) /\ Before(LastOf(T), e)
    BY <2>1
  <2> QED
    BY <2>1, <2>2, BeforeOrders
<1>4. T # {} /\ T \ {e} = S /\ S \subseteq T
  OBVIOUS
<1> HIDE DEF F, M, T
<1>5. M[T] = ApplyFill(M[S], e)
  BY <1>1, <1>3, <1>4 DEF Replays
<1>6. M[S] = F[S]
  <2>1. FillRows(T)
    BY DEF T
  <2> QED
    BY <1>1, <1>4, <2>1, ReplaysAgree
<1> QED
  BY <1>2, <1>5, <1>6 DEF T

----------------------------------------------------------------------------
(* Exact averages. *)

\* A number without a remainder is a multiple.
LEMMA Multiples ==
  ASSUME NEW x \in Int, NEW g \in Nat \ {0}, x % g = 0
  PROVE  \E k \in Int : x = g * k
<1>1. x \div g \in Int
  OBVIOUS
<1>2. x = g * (x \div g)
  OBVIOUS
<1> QED
  BY <1>1, <1>2

\* Dividing a multiple is exact.
LEMMA DivideMultiple ==
  ASSUME NEW y \in Int, NEW g \in Nat \ {0}
  PROVE  (g * y) \div g = y /\ (g * y) % g = 0
<1>1. (g * y) \div g = y
  OBVIOUS
<1>2. (g * y) % g = 0
  OBVIOUS
<1> QED
  BY <1>1, <1>2

\* a units at x and b units at y, both multiples of g, itself one of h times
\* the s units there are.
OnGrid(a, b, s, x, y, g, h) ==
  /\ a \in Nat /\ b \in Nat /\ s \in Nat \ {0} /\ s = a + b
  /\ x \in Int /\ y \in Int /\ g \in Nat \ {0} /\ h \in Nat \ {0}
  /\ x % g = 0 /\ y % g = 0 /\ g % (s * h) = 0

\* Their average is not rounded, and a multiple of h.
LEMMA ExactAverage ==
  ASSUME NEW a, NEW b, NEW s, NEW x, NEW y, NEW g, NEW h, OnGrid(a, b, s, x, y, g, h)
  PROVE  /\ (a * x + b * y) \div s \in Int
         /\ s * ((a * x + b * y) \div s) = a * x + b * y
         /\ ((a * x + b * y) \div s) % h = 0
<1> USE DEF OnGrid
<1>1. PICK u \in Int : x = g * u
  BY Multiples
<1>2. PICK v \in Int : y = g * v
  BY Multiples
<1>3. PICK w \in Int : g = (s * h) * w
  <2>1. s * h \in Nat \ {0}
    OBVIOUS
  <2>2. g \in Int
    OBVIOUS
  <2> QED
    BY <2>1, <2>2, Multiples
<1> DEFINE t == a * u + b * v
           m == w * t
           k == h * m
<1>4. t \in Int /\ m \in Int /\ k \in Int
  <2>1. t \in Int
    OBVIOUS
  <2> HIDE DEF t
  <2>2. m \in Int
    BY <2>1
  <2> HIDE DEF m
  <2> QED
    BY <2>1, <2>2
<1>5. a * x + b * y = g * t
  <2>1. a * x = g * (a * u) /\ b * y = g * (b * v)
    BY <1>1, <1>2
  <2>2. a * u \in Int /\ b * v \in Int
    OBVIOUS
  <2> QED
    BY <2>1, <2>2
<1>6. g * t = s * k
  <2> HIDE DEF t
  <2>1. g * t = ((s * h) * w) * t
    BY <1>3
  <2>2. ((s * h) * w) * t = s * (h * (w * t))
    BY <1>4
  <2> QED
    BY <2>1, <2>2
<1> HIDE DEF t, k
<1>7. (a * x + b * y) \div s = k
  BY <1>4, <1>5, <1>6, DivideMultiple
<1>8. k % h = 0
  <2> HIDE DEF m
  <2> QED
    BY <1>4, DivideMultiple DEF k
<1> QED
  BY <1>4, <1>5, <1>6, <1>7, <1>8

\* A position that k fills may have built: within the size of k orders, its
\* entry price on the grid of the k-th average.
Fits(p, k) ==
  /\ Cardinality(OrderIds) * Size(p.quantity) <= k * MaxSize
  /\ p.quantity # 0 => k \in DOMAIN Grid /\ p.entry % Grid[k] = 0

\* A fill of one of the orders at one of the prices.
FillFits(o) ==
  /\ o.delta # 0
  /\ Cardinality(OrderIds) * Size(o.delta) <= MaxSize
  /\ \A n \in DOMAIN Grid : o.price % Grid[n] = 0

\* What a position would be worth at price 0: the same for all its entries and
\* realized results that tell the same story.
Worth(p) == p.cash - p.quantity * p.entry

\* The constants of the grid.
LEMMA GridValues ==
  /\ Cardinality(OrderIds) \in Nat /\ MaxSize \in Nat
  /\ DOMAIN Grid = 1..Cardinality(OrderIds)
  /\ \A k \in DOMAIN Grid : Grid[k] \in Nat \ {0}
BY GridAssumption, FS_CardinalityType

\* One more fill within the bound of one more order.
LEMMA SizeOfFill ==
  ASSUME NEW q \in Int, NEW d \in Int, NEW k \in Nat, k + 1 \in DOMAIN Grid,
         Cardinality(OrderIds) * Size(q) <= k * MaxSize,
         Cardinality(OrderIds) * Size(d) <= MaxSize
  PROVE  /\ Cardinality(OrderIds) * Size(q + d) <= (k + 1) * MaxSize
         /\ Size(q) + Size(d) <= MaxSize
<1> DEFINE N == Cardinality(OrderIds)
           a == Size(q)
           b == Size(d)
           c == Size(q + d)
           M == MaxSize
<1>1. N \in Nat \ {0} /\ M \in Nat /\ k + 1 <= N
  BY GridValues
<1>2. a \in Nat /\ b \in Nat /\ c \in Nat /\ c <= a + b
  BY DEF Size
<1>3. N * a <= k * M /\ N * b <= M
  OBVIOUS
<1> HIDE DEF N, a, b, c, M
<1>4. N * (a + b) = N * a + N * b /\ (k + 1) * M = k * M + M
  BY <1>1, <1>2
<1>5. N * a \in Int /\ N * b \in Int /\ k * M \in Int
  BY <1>1, <1>2
<1>6. N * (a + b) <= (k + 1) * M
  BY <1>1, <1>3, <1>4, <1>5
<1>7. N * c <= N * (a + b)
  BY <1>1, <1>2
<1>8. (k + 1) * M <= N * M
  BY <1>1
<1>9. N * c <= (k + 1) * M /\ N * (a + b) <= N * M
  <2>1. N * c \in Int /\ N * (a + b) \in Int /\ (k + 1) * M \in Int /\ N * M \in Int
    BY <1>1, <1>2
  <2> QED
    BY <1>6, <1>7, <1>8, <2>1
<1>10. a + b <= M
  <2> DEFINE s == a + b
  <2>1. s \in Nat /\ N * s <= N * M
    BY <1>2, <1>9
  <2> HIDE DEF s
  <2>2. ~(s >= M + 1)
    <3>1. s >= M + 1 => N * s >= N * (M + 1)
      BY <1>1, <2>1
    <3>2. N * (M + 1) = N * M + N /\ N * M \in Int /\ N * s \in Int
      BY <1>1, <2>1
    <3> QED
      BY <1>1, <2>1, <3>1, <3>2
  <2> QED
    BY <1>1, <2>1, <2>2 DEF s
<1> QED
  BY <1>9, <1>10 DEF N, a, b, c, M

\* A fill moves the worth of a position by its fee and its notional, whatever
\* the entry and the realized result become.
LEMMA FillKeepsWorth ==
  ASSUME NEW p \in PositionSet, NEW o \in OrderRow, FillFits(o),
         NEW k \in Nat, k + 1 \in DOMAIN Grid, Fits(p, k)
  PROVE  /\ Fits(ApplyFill(p, o), k + 1)
         /\ Worth(ApplyFill(p, o)) = Worth(p) - (o.fee + o.delta * o.price)
<1> DEFINE q == p.quantity
           n == p.entry
           d == o.delta
           y == o.price
           f == o.fee
           c == p.cash
           after == Entry(p, d, y)
           gain == Realized(p, d, y)
           s == Size(q) + Size(d)
<1>1. /\ q \in Int /\ n \in Int /\ c \in Int
      /\ d \in Int /\ d # 0 /\ y \in Nat /\ f \in Int
  BY DEF PositionSet, OrderRow, FillFits
<1>2. after \in Int /\ gain \in Int
  BY <1>1, FillIntegers
<1>3. /\ ApplyFill(p, o).quantity = q + d
      /\ ApplyFill(p, o).entry = after
      /\ ApplyFill(p, o).cash = c + gain - f
  BY DEF ApplyFill, PositionSet
<1>4. /\ Cardinality(OrderIds) * Size(q + d) <= (k + 1) * MaxSize
      /\ s <= MaxSize
  <2>1. /\ Cardinality(OrderIds) * Size(q) <= k * MaxSize
        /\ Cardinality(OrderIds) * Size(d) <= MaxSize
    BY DEF Fits, FillFits
  <2> HIDE DEF q, d
  <2> QED
    BY <1>1, <2>1, SizeOfFill
<1>5. Size(q) \in Nat /\ Size(d) \in Nat /\ s \in Nat \ {0} /\ MaxSize \in Nat
  <2> HIDE DEF q, d
  <2>1. Size(q) \in Nat /\ Size(d) \in Nat \ {0}
    BY <1>1 DEF Size
  <2> QED
    BY <2>1, GridValues
<1>6. y % Grid[k + 1] = 0 /\ Grid[k + 1] \in Nat \ {0}
  BY GridValues DEF FillFits
<1>7. q # 0 => /\ k \in DOMAIN Grid /\ k + 1 # 1
               /\ n % Grid[k] = 0 /\ y % Grid[k] = 0
               /\ Grid[k] \in Nat \ {0} /\ Grid[k] \in Int
  BY GridValues DEF Fits, FillFits
<1>g. q # 0 => \A size \in 1..MaxSize : Grid[k] % (size * Grid[k + 1]) = 0
  <2> SUFFICES ASSUME q # 0, NEW size \in 1..MaxSize PROVE Grid[k] % (size * Grid[k + 1]) = 0
    OBVIOUS
  <2>1. k + 1 \in DOMAIN Grid \ {1} /\ (k + 1) - 1 = k
    BY <1>7
  <2> QED
    BY <2>1, GridAssumption
<1>8. q # 0 => n % Grid[k + 1] = 0
  <2> SUFFICES ASSUME q # 0 PROVE n % Grid[k + 1] = 0
    OBVIOUS
  <2> DEFINE g == Grid[k]
             h == Grid[k + 1]
  <2>1. g % (1 * h) = 0
    <3>1. 1 \in 1..MaxSize
      BY <1>4, <1>5
    <3> QED
      BY <1>g, <3>1
  <2>2. g \in Nat \ {0} /\ h \in Nat \ {0} /\ n % g = 0 /\ y % g = 0
    BY <1>6, <1>7
  <2> HIDE DEF g, h
  <2>3. ((1 * n + 0 * y) \div 1) % h = 0
    <3>1. 1 \in Nat /\ 0 \in Nat /\ 1 \in Nat \ {0} /\ 1 = 1 + 0 /\ y \in Int
      BY <1>1
    <3> HIDE DEF n, y
    <3>2. OnGrid(1, 0, 1, n, y, g, h)
      BY <1>1, <2>1, <2>2, <3>1 DEF OnGrid
    <3> QED
      BY <3>2, ExactAverage
  <2>4. (1 * n + 0 * y) \div 1 = n
    <3> HIDE DEF n, y
    <3>1. 1 * n + 0 * y = n
      BY <1>1
    <3>2. n \div 1 = n
      BY <1>1
    <3> QED
      BY <3>1, <3>2
  <2> QED
    BY <2>3, <2>4 DEF h
<1>9. /\ q + d # 0 => after % Grid[k + 1] = 0
      /\ gain - (q + d) * after = - (q * n) - d * y
  <2>1. CASE q = 0
    <3>1. after = y /\ gain = 0
      BY <2>1 DEF Entry, Realized
    <3> HIDE DEF q, n, d, y, after, gain
    <3>2. 0 - (0 + d) * y = - (0 * n) - d * y
      BY <1>1
    <3> QED
      BY <1>6, <2>1, <3>1, <3>2
  <2>2. CASE q # 0 /\ SameSide(q, d)
    <3>1. after = (Size(q) * n + Size(d) * y) \div s /\ gain = 0
      BY <2>2 DEF Entry, Realized
    <3>2. /\ s * after = Size(q) * n + Size(d) * y
          /\ after % Grid[k + 1] = 0
      <4> DEFINE g == Grid[k]
                 h == Grid[k + 1]
                 a == Size(q)
                 b == Size(d)
      <4>1. g % (s * h) = 0
        BY <1>4, <1>5, <1>g, <2>2
      <4>2. /\ g \in Nat \ {0} /\ h \in Nat \ {0} /\ n % g = 0 /\ y % g = 0
            /\ a \in Nat /\ b \in Nat /\ s \in Nat \ {0} /\ n \in Int /\ y \in Int
        BY <1>1, <1>5, <1>6, <1>7, <2>2
      <4>3. s = a + b
        OBVIOUS
      <4>4. after = (a * n + b * y) \div s
        BY <3>1
      <4> HIDE DEF g, h, a, b, s, n, y, after
      <4>5. /\ s * ((a * n + b * y) \div s) = a * n + b * y
            /\ ((a * n + b * y) \div s) % h = 0
        <5>1. OnGrid(a, b, s, n, y, g, h)
          BY <4>1, <4>2, <4>3 DEF OnGrid
        <5> QED
          BY <5>1, ExactAverage
      <4> QED
        BY <4>4, <4>5 DEF a, b, h
    <3>3. \/ Size(q) = q /\ Size(d) = d /\ s = q + d
          \/ Size(q) = -q /\ Size(d) = -d /\ s = -(q + d)
      BY <1>1, <2>2 DEF SameSide, Size
    <3> HIDE DEF q, n, d, y, after, gain, s
    <3>4. (q + d) * after = q * n + d * y
      <4>1. CASE Size(q) = q /\ Size(d) = d /\ s = q + d
        BY <3>2, <4>1
      <4>2. CASE Size(q) = -q /\ Size(d) = -d /\ s = -(q + d)
        <5>1. (-(q + d)) * after = -((q + d) * after)
          BY <1>1, <1>2
        <5>2. (-q) * n = -(q * n) /\ (-d) * y = -(d * y)
          BY <1>1
        <5>3. q * n \in Int /\ d * y \in Int /\ (q + d) * after \in Int
          BY <1>1, <1>2
        <5>4. -((q + d) * after) = -(q * n) + -(d * y)
          BY <3>2, <4>2, <5>1, <5>2
        <5> QED
          BY <5>3, <5>4
      <4> QED
        BY <3>3, <4>1, <4>2
    <3>5. q * n \in Int /\ d * y \in Int
      BY <1>1
    <3> QED
      BY <3>1, <3>2, <3>4, <3>5
  <2>3. CASE q # 0 /\ ~SameSide(q, d)
    <3>1. /\ gain = Lower(Size(q), Size(d)) * (y - n) * Direction(q)
          /\ after = IF q + d = 0 THEN 0 ELSE IF SameSide(q, q + d) THEN n ELSE y
      BY <2>3 DEF Entry, Realized
    <3>2. \/ q + d = 0 /\ Lower(Size(q), Size(d)) * Direction(q) = q
          \/ q + d # 0 /\ SameSide(q, q + d) /\ Lower(Size(q), Size(d)) * Direction(q) = -d
          \/ q + d # 0 /\ ~SameSide(q, q + d) /\ Lower(Size(q), Size(d)) * Direction(q) = q
      BY <1>1, <2>3 DEF SameSide, Lower, Size, Direction
    <3> DEFINE l == Lower(Size(q), Size(d))
               e == Direction(q)
    <3>3. l \in Int /\ e \in Int
      BY <1>5 DEF Lower, Direction
    <3>4. gain = l * (y - n) * e
      BY <3>1
    <3>5. \/ q + d = 0 /\ after = 0 /\ l * e = q
          \/ q + d # 0 /\ after = n /\ l * e = -d
          \/ q + d # 0 /\ after = y /\ l * e = q
      BY <3>1, <3>2
    <3> HIDE DEF q, n, d, y, after, gain, l, e
    <3>6. gain = (l * e) * (y - n)
      BY <1>1, <3>3, <3>4
    <3>7. CASE q + d = 0 /\ after = 0 /\ l * e = q
      <4>1. gain = q * (y - n)
        BY <3>6, <3>7
      <4>2. q = -d
        BY <1>1, <3>7
      <4>3. q * (y - n) = q * y - q * n /\ q * y = -(d * y)
        BY <1>1, <4>2
      <4>4. q * y \in Int /\ q * n \in Int /\ d * y \in Int
        BY <1>1
      <4> QED
        BY <3>7, <4>1, <4>3, <4>4
    <3>8. CASE q + d # 0 /\ after = n /\ l * e = -d
      <4>1. gain = (-d) * (y - n)
        BY <3>6, <3>8
      <4>2. (-d) * (y - n) = d * n - d * y /\ (q + d) * n = q * n + d * n
        BY <1>1
      <4>3. d * n \in Int /\ q * n \in Int /\ d * y \in Int
        BY <1>1
      <4>4. gain - (q + d) * after = - (q * n) - d * y
        BY <3>8, <4>1, <4>2, <4>3
      <4> QED
        BY <1>8, <2>3, <3>8, <4>4
    <3>9. CASE q + d # 0 /\ after = y /\ l * e = q
      <4>1. gain = q * (y - n)
        BY <3>6, <3>9
      <4>2. q * (y - n) = q * y - q * n /\ (q + d) * y = q * y + d * y
        BY <1>1
      <4>3. q * y \in Int /\ q * n \in Int /\ d * y \in Int
        BY <1>1
      <4>4. gain - (q + d) * after = - (q * n) - d * y
        BY <3>9, <4>1, <4>2, <4>3
      <4> QED
        BY <1>6, <3>9, <4>4
    <3> QED
      BY <3>5, <3>7, <3>8, <3>9
  <2> QED
    BY <2>1, <2>2, <2>3
<1>10. Fits(ApplyFill(p, o), k + 1)
  BY <1>3, <1>4, <1>9 DEF Fits
<1>11. Worth(ApplyFill(p, o)) = Worth(p) - (o.fee + o.delta * o.price)
  <2>1. Worth(ApplyFill(p, o)) = (c + gain - f) - (q + d) * after
    BY <1>3 DEF Worth
  <2>2. Worth(p) = c - q * n /\ o.fee + o.delta * o.price = f + d * y
    BY DEF Worth
  <2> HIDE DEF q, n, d, y, f, c, after, gain
  <2> DEFINE qa == (q + d) * after
             qn == q * n
             dy == d * y
  <2>3. qa \in Int /\ qn \in Int /\ dy \in Int /\ gain - qa = - qn - dy
    BY <1>1, <1>2, <1>9
  <2> HIDE DEF qa, qn, dy
  <2>4. (c + gain - f) - qa = (c - qn) - (f + dy)
    BY <1>1, <1>2, <2>3
  <2> QED
    BY <2>1, <2>2, <2>4 DEF qa, qn, dy
<1> QED
  BY <1>10, <1>11

----------------------------------------------------------------------------
(* The tables. *)

\* The rows of a table are a finite set.
LEMMA RowsOfSequence ==
  ASSUME NEW S, NEW s \in Seq(S)
  PROVE  ToSet(s) \subseteq S /\ IsFiniteSet(ToSet(s))
<1>1. s \in [1..Len(s) -> S] /\ Len(s) \in Nat /\ DOMAIN s = 1..Len(s)
  OBVIOUS
<1>2. ToSet(s) = {s[i] : i \in 1..Len(s)}
  BY <1>1 DEF ToSet
<1>3. s \in Surjection(1..Len(s), ToSet(s))
  BY <1>1, <1>2 DEF Surjection
<1>4. IsFiniteSet(1..Len(s))
  BY <1>1, FS_Interval
<1> QED
  BY <1>1, <1>2, <1>3, <1>4, FS_Surjection

\* Rows of which no two share an id.
Keyed(S) == \A x, y \in S : x.id = y.id => x = y

\* A rejection moves nothing; a fill fits the orders and the prices.
RowFits(o) == IF o.delta = 0 THEN o.fee = 0 /\ o.realized = 0 ELSE FillFits(o)

OrderTable(S) ==
  /\ IsFiniteSet(S)
  /\ S \subseteq OrderRow
  /\ Keyed(S)
  /\ \A o \in S : RowFits(o)

FillsOf(S) == {o \in S : o.delta # 0}

\* What the rows hold, column by column, and what each took out of the worth.
Deltas(S) == [o \in S |-> o.delta]

Fees(S) == [o \in S |-> o.fee]

Gains(S) == [o \in S |-> o.realized]

Costs(S) == [o \in S |-> o.fee + o.delta * o.price]

LEMMA ColumnsAdd ==
  ASSUME NEW S, IsFiniteSet(S), S \subseteq OrderRow
  PROVE  /\ Adds(Deltas(S), S) /\ Adds(Fees(S), S)
         /\ Adds(Gains(S), S) /\ Adds(Costs(S), S)
<1>1. \A o \in S : o.delta \in Int /\ o.fee \in Int /\ o.realized \in Int /\ o.price \in Int
  BY DEF OrderRow
<1>2. \A o \in S : o.fee + o.delta * o.price \in Int
  BY <1>1
<1> QED
  BY <1>1, <1>2 DEF Adds, Deltas, Fees, Gains, Costs

\* The fills of a table are as many as there are orders, at most.
LEMMA FillsOfTable ==
  ASSUME NEW S, OrderTable(S)
  PROVE  /\ FillRows(FillsOf(S)) /\ FillsOf(S) \in SUBSET S
         /\ \A o \in FillsOf(S) : FillFits(o)
         /\ \A set \in SUBSET FillsOf(S) : Cardinality(set) <= Cardinality(OrderIds)
<1>1. FillsOf(S) \in SUBSET S /\ IsFiniteSet(FillsOf(S))
  BY FS_Subset DEF FillsOf, OrderTable
<1>2. FillRows(FillsOf(S))
  BY <1>1 DEF FillRows, FillsOf, OrderTable, Keyed
<1>3. \A o \in FillsOf(S) : FillFits(o)
  BY DEF FillsOf, OrderTable, RowFits
<1>4. ASSUME NEW set \in SUBSET FillsOf(S)
      PROVE  Cardinality(set) <= Cardinality(OrderIds)
  <2> DEFINE ids == [o \in set |-> o.id]
  <2>1. ids \in Injection(set, OrderIds)
    <3>1. \A o \in set : o.id \in OrderIds
      BY <1>1 DEF OrderTable, OrderRow
    <3>2. \A x, y \in set : x.id = y.id => x = y
      BY <1>1 DEF OrderTable, Keyed
    <3> QED
      BY <3>1, <3>2 DEF Injection, IsInjective
  <2>2. IsFiniteSet(OrderIds)
    BY GridAssumption
  <2> HIDE DEF ids
  <2> QED
    BY <2>1, <2>2, FS_Injection
<1> QED
  BY <1>1, <1>2, <1>3, <1>4

\* What a fill does to the columns.
LEMMA FillColumns ==
  ASSUME NEW p \in PositionSet, NEW o
  PROVE  /\ ApplyFill(p, o).quantity = p.quantity + o.delta
         /\ ApplyFill(p, o).fees = p.fees + o.fee
         /\ ApplyFill(p, o).realized = p.realized + Realized(p, o.delta, o.price)
         /\ ApplyFill(p, o).funding = p.funding
         /\ ApplyFill(p, o).entry = Entry(p, o.delta, o.price)
         /\ ApplyFill(p, o).leverage = Leverage(p, o.delta, o.request.leverage)
         /\ ApplyFill(p, o).cash = p.cash + Realized(p, o.delta, o.price) - o.fee
BY DEF ApplyFill, PositionSet

\* p is a position that the fills in set, of worth w, quantity q and fees f, lead to.
Matches(p, set, q, f, w) ==
  /\ p.quantity = q
  /\ p.fees = f
  /\ p.funding = 0
  /\ Worth(p) = Capital - w
  /\ Fits(p, Cardinality(set))

\* The replay of a table in the order of the timestamps has the quantity, the
\* fees and the worth of its rows.
LEMMA ReplayedColumns ==
  ASSUME NEW S, OrderTable(S)
  PROVE  /\ Replayed(FillsOf(S)) \in PositionSet
         /\ Matches(Replayed(FillsOf(S)), FillsOf(S), SumFunction(Deltas(S)),
                    SumFunction(Fees(S)), SumFunction(Costs(S)))
<1> DEFINE F == FillsOf(S)
           R == ReplayOf(F)
           Q == SumOf(Deltas(S))
           E == SumOf(Fees(S))
           W == SumOf(Costs(S))
           Match(set) == Matches(R[set], set, Q[set], E[set], W[set])
           P == {set \in SUBSET F : Match(set)}
<1>1. FillRows(F) /\ IsFiniteSet(F) /\ F \in SUBSET S /\ F \subseteq OrderRow
  BY FillsOfTable DEF FillRows
<1>2. Replays(R, F)
  BY <1>1, ReplayExists
<1>3. /\ Adds(Deltas(S), S) /\ Adds(Fees(S), S) /\ Adds(Costs(S), S)
      /\ Sums(Q, Deltas(S), S) /\ Sums(E, Fees(S), S) /\ Sums(W, Costs(S), S)
  BY ColumnsAdd, SumExists DEF OrderTable
<1>0. /\ R \in [SUBSET F -> PositionSet]
      /\ Q \in [SUBSET S -> Int] /\ E \in [SUBSET S -> Int] /\ W \in [SUBSET S -> Int]
  BY <1>2, <1>3 DEF Replays, Sums
<1> HIDE DEF F, R, Q, E, W
<1>4. {} \in P
  <2>1. R[{}] = Flat /\ Q[{}] = 0 /\ E[{}] = 0 /\ W[{}] = 0
    BY <1>2, <1>3 DEF Replays, Sums
  <2>2. Cardinality({}) = 0
    BY FS_EmptySet
  <2>3. Fits(Flat, 0)
    BY GridValues DEF Fits, Flat, Size
  <2>4. Flat.quantity = 0 /\ Flat.fees = 0 /\ Flat.funding = 0 /\ Worth(Flat) = Capital - 0
    BY EngineAssumption DEF Flat, Worth
  <2>5. Match({})
    BY <2>1, <2>2, <2>3, <2>4 DEF Matches
  <2> QED
    BY <2>5
<1>5. ASSUME NEW set \in SUBSET F, set # {}
      PROVE  \E x \in set : set \ {x} \in P => set \in P
  <2> DEFINE o == LastOf(set)
             rest == set \ {o}
             k == Cardinality(rest)
  <2>1. o \in set /\ rest \in SUBSET F
    BY <1>1, <1>5, LastIsLast
  <2>2. R[set] = ApplyFill(R[rest], o) /\ R[rest] \in PositionSet
    BY <1>0, <1>2, <1>5, <2>1 DEF Replays
  <2>3. /\ o \in OrderRow /\ FillFits(o) /\ o \in S
        /\ set \in SUBSET S /\ rest \in SUBSET S
    BY <1>1, <2>1, FillsOfTable DEF F
  <2>4. k \in Nat /\ k + 1 = Cardinality(set) /\ k + 1 \in DOMAIN Grid
    <3>1. Cardinality(set) \in Nat /\ Cardinality(rest) = Cardinality(set) - 1
          /\ Cardinality(rest) \in Nat
      BY <1>1, <2>1, SubsetSizes
    <3>2. Cardinality(set) <= Cardinality(OrderIds)
      BY FillsOfTable DEF F
    <3> QED
      BY <3>1, <3>2, GridValues
  <2>5. /\ Q[set] = Deltas(S)[o] + Q[rest]
        /\ E[set] = Fees(S)[o] + E[rest]
        /\ W[set] = Costs(S)[o] + W[rest]
    BY <1>3, <2>1, <2>3, SumWithout
  <2>6. /\ Deltas(S)[o] = o.delta /\ Fees(S)[o] = o.fee
        /\ Costs(S)[o] = o.fee + o.delta * o.price
    BY <2>3 DEF Deltas, Fees, Costs
  <2>7. /\ Q[rest] \in Int /\ E[rest] \in Int /\ W[rest] \in Int
        /\ o.delta \in Int /\ o.fee \in Int /\ o.fee + o.delta * o.price \in Int
        /\ Capital \in Int
    <3>1. o.delta \in Int /\ o.fee \in Int /\ o.price \in Int
      BY <2>3 DEF OrderRow
    <3> HIDE DEF o, rest
    <3>2. o.fee + o.delta * o.price \in Int
      BY <3>1
    <3> QED
      BY <1>0, <2>3, <3>1, <3>2, EngineAssumption
  <2>8. ASSUME Match(rest)
        PROVE  Match(set)
    <3> DEFINE p == R[rest]
               c == o.fee + o.delta * o.price
    <3>1. /\ p.quantity = Q[rest] /\ p.fees = E[rest] /\ p.funding = 0
          /\ Worth(p) = Capital - W[rest] /\ Fits(p, k)
      BY <2>8 DEF Matches
    <3>2. /\ ApplyFill(p, o).quantity = p.quantity + o.delta
          /\ ApplyFill(p, o).fees = p.fees + o.fee
          /\ ApplyFill(p, o).funding = p.funding
      BY <2>2, FillColumns
    <3>3. Fits(ApplyFill(p, o), k + 1) /\ Worth(ApplyFill(p, o)) = Worth(p) - c
      BY <2>2, <2>3, <2>4, <3>1, FillKeepsWorth
    <3>4. /\ Q[set] = o.delta + Q[rest] /\ E[set] = o.fee + E[rest] /\ W[set] = c + W[rest]
      BY <2>5, <2>6
    <3> HIDE DEF p, k, c, o, rest
    <3>5. /\ Q[rest] + o.delta = Q[set] /\ E[rest] + o.fee = E[set]
      BY <2>7, <3>4
    <3>6. (Capital - W[rest]) - c = Capital - W[set]
      BY <2>7, <3>4 DEF c
    <3> QED
      BY <2>2, <2>4, <3>1, <3>2, <3>3, <3>5, <3>6 DEF Matches, p
  <2>9. rest \in P => set \in P
    <3> HIDE DEF Match, o
    <3> QED
      BY <2>1, <2>8
  <2> HIDE DEF P
  <2> QED
    BY <2>1, <2>9
<1>6. F \in P
  <2>1. SUBSET F \subseteq P
    <3>1. Inductive(P, F)
      BY <1>4, <1>5 DEF Inductive
    <3> HIDE DEF P
    <3> QED
      BY <1>1, <3>1, SubsetInduction
  <2> HIDE DEF P
  <2> QED
    BY <2>1
<1>7. Replayed(F) = R[F] /\ Replayed(F) \in PositionSet
  <2>1. Replayed(F) = R[F]
    BY ReplayIsFold DEF R
  <2> QED
    BY <1>0, <2>1
<1>8. Q[F] = SumFunction(Deltas(S)) /\ E[F] = SumFunction(Fees(S)) /\ W[F] = SumFunction(Costs(S))
  <2>1. \A o \in S \ F : o.delta = 0 /\ o.fee = 0 /\ o.price \in Int
    BY DEF F, FillsOf, OrderTable, RowFits, OrderRow
  <2>2. \A o \in S \ F : Deltas(S)[o] = 0 /\ Fees(S)[o] = 0 /\ Costs(S)[o] = 0
    BY <2>1 DEF Deltas, Fees, Costs
  <2>3. Q[F] = Q[S] /\ E[F] = E[S] /\ W[F] = W[S]
    BY <1>1, <1>3, <2>2, SumWithoutZeros
  <2>4. /\ DOMAIN Deltas(S) = S /\ DOMAIN Fees(S) = S /\ DOMAIN Costs(S) = S
    BY DEF Deltas, Fees, Costs
  <2> QED
    BY <2>3, <2>4, SumIsFold DEF Q, E, W
<1> QED
  BY <1>6, <1>7, <1>8 DEF F

\* Positions with the same columns are the same.
LEMMA SamePosition ==
  ASSUME NEW p \in PositionSet, NEW r \in PositionSet,
         p.quantity = r.quantity, p.entry = r.entry, p.realized = r.realized,
         p.fees = r.fees, p.funding = r.funding, p.cash = r.cash, p.leverage = r.leverage
  PROVE  p = r
BY DEF PositionSet

\* What a payment does to the columns.
LEMMA PaidColumns ==
  ASSUME NEW p \in PositionSet, NEW a \in Int
  PROVE  /\ Paid(p, a) \in PositionSet
         /\ Paid(p, a).quantity = p.quantity /\ Paid(p, a).entry = p.entry
         /\ Paid(p, a).realized = p.realized /\ Paid(p, a).fees = p.fees
         /\ Paid(p, a).leverage = p.leverage
         /\ Paid(p, a).funding = p.funding + a /\ Paid(p, a).cash = p.cash + a
<1> DEFINE u == p.funding + a
           c == p.cash + a
<1>1. u \in Int /\ c \in Int
  BY DEF PositionSet
<1>2. Paid(p, a) = [p EXCEPT !.funding = u, !.cash = c]
  BY DEF Paid
<1> HIDE DEF u, c
<1>3. /\ Paid(p, a) \in PositionSet
      /\ Paid(p, a).quantity = p.quantity /\ Paid(p, a).entry = p.entry
      /\ Paid(p, a).realized = p.realized /\ Paid(p, a).fees = p.fees
      /\ Paid(p, a).leverage = p.leverage
      /\ Paid(p, a).funding = u /\ Paid(p, a).cash = c
  BY <1>1, <1>2 DEF PositionSet
<1> QED
  BY <1>3 DEF u, c

\* A payment and a fill commute, and payments add up.
LEMMA PaymentsCommute ==
  ASSUME NEW p \in PositionSet, NEW a \in Int
  PROVE  /\ \A b \in Int : Paid(Paid(p, a), b) = Paid(p, a + b)
         /\ \A o \in OrderRow : o.delta # 0 =>
              ApplyFill(Paid(p, a), o) = Paid(ApplyFill(p, o), a)
<1>1. p.funding \in Int /\ p.cash \in Int
  BY DEF PositionSet
<1>2. ASSUME NEW b \in Int
      PROVE  Paid(Paid(p, a), b) = Paid(p, a + b)
  <2>1. a + b \in Int
    OBVIOUS
  <2>2. /\ (p.funding + a) + b = p.funding + (a + b)
        /\ (p.cash + a) + b = p.cash + (a + b)
    BY <1>1
  <2> DEFINE t == Paid(p, a)
             r == Paid(t, b)
             s == Paid(p, a + b)
  <2>3. /\ t \in PositionSet
        /\ t.quantity = p.quantity /\ t.entry = p.entry /\ t.realized = p.realized
        /\ t.fees = p.fees /\ t.leverage = p.leverage
        /\ t.funding = p.funding + a /\ t.cash = p.cash + a
    BY PaidColumns
  <2> HIDE DEF t
  <2>4. /\ r \in PositionSet
        /\ r.quantity = t.quantity /\ r.entry = t.entry /\ r.realized = t.realized
        /\ r.fees = t.fees /\ r.leverage = t.leverage
        /\ r.funding = t.funding + b /\ r.cash = t.cash + b
    BY <2>3, PaidColumns
  <2>6. /\ s \in PositionSet
        /\ s.quantity = p.quantity /\ s.entry = p.entry /\ s.realized = p.realized
        /\ s.fees = p.fees /\ s.leverage = p.leverage
        /\ s.funding = p.funding + (a + b) /\ s.cash = p.cash + (a + b)
    BY <2>1, PaidColumns
  <2> HIDE DEF r, s
  <2>5. r = s
    BY <2>2, <2>3, <2>4, <2>6, SamePosition
  <2> QED
    BY <2>5 DEF r, s, t
<1>3. ASSUME NEW o \in OrderRow, o.delta # 0
      PROVE  ApplyFill(Paid(p, a), o) = Paid(ApplyFill(p, o), a)
  <2> DEFINE t == Paid(p, a)
             r == ApplyFill(t, o)
             s == Paid(ApplyFill(p, o), a)
             gain == Realized(p, o.delta, o.price)
  <2>1. o.delta \in Int /\ o.price \in Nat /\ o.fee \in Int
    BY DEF OrderRow
  <2>2. gain \in Int
    BY <2>1, <1>3, FillIntegers DEF PositionSet
  <2>3. t \in PositionSet /\ ApplyFill(p, o) \in PositionSet
    BY <1>3, PaidColumns, FillKeepsBalance
  <2>4. r \in PositionSet /\ s \in PositionSet
    BY <1>3, <2>3, PaidColumns, FillKeepsBalance
  <2>5. /\ t.quantity = p.quantity /\ t.entry = p.entry /\ t.leverage = p.leverage
        /\ t.realized = p.realized /\ t.fees = p.fees
        /\ t.funding = p.funding + a /\ t.cash = p.cash + a
    BY PaidColumns
  <2>6. /\ Realized(t, o.delta, o.price) = gain
        /\ Entry(t, o.delta, o.price) = Entry(p, o.delta, o.price)
        /\ Leverage(t, o.delta, o.request.leverage) = Leverage(p, o.delta, o.request.leverage)
    BY <2>5 DEF Realized, Entry, Leverage
  <2>7. /\ s.quantity = ApplyFill(p, o).quantity /\ s.entry = ApplyFill(p, o).entry
        /\ s.leverage = ApplyFill(p, o).leverage /\ s.realized = ApplyFill(p, o).realized
        /\ s.fees = ApplyFill(p, o).fees /\ s.funding = ApplyFill(p, o).funding + a
        /\ s.cash = ApplyFill(p, o).cash + a
    BY <2>3, PaidColumns
  <2> HIDE DEF r, s, t, gain
  <2>8. (p.cash + a) + gain - o.fee = (p.cash + gain - o.fee) + a
    BY <1>1, <2>1, <2>2
  <2>9. /\ r.quantity = s.quantity /\ r.entry = s.entry /\ r.realized = s.realized
        /\ r.fees = s.fees /\ r.funding = s.funding /\ r.cash = s.cash
        /\ r.leverage = s.leverage
    <3>1. /\ r.quantity = t.quantity + o.delta /\ r.fees = t.fees + o.fee
          /\ r.realized = t.realized + gain /\ r.funding = t.funding
          /\ r.entry = Entry(p, o.delta, o.price)
          /\ r.leverage = Leverage(p, o.delta, o.request.leverage)
          /\ r.cash = t.cash + gain - o.fee
      <4>1. /\ r.quantity = t.quantity + o.delta /\ r.fees = t.fees + o.fee
            /\ r.realized = t.realized + Realized(t, o.delta, o.price)
            /\ r.funding = t.funding
            /\ r.entry = Entry(t, o.delta, o.price)
            /\ r.leverage = Leverage(t, o.delta, o.request.leverage)
            /\ r.cash = t.cash + Realized(t, o.delta, o.price) - o.fee
        BY <2>3, FillColumns DEF r
      <4> QED
        BY <2>6, <4>1
    <3>2. /\ s.quantity = p.quantity + o.delta /\ s.fees = p.fees + o.fee
          /\ s.realized = p.realized + gain /\ s.funding = p.funding + a
          /\ s.entry = Entry(p, o.delta, o.price)
          /\ s.leverage = Leverage(p, o.delta, o.request.leverage)
          /\ s.cash = (p.cash + gain - o.fee) + a
      BY <2>7, FillColumns DEF gain
    <3> QED
      BY <2>5, <2>8, <3>1, <3>2
  <2>10. r = s
    BY <2>4, <2>9, SamePosition
  <2> QED
    BY <2>10 DEF r, s, t
<1> QED
  BY <1>2, <1>3

----------------------------------------------------------------------------
(* Lemmas about the decision. *)

\* What an accepted request fills: at least one unit, no more than it wants.
LEMMA FilledQuantity ==
  ASSUME TypeOK, NEW r \in Requests, NEW b \in Books, ~Refused(r, b)
  PROVE  /\ Lower(Wanted(r), b.depth) \in Nat \ {0}
         /\ Lower(Wanted(r), b.depth) <= Wanted(r)
         /\ Wanted(r) \in Nat \ {0}
<1>1. r.quantity \in Nat \ {0} /\ b.depth \in Nat /\ position.quantity \in Int
  BY EngineAssumption DEF TypeOK, PositionSet
<1>2. b.depth # 0 /\ ~WrongReduction(r)
  BY DEF Refused
<1>3. Wanted(r) \in Nat \ {0}
  <2>1. CASE r.reduceOnly
    BY <1>1, <1>2, <2>1 DEF Wanted, WrongReduction, Lower, Size
  <2>2. CASE ~r.reduceOnly
    BY <1>1, <2>2 DEF Wanted
  <2> QED
    BY <2>1, <2>2
<1> QED
  BY <1>1, <1>2, <1>3 DEF Lower

\* The signed quantity of a fill; a reduction stays within the position.
LEMMA FilledDelta ==
  ASSUME TypeOK, NEW r \in Requests, NEW b \in Books, ~Refused(r, b),
         NEW delta, delta = r.side * Lower(Wanted(r), b.depth)
  PROVE  /\ delta \in Int
         /\ delta # 0
         /\ r.reduceOnly =>
              /\ Size(position.quantity + delta) < Size(position.quantity)
              /\ position.quantity + delta # 0 =>
                   SameSide(position.quantity, position.quantity + delta)
<1> DEFINE n == Lower(Wanted(r), b.depth)
           q == position.quantity
<1>1. n \in Nat \ {0} /\ n <= Wanted(r) /\ Wanted(r) \in Nat \ {0}
  BY FilledQuantity
<1>2. q \in Int /\ r.side \in {1, -1} /\ r.quantity \in Nat \ {0}
  BY EngineAssumption DEF TypeOK, PositionSet
<1>3. delta = r.side * n
  OBVIOUS
<1> HIDE DEF n
<1>4. delta = n \/ delta = -n
  BY <1>1, <1>2, <1>3
<1>5. r.reduceOnly => n <= Size(q) /\ q # 0 /\ ~SameSide(q, r.side)
  <2>1. r.reduceOnly => Wanted(r) <= Size(q)
    BY <1>2 DEF Wanted, Lower, Size
  <2>2. r.reduceOnly => q # 0 /\ ~SameSide(q, r.side)
    BY DEF Refused, WrongReduction
  <2>3. Size(q) \in Nat
    BY <1>2 DEF Size
  <2> QED
    BY <1>1, <2>1, <2>2, <2>3
<1>6. r.side = 1 => delta = n
  BY <1>1, <1>3
<1>7. r.side = -1 => delta = -n
  BY <1>1, <1>3
<1> QED
  BY <1>1, <1>2, <1>4, <1>5, <1>6, <1>7 DEF Size, SameSide

\* Both kinds of order row have their columns.
LEMMA OrderRows ==
  ASSUME TypeOK, NEW o \in OrderIds, NEW r \in Requests, NEW b \in Books
  PROVE  /\ Rejection(o, r, b) \in OrderRow
         /\ ~Refused(r, b) => Fill(o, r, b) \in OrderRow /\ Fill(o, r, b).delta # 0
<1>1. /\ r.at \in Nat /\ b.ts \in Nat /\ b.price \in Nat /\ position \in PositionSet
      /\ FeeScale \in Nat \ {0} /\ r.leverage \in Int
  BY EngineAssumption DEF TypeOK
<1>2. Rejection(o, r, b) \in OrderRow
  BY <1>1 DEF Rejection, OrderRow
<1>3. ASSUME ~Refused(r, b)
      PROVE  Fill(o, r, b) \in OrderRow /\ Fill(o, r, b).delta # 0
  <2> DEFINE n == Lower(Wanted(r), b.depth)
             delta == r.side * n
             fee == (n * b.price) \div FeeScale
             gain == Realized(position, delta, b.price)
             ts == IF r.at > b.ts THEN r.at ELSE b.ts
  <2>1. n \in Nat \ {0}
    BY <1>3, FilledQuantity
  <2>2. delta \in Int /\ delta # 0
    BY <1>3, FilledDelta
  <2>3. fee \in Int
    <3>1. n * b.price \in Nat
      BY <1>1, <2>1
    <3> QED
      BY <1>1, <3>1
  <2>4. gain \in Int
    BY <1>1, <2>2, FillIntegers
  <2>5. ts \in Nat
    BY <1>1
  <2>6. Fill(o, r, b) =
          [id |-> o, request |-> r, ts |-> ts, delta |-> delta, price |-> b.price,
           fee |-> fee, realized |-> gain]
    BY DEF Fill
  <2> HIDE DEF n, delta, fee, gain, ts
  <2> QED
    BY <1>1, <2>2, <2>3, <2>4, <2>5, <2>6 DEF OrderRow
<1> QED
  BY <1>2, <1>3

----------------------------------------------------------------------------
(* The invariant, action by action. *)

LEMMA InvInit == Init => IInv
<1> SUFFICES ASSUME Init
             PROVE  IInv
  OBVIOUS
<1>1. Flat \in PositionSet /\ Balanced(Flat)
  BY EngineAssumption DEF Flat, PositionSet, Balanced
<1>2. TypeOK
  BY <1>1 DEF Init, TypeOK
<1>3. MemoryIsDurable /\ CashAddsUp
  BY <1>1 DEF Init, MemoryIsDurable, Effective, Committed, CashAddsUp, Balanced
<1>4. WorkSound /\ LateSound
  BY DEF Init, WorkSound, LateSound, Pending, Exposing
<1> QED
  BY <1>2, <1>3, <1>4 DEF IInv

\* While a submission can start, memory and row agree and balance.
LEMMA MemoryBetween ==
  ASSUME IInv, up, ~Committed
  PROVE  position = row /\ Balanced(position) /\ position \in PositionSet
BY DEF IInv, MemoryIsDurable, Effective, CashAddsUp, Balanced, TypeOK

LEMMA InvSubmit ==
  ASSUME IInv, NEW o \in OrderIds, NEW r \in Requests, NEW b \in Books, Submit(o, r, b)
  PROVE  IInv'
<1>1. /\ up /\ work = None /\ ~Recorded(o) /\ TypeOK
      /\ UNCHANGED <<durable, up, position, kill, known, replayed, late>>
  BY DEF Submit, IInv
<1>2. ~Committed /\ position = row /\ Balanced(position) /\ position \in PositionSet
  BY <1>1, MemoryBetween DEF Committed
<1>3. PICK e \in OrderRow, n \in PositionSet :
        /\ work' = [stage |-> "order", entry |-> e, next |-> n]
        /\ e.id = o /\ e.request = r
        /\ Balanced(n)
        /\ Sound(r, e.delta, position, n)
        /\ kill /\ ~r.reduceOnly => e.delta = 0
  <2>1. CASE Refused(r, b)
    <3>1. work' = [stage |-> "order", entry |-> Rejection(o, r, b), next |-> position]
      BY <2>1 DEF Submit
    <3>2. /\ Rejection(o, r, b) \in OrderRow
          /\ Rejection(o, r, b).id = o
          /\ Rejection(o, r, b).request = r
          /\ Rejection(o, r, b).delta = 0
      BY <1>1, OrderRows DEF Rejection
    <3>3. Sound(r, 0, position, position)
      BY <1>2 DEF Sound, PositionSet
    <3> QED
      BY <1>2, <3>1, <3>2, <3>3
  <2>2. CASE ~Refused(r, b)
    <3> DEFINE e == Fill(o, r, b)
               n == ApplyFill(position, e)
    <3>1. work' = [stage |-> "order", entry |-> e, next |-> n]
      BY <2>2 DEF Submit
    <3>2. e \in OrderRow /\ e.delta # 0 /\ e.id = o /\ e.request = r
      BY <1>1, <2>2, OrderRows DEF Fill
    <3>3. e.delta = r.side * Lower(Wanted(r), b.depth)
      BY DEF Fill
    <3> HIDE DEF e
    <3>4. /\ n \in PositionSet
          /\ n.quantity = position.quantity + e.delta
          /\ Balanced(n)
      BY <1>2, <3>2, FillKeepsBalance
    <3> HIDE DEF n
    <3>5. Sound(r, e.delta, position, n)
      BY <1>1, <2>2, <3>3, <3>4, FilledDelta DEF Sound
    <3>6. kill => r.reduceOnly
      BY <2>2 DEF Refused, Blocked, Degraded
    <3> QED
      BY <3>1, <3>2, <3>4, <3>5, <3>6
  <2> QED
    BY <2>1, <2>2
<1>4. work' \in OrderWork /\ work' # None
  BY <1>3, NoneAssumption DEF OrderWork
<1>5. TypeOK'
  BY <1>1, <1>4 DEF TypeOK, durable
<1>6. ~Committed'
  BY <1>3 DEF Committed
<1>7. MemoryIsDurable' /\ CashAddsUp'
  BY <1>1, <1>2, <1>6 DEF IInv, MemoryIsDurable, Effective, CashAddsUp, durable
<1>8. WorkSound'
  <2>1. work'.entry.id = o /\ work'.entry.request = r /\ work'.stage = "order"
    BY <1>3
  <2>2. Balanced(work'.next) /\ Sound(work'.entry.request, work'.entry.delta, row', work'.next)
    BY <1>1, <1>2, <1>3 DEF durable
  <2>3. ~Recorded(o)'
    BY <1>1 DEF Recorded, durable
  <2> QED
    BY <1>1, <2>1, <2>2, <2>3 DEF WorkSound, Pending, Balanced, Sound, Recorded
<1>9. LateSound'
  <2>1. ~Exposing'
    BY <1>1, <1>3 DEF Exposing
  <2> QED
    BY <1>1, <2>1 DEF IInv, LateSound
<1> QED
  BY <1>5, <1>7, <1>8, <1>9 DEF IInv

LEMMA InvSubmitFunding ==
  ASSUME IInv, NEW f \in FundingIds, NEW e \in Fundings, SubmitFunding(f, e)
  PROVE  IInv'
<1> DEFINE charge == [id |-> f, ts |-> e.ts,
                      payment |-> -(position.quantity * e.mark * e.rate)]
           n == ApplyFunding(position, charge)
<1>1. /\ up /\ work = None /\ TypeOK
      /\ work' = [stage |-> "funding", entry |-> charge, next |-> n]
      /\ UNCHANGED <<durable, up, position, kill, known, replayed, late>>
  BY DEF SubmitFunding, IInv
<1>2. ~Committed /\ position = row /\ Balanced(position) /\ position \in PositionSet
  BY <1>1, MemoryBetween DEF Committed
<1>3. charge \in FundingRow
  <2>1. e.ts \in Nat /\ e.mark \in Int /\ e.rate \in Int /\ position.quantity \in Int
    BY <1>2, EngineAssumption DEF PositionSet
  <2>2. -(position.quantity * e.mark * e.rate) \in Int
    BY <2>1
  <2> QED
    BY <2>1, <2>2 DEF FundingRow
<1> HIDE DEF charge
<1>4. n \in PositionSet /\ n.quantity = position.quantity /\ Balanced(n)
  BY <1>2, <1>3, FundingKeepsBalance
<1> HIDE DEF n
<1>5. work' \in FundingWork /\ work' # None
  BY <1>1, <1>3, <1>4, NoneAssumption DEF FundingWork
<1>6. TypeOK'
  BY <1>1, <1>5 DEF TypeOK, durable
<1>7. MemoryIsDurable' /\ CashAddsUp'
  <2>1. ~Committed'
    BY <1>1 DEF Committed
  <2> QED
    BY <1>1, <1>2, <2>1 DEF IInv, MemoryIsDurable, Effective, CashAddsUp, durable
<1>8. WorkSound'
  BY <1>1, <1>2, <1>4 DEF WorkSound, Pending, Balanced, durable
<1>9. LateSound'
  <2>1. ~Exposing'
    BY <1>1 DEF Exposing, Pending
  <2> QED
    BY <1>1, <2>1 DEF IInv, LateSound
<1> QED
  BY <1>6, <1>7, <1>8, <1>9 DEF IInv

LEMMA InvCommit ==
  ASSUME IInv, Commit
  PROVE  IInv'
<1>1. /\ up /\ work # None /\ work.stage # "committed" /\ TypeOK
      /\ row' = work.next
      /\ work' = [work EXCEPT !.stage = "committed"]
      /\ UNCHANGED <<up, position, kill, known, replayed>>
  BY DEF Commit, IInv
<1>2. Balanced(work.next)
  BY <1>1 DEF IInv, WorkSound
<1>3. \/ work \in OrderWork /\ work.stage = "order"
      \/ work \in FundingWork /\ work.stage = "funding"
  BY <1>1 DEF TypeOK, OrderWork, FundingWork
<1>4. /\ work' \in OrderWork \cup FundingWork
      /\ work' # None
      /\ work'.stage = "committed"
      /\ work'.next = work.next
      /\ work.next \in PositionSet
  <2>1. CASE work \in OrderWork
    BY <1>1, <2>1, NoneAssumption DEF OrderWork
  <2>2. CASE work \in FundingWork
    BY <1>1, <2>2, NoneAssumption DEF FundingWork
  <2> QED
    BY <1>3, <2>1, <2>2
<1>5. orders' \in Seq(OrderRow) /\ funding' \in Seq(FundingRow) /\ late' \in Nat
  <2>1. CASE work \in OrderWork /\ work.stage = "order"
    <3>1. work.entry \in OrderRow
      BY <2>1 DEF OrderWork
    <3>2. orders' = Append(orders, work.entry) /\ funding' = funding
      BY <2>1 DEF Commit
    <3>3. late' = late \/ late' = late + 1
      BY <2>1 DEF Commit
    <3>4. orders \in Seq(OrderRow) /\ funding \in Seq(FundingRow) /\ late \in Nat
      BY <1>1 DEF TypeOK
    <3> QED
      BY <3>1, <3>2, <3>3, <3>4
  <2>2. CASE work \in FundingWork /\ work.stage = "funding"
    <3>1. work.entry \in FundingRow
      BY <2>2 DEF FundingWork
    <3> QED
      BY <2>2, <3>1, <1>1 DEF Commit, TypeOK
  <2> QED
    BY <1>3, <2>1, <2>2
<1>6. TypeOK'
  BY <1>1, <1>4, <1>5 DEF TypeOK
<1>7. MemoryIsDurable' /\ CashAddsUp'
  BY <1>1, <1>2, <1>4 DEF MemoryIsDurable, Effective, Committed, CashAddsUp, Balanced
<1>8. WorkSound'
  BY <1>1, <1>2, <1>4 DEF WorkSound, Pending, Balanced
<1>9. LateSound'
  <2>1. ~Exposing'
    BY <1>4 DEF Exposing, Pending
  <2>2. late \in Nat /\ LateSound
    BY <1>1 DEF TypeOK, IInv
  <2>3. CASE late' = late
    BY <1>1, <2>1, <2>2, <2>3 DEF LateSound
  <2>4. CASE late' # late
    <3>1. kill /\ Exposing /\ late' = late + 1
      BY <1>1, <1>3, <2>4 DEF Commit, Exposing, Pending
    <3> QED
      BY <1>1, <2>1, <2>2, <3>1 DEF LateSound
  <2> QED
    BY <2>3, <2>4
<1> QED
  BY <1>6, <1>7, <1>8, <1>9 DEF IInv

\* The lock is given up and nothing pending remains.
LEMMA InvIdle ==
  ASSUME IInv, CommitFails \/ Assign
  PROVE  IInv'
<1>1. /\ work' = None /\ up /\ work # None /\ TypeOK
      /\ UNCHANGED <<durable, up, kill, known, replayed, late>>
  BY DEF CommitFails, Assign, IInv
<1>2. position' = row
  <2>1. CASE CommitFails
    BY <2>1, <1>1, MemoryBetween DEF CommitFails, Committed
  <2>2. CASE Assign
    <3>1. Committed /\ position' = work.next
      BY <2>2 DEF Assign, Committed
    <3> QED
      BY <3>1 DEF IInv, MemoryIsDurable
  <2> QED
    BY <2>1, <2>2
<1>3. TypeOK'
  BY <1>1, <1>2 DEF TypeOK, durable
<1>4. MemoryIsDurable' /\ CashAddsUp'
  BY <1>1, <1>2 DEF IInv, MemoryIsDurable, Effective, Committed, CashAddsUp, durable
<1>5. WorkSound' /\ LateSound'
  BY <1>1 DEF IInv, WorkSound, LateSound, Pending, Exposing
<1> QED
  BY <1>3, <1>4, <1>5 DEF IInv

LEMMA InvSetPaperEnabled ==
  ASSUME IInv, NEW enabled \in BOOLEAN, SetPaperEnabled(enabled)
  PROVE  IInv'
<1>1. /\ up /\ TypeOK /\ kill' = ~enabled
      /\ late' = IF enabled \/ ~kill THEN 0 ELSE late
      /\ UNCHANGED <<durable, up, position, known, work, replayed>>
  BY DEF SetPaperEnabled, IInv
<1>2. TypeOK'
  BY <1>1 DEF TypeOK, durable
<1>3. MemoryIsDurable' /\ CashAddsUp' /\ WorkSound'
  BY <1>1 DEF IInv, MemoryIsDurable, Effective, Committed, CashAddsUp, WorkSound,
              Pending, Balanced, Sound, Recorded, durable
<1>4. LateSound'
  <2>1. CASE enabled \/ ~kill
    <3>1. late' = 0
      BY <1>1, <2>1
    <3> QED
      BY <3>1 DEF LateSound
  <2>2. CASE ~enabled /\ kill
    <3>1. late' = late /\ kill' = TRUE /\ kill = TRUE /\ work' = work
      BY <1>1, <2>2 DEF TypeOK
    <3>2. Exposing' => Exposing
      BY <3>1 DEF Exposing, Pending
    <3>3. LateSound
      BY DEF IInv
    <3> QED
      BY <3>1, <3>2, <3>3 DEF LateSound
  <2> QED
    BY <2>1, <2>2
<1> QED
  BY <1>2, <1>3, <1>4 DEF IInv

LEMMA InvReconcile ==
  ASSUME IInv, ReconcileRead \/ ReconcileCompare \/ ReconcileAssign
  PROVE  IInv'
<1>1. /\ TypeOK
      /\ UNCHANGED <<durable, up, position, kill, work, late>>
      /\ known' = known \/ known' = (replayed.stage = "same")
  BY DEF ReconcileRead, ReconcileCompare, ReconcileAssign, ReconcileAssign, IInv
<1>2. TypeOK'
  BY <1>1 DEF TypeOK, durable
<1>3. MemoryIsDurable' /\ CashAddsUp' /\ WorkSound' /\ LateSound'
  BY <1>1 DEF IInv, MemoryIsDurable, Effective, Committed, CashAddsUp, WorkSound,
              LateSound, Exposing, Pending, Balanced, Sound, Recorded, durable
<1> QED
  BY <1>2, <1>3 DEF IInv

LEMMA InvCrash ==
  ASSUME IInv, Crash
  PROVE  IInv'
<1>1. Flat \in PositionSet
  BY EngineAssumption DEF Flat, PositionSet
<1>2. TypeOK'
  BY <1>1 DEF Crash, IInv, TypeOK, durable
<1>3. MemoryIsDurable' /\ CashAddsUp' /\ WorkSound' /\ LateSound'
  BY DEF Crash, IInv, MemoryIsDurable, Effective, Committed, CashAddsUp, WorkSound,
         LateSound, Exposing, Pending, durable
<1> QED
  BY <1>2, <1>3 DEF IInv

LEMMA InvRestart ==
  ASSUME IInv, Restart
  PROVE  IInv'
<1>1. /\ TypeOK /\ ~up /\ work = None
      /\ up' /\ position' = row
      /\ known' = (Replay = row)
      /\ UNCHANGED <<durable, kill, work, replayed, late>>
  BY DEF Restart, IInv, WorkSound, TypeOK
<1>2. TypeOK'
  BY <1>1 DEF TypeOK, Restart, durable
<1>3. MemoryIsDurable' /\ CashAddsUp' /\ WorkSound' /\ LateSound'
  BY <1>1 DEF IInv, MemoryIsDurable, Effective, Committed, CashAddsUp, WorkSound,
              LateSound, Exposing, Pending, durable
<1> QED
  BY <1>2, <1>3 DEF IInv

LEMMA InvNext == IInv /\ [Next]_vars => IInv'
<1> SUFFICES ASSUME IInv, [Next]_vars
             PROVE  IInv'
  OBVIOUS
<1>1. CASE UNCHANGED vars
  BY <1>1 DEF vars, durable, IInv, TypeOK, MemoryIsDurable, Effective, Committed,
              CashAddsUp, WorkSound, LateSound, Exposing, Pending, Balanced, Sound, Recorded
<1>2. CASE Next
  BY <1>2, InvSubmit, InvSubmitFunding, InvCommit, InvIdle, InvSetPaperEnabled,
     InvReconcile, InvCrash, InvRestart DEF Next
<1> QED
  BY <1>1, <1>2

LEMMA Invariance == Spec => []IInv
BY InvInit, InvNext, PTL DEF Spec

----------------------------------------------------------------------------
(* The books. *)

\* What a pending order holds: its row and the position it leads to.
NextOfOrder(o, next) ==
  /\ RowFits(o)
  /\ IF o.delta = 0
       THEN next = row
       ELSE o.realized = Realized(row, o.delta, o.price) /\ next = ApplyFill(row, o)

Tables == OrderTable(ToSet(orders)) /\ Keyed(ToSet(funding))

\* What a rejected order or a fill of the wrong side of the clock cannot change.
RowIsWorth ==
  /\ Worth(row) = Capital - SumFunction(Costs(ToSet(orders))) + row.funding
  /\ Fits(row, Cardinality(Fills))

NextIsSound ==
  work # None =>
    /\ work.stage = "order" => NextOfOrder(work.entry, work.next)
    /\ work.stage = "funding" =>
         ~Charged(work.entry.id) /\ work.next = ApplyFunding(row, work.entry)

ReplayInOrder == InOrder => Replay = row

BookInv ==
  Tables /\ RowsAddUp /\ RowIsWorth /\ NextIsSound /\ ReplayInOrder

Payments(S) == [f \in S |-> f.payment]

LEMMA PaymentsAdd ==
  ASSUME NEW S, IsFiniteSet(S), S \subseteq FundingRow
  PROVE  Adds(Payments(S), S) /\ SumFunction(Payments(S)) \in Int
<1>1. Adds(Payments(S), S)
  BY DEF Adds, Payments, FundingRow
<1>2. Sums(SumOf(Payments(S)), Payments(S), S)
  BY <1>1, SumExists
<1>3. SumOf(Payments(S))[S] \in Int /\ DOMAIN Payments(S) = S
  BY <1>2 DEF Sums, Payments
<1> QED
  BY <1>1, <1>3, SumIsFold

\* The tables as sets.
LEMMA TableRows ==
  ASSUME TypeOK
  PROVE  /\ ToSet(orders) \subseteq OrderRow /\ IsFiniteSet(ToSet(orders))
         /\ ToSet(funding) \subseteq FundingRow /\ IsFiniteSet(ToSet(funding))
BY RowsOfSequence DEF TypeOK

\* The value of the position replays, whatever the order of the fills.
LEMMA ReplayHasValue ==
  ASSUME TypeOK, BookInv
  PROVE  /\ Replayed(Fills) \in PositionSet
         /\ ValueReplays
<1> DEFINE S == ToSet(orders)
           a == SumFunction(Payments(ToSet(funding)))
           p == Replayed(Fills)
           w == SumFunction(Costs(S))
<1>1. a \in Int
  BY TableRows, PaymentsAdd
<1>2. Fills = FillsOf(S) /\ OrderTable(S)
  BY DEF Fills, FillsOf, BookInv, Tables
<1>3. p \in PositionSet /\ Matches(p, Fills, SumFunction(Deltas(S)), SumFunction(Fees(S)), w)
  BY <1>2, ReplayedColumns
<1>4. /\ row.quantity = SumFunction(Deltas(S)) /\ row.fees = SumFunction(Fees(S))
      /\ row.funding = a
  BY DEF BookInv, RowsAddUp, Deltas, Fees, Payments
<1>5. Replay = Paid(p, a)
  BY DEF Replay, Payments
<1>6. w \in Int
  <2>1. Adds(Costs(S), S)
    BY <1>2, ColumnsAdd DEF OrderTable
  <2>2. Sums(SumOf(Costs(S)), Costs(S), S)
    BY <2>1, SumExists
  <2>3. SumOf(Costs(S))[S] \in Int /\ DOMAIN Costs(S) = S
    BY <2>2 DEF Sums, Costs
  <2> QED
    BY <2>3, SumIsFold
<1>7. /\ Worth(row) = Capital - w + row.funding
      /\ row \in PositionSet
  BY DEF BookInv, RowIsWorth, TypeOK
<1> HIDE DEF S, a, p, w
<1>8. /\ Replay.quantity = p.quantity /\ Replay.entry = p.entry /\ Replay.fees = p.fees
      /\ Replay.funding = p.funding + a /\ Replay.cash = p.cash + a
  BY <1>3, <1>5 DEF Paid, PositionSet
<1>9. p.quantity = row.quantity /\ p.fees = row.fees /\ p.funding = 0
  BY <1>3, <1>4 DEF Matches
<1>10. Replay.cash - Replay.quantity * Replay.entry = row.cash - row.quantity * row.entry
  <2> DEFINE pc == p.cash
             pe == p.quantity * p.entry
             rc == row.cash
             re == row.quantity * row.entry
  <2>1. pc \in Int /\ pe \in Int /\ rc \in Int /\ re \in Int /\ Capital \in Int
    <3>1. /\ p.quantity \in Int /\ p.entry \in Int /\ row.quantity \in Int /\ row.entry \in Int
          /\ p.cash \in Int /\ row.cash \in Int /\ Capital \in Int
      BY <1>3, <1>7, EngineAssumption DEF PositionSet
    <3> QED
      BY <3>1
  <2>2. pc - pe = Capital - w /\ rc - re = Capital - w + a
    BY <1>3, <1>4, <1>7 DEF Matches, Worth
  <2>3. Replay.cash - Replay.quantity * Replay.entry = (pc + a) - pe
    BY <1>8
  <2> HIDE DEF pc, pe, rc, re
  <2>4. (pc + a) - pe = rc - re
    BY <1>1, <1>6, <2>1, <2>2
  <2> QED
    BY <2>3, <2>4 DEF rc, re
<1>11. Replay.funding = row.funding
  BY <1>1, <1>4, <1>8, <1>9
<1> QED
  BY <1>3, <1>8, <1>9, <1>10, <1>11 DEF ValueReplays, p

LEMMA BookInit == Init => BookInv
<1> SUFFICES ASSUME Init
             PROVE  BookInv
  OBVIOUS
<1>1. ToSet(orders) = {} /\ ToSet(funding) = {} /\ Fills = {}
  BY DEF Init, ToSet, Fills
<1>2. Tables
  BY <1>1, FS_EmptySet DEF Tables, OrderTable, Keyed
<1>3. /\ OrderTable({}) /\ FillsOf({}) = {}
  BY FS_EmptySet DEF OrderTable, Keyed, FillsOf
<1>4. ASSUME NEW f, Adds(f, {})
      PROVE  SumFunction(f) = 0
  <2>1. Sums(SumOf(f), f, {}) /\ DOMAIN f = {}
    BY <1>4, SumExists DEF Adds
  <2> QED
    BY <2>1, SumIsFold DEF Sums
<1>5. /\ SumFunction(Deltas({})) = 0 /\ SumFunction(Fees({})) = 0
      /\ SumFunction(Gains({})) = 0 /\ SumFunction(Costs({})) = 0
      /\ SumFunction(Payments({})) = 0
  BY <1>4, ColumnsAdd, PaymentsAdd, FS_EmptySet
<1>6. RowsAddUp
  BY <1>1, <1>5 DEF RowsAddUp, Deltas, Fees, Gains, Payments, Init, Flat
<1>7. RowIsWorth
  <2>1. Worth(Flat) = Capital - 0 + 0
    BY EngineAssumption DEF Worth, Flat
  <2>2. Fits(Flat, 0) /\ Flat.funding = 0
    BY GridValues DEF Fits, Flat, Size
  <2> QED
    BY <1>1, <1>5, <2>1, <2>2, FS_EmptySet DEF RowIsWorth, Init
<1>8. NextIsSound
  BY DEF Init, NextIsSound
<1>9. Replay = row
  <2>1. Replayed({}) = Flat
    <3>1. FillRows({}) /\ Replayed({}) = ReplayOf({})[{}]
      BY <1>3, FillsOfTable, ReplayIsFold
    <3> QED
      BY <3>1, ReplayExists DEF Replays
  <2>2. Replay = Paid(Flat, 0)
    BY <1>1, <1>5, <2>1 DEF Replay, Payments
  <2>3. Paid(Flat, 0) = Flat
    <3> DEFINE t == Paid(Flat, 0)
    <3>1. /\ t \in PositionSet
          /\ t.quantity = Flat.quantity /\ t.entry = Flat.entry
          /\ t.realized = Flat.realized /\ t.fees = Flat.fees
          /\ t.leverage = Flat.leverage
          /\ t.funding = Flat.funding + 0 /\ t.cash = Flat.cash + 0
      BY FlatIsPosition, PaidColumns
    <3>2. Flat.funding + 0 = Flat.funding /\ Flat.cash + 0 = Flat.cash
      BY EngineAssumption DEF Flat
    <3> HIDE DEF t
    <3>3. t = Flat
      BY <3>1, <3>2, FlatIsPosition, SamePosition
    <3> QED
      BY <3>3 DEF t
  <2> QED
    BY <2>2, <2>3 DEF Init
<1> QED
  BY <1>2, <1>6, <1>7, <1>8, <1>9 DEF BookInv, ReplayInOrder

\* The tables alone determine the replay and whether it is in order.
LEMMA ReplayOfSame ==
  ASSUME UNCHANGED durable
  PROVE  /\ Fills' = Fills /\ Replay' = Replay /\ InOrder' = InOrder
         /\ ToSet(orders)' = ToSet(orders) /\ ToSet(funding)' = ToSet(funding)
<1>1. orders' = orders /\ funding' = funding
  BY DEF durable
<1>2. Fills' = Fills
  BY <1>1 DEF Fills
<1>3. Replay' = Replay
  BY <1>1, <1>2 DEF Replay
<1>4. InOrder' = InOrder
  BY <1>1, <1>2 DEF InOrder
<1> QED
  BY <1>1, <1>2, <1>3, <1>4

\* A step that writes nothing keeps the books.
LEMMA BooksUndisturbed ==
  ASSUME BookInv, UNCHANGED durable, NextIsSound'
  PROVE  BookInv'
<1>1. orders' = orders /\ funding' = funding /\ row' = row
  BY DEF durable
<1>2. Tables' /\ RowsAddUp' /\ RowIsWorth'
  BY <1>1, ReplayOfSame DEF BookInv, Tables, RowsAddUp, RowIsWorth
<1>3. ReplayInOrder'
  BY <1>1, ReplayOfSame DEF BookInv, ReplayInOrder
<1> QED
  BY <1>2, <1>3 DEF BookInv

LEMMA NextUndisturbed ==
  ASSUME BookInv, UNCHANGED durable, work' = work \/ work' = None
  PROVE  NextIsSound'
<1>1. CASE work' = work
  BY <1>1 DEF BookInv, NextIsSound, NextOfOrder, Charged, durable
<1>2. CASE work' = None
  BY <1>2 DEF NextIsSound
<1> QED
  BY <1>1, <1>2

\* A fill is within the bounds of its request and of its book.
LEMMA FillIsBounded ==
  ASSUME TypeOK, NEW o \in OrderIds, NEW r \in Requests, NEW b \in Books, ~Refused(r, b)
  PROVE  FillFits(Fill(o, r, b))
<1> DEFINE n == Lower(Wanted(r), b.depth)
           N == Cardinality(OrderIds)
           delta == r.side * n
<1>1. n \in Nat \ {0} /\ n <= Wanted(r) /\ Wanted(r) \in Nat \ {0}
  BY FilledQuantity
<1>2. r.quantity \in Nat /\ r.side \in {1, -1} /\ position.quantity \in Int
  BY EngineAssumption DEF TypeOK, PositionSet
<1>3. Wanted(r) <= r.quantity
  BY <1>2 DEF Wanted, Lower, Size
<1>4. n <= r.quantity
  BY <1>1, <1>2, <1>3
<1>5. delta # 0 /\ Size(delta) = n
  <2> HIDE DEF n
  <2>1. delta = n \/ delta = -n
    BY <1>1, <1>2
  <2> HIDE DEF delta
  <2> QED
    BY <1>1, <2>1 DEF Size
<1>6. N * n <= MaxSize
  <2>1. N * r.quantity <= MaxSize /\ N \in Nat /\ MaxSize \in Nat
    BY GridAssumption, GridValues
  <2> HIDE DEF n, N
  <2>2. N * n <= N * r.quantity /\ N * n \in Int /\ N * r.quantity \in Int
    BY <1>1, <1>2, <1>4, <2>1
  <2> QED
    BY <2>1, <2>2
<1>7. \A k \in DOMAIN Grid : b.price % Grid[k] = 0
  BY GridAssumption
<1>8. Fill(o, r, b).delta = delta /\ Fill(o, r, b).price = b.price
  BY DEF Fill
<1> HIDE DEF n, delta
<1> QED
  BY <1>5, <1>6, <1>7, <1>8 DEF FillFits

LEMMA BookSubmit ==
  ASSUME IInv, BookInv, NEW o \in OrderIds, NEW r \in Requests, NEW b \in Books,
         Submit(o, r, b)
  PROVE  BookInv'
<1>1. up /\ work = None /\ TypeOK /\ UNCHANGED durable
  BY DEF Submit, IInv
<1>2. position = row
  BY <1>1, MemoryBetween DEF Committed
<1>3. NextIsSound'
  <2>1. CASE Refused(r, b)
    <3> DEFINE e == Rejection(o, r, b)
    <3>1. work' = [stage |-> "order", entry |-> e, next |-> position]
      BY <2>1 DEF Submit
    <3>2. e.delta = 0 /\ e.fee = 0 /\ e.realized = 0
      BY DEF Rejection
    <3> HIDE DEF e
    <3> QED
      BY <1>1, <1>2, <3>1, <3>2 DEF NextIsSound, NextOfOrder, RowFits, durable
  <2>2. CASE ~Refused(r, b)
    <3> DEFINE e == Fill(o, r, b)
    <3>1. work' = [stage |-> "order", entry |-> e, next |-> ApplyFill(position, e)]
      BY <2>2 DEF Submit
    <3>2. FillFits(e) /\ e.delta # 0
      BY <1>1, <2>2, FillIsBounded DEF FillFits
    <3>3. e.realized = Realized(position, e.delta, e.price)
      BY DEF Fill
    <3> HIDE DEF e
    <3> QED
      BY <1>1, <1>2, <3>1, <3>2, <3>3 DEF NextIsSound, NextOfOrder, RowFits, durable
  <2> QED
    BY <2>1, <2>2
<1> QED
  BY <1>1, <1>3, BooksUndisturbed

LEMMA BookSubmitFunding ==
  ASSUME IInv, BookInv, NEW f \in FundingIds, NEW e \in Fundings, SubmitFunding(f, e)
  PROVE  BookInv'
<1> DEFINE charge == [id |-> f, ts |-> e.ts,
                      payment |-> -(position.quantity * e.mark * e.rate)]
<1>1. /\ up /\ work = None /\ ~Charged(f) /\ UNCHANGED durable
      /\ work' = [stage |-> "funding", entry |-> charge,
                  next |-> ApplyFunding(position, charge)]
  BY DEF SubmitFunding
<1>2. position = row
  BY <1>1, MemoryBetween DEF Committed
<1>3. charge.id = f
  OBVIOUS
<1> HIDE DEF charge
<1>4. NextIsSound'
  BY <1>1, <1>2, <1>3 DEF NextIsSound, Charged, durable
<1> QED
  BY <1>1, <1>4, BooksUndisturbed

\* A new row adds its columns.
LEMMA ColumnsOfMore ==
  ASSUME NEW S, IsFiniteSet(S), S \subseteq OrderRow, NEW e \in OrderRow, e \notin S
  PROVE  /\ SumFunction(Deltas(S \cup {e})) = SumFunction(Deltas(S)) + e.delta
         /\ SumFunction(Fees(S \cup {e})) = SumFunction(Fees(S)) + e.fee
         /\ SumFunction(Gains(S \cup {e})) = SumFunction(Gains(S)) + e.realized
         /\ SumFunction(Costs(S \cup {e})) =
              SumFunction(Costs(S)) + (e.fee + e.delta * e.price)
<1> DEFINE T == S \cup {e}
<1>1. IsFiniteSet(T) /\ T \subseteq OrderRow
  BY FS_AddElement
<1>2. /\ Adds(Deltas(S), S) /\ Adds(Fees(S), S) /\ Adds(Gains(S), S) /\ Adds(Costs(S), S)
      /\ Adds(Deltas(T), T) /\ Adds(Fees(T), T) /\ Adds(Gains(T), T) /\ Adds(Costs(T), T)
  BY <1>1, ColumnsAdd
<1>3. /\ \A x \in S : Deltas(S)[x] = Deltas(T)[x] /\ Fees(S)[x] = Fees(T)[x]
      /\ \A x \in S : Gains(S)[x] = Gains(T)[x] /\ Costs(S)[x] = Costs(T)[x]
      /\ Deltas(T)[e] = e.delta /\ Fees(T)[e] = e.fee /\ Gains(T)[e] = e.realized
      /\ Costs(T)[e] = e.fee + e.delta * e.price
  BY DEF Deltas, Fees, Gains, Costs
<1>4. /\ Extends(Deltas(T), Deltas(S), S, e) /\ Extends(Fees(T), Fees(S), S, e)
      /\ Extends(Gains(T), Gains(S), S, e) /\ Extends(Costs(T), Costs(S), S, e)
  BY <1>2, <1>3 DEF Extends
<1> QED
  BY <1>3, <1>4, SumOfMore

LEMMA PaymentsOfMore ==
  ASSUME NEW S, IsFiniteSet(S), S \subseteq FundingRow, NEW e \in FundingRow, e \notin S
  PROVE  SumFunction(Payments(S \cup {e})) = SumFunction(Payments(S)) + e.payment
<1> DEFINE T == S \cup {e}
<1>1. IsFiniteSet(T) /\ T \subseteq FundingRow
  BY FS_AddElement
<1>2. Adds(Payments(S), S) /\ Adds(Payments(T), T)
  BY <1>1, PaymentsAdd
<1>3. /\ \A x \in S : Payments(S)[x] = Payments(T)[x]
      /\ Payments(T)[e] = e.payment
  BY DEF Payments
<1>4. Extends(Payments(T), Payments(S), S, e)
  BY <1>2, <1>3 DEF Extends
<1> QED
  BY <1>3, <1>4, SumOfMore

\* The sums are integers.
LEMMA ColumnSums ==
  ASSUME NEW S, IsFiniteSet(S), S \subseteq OrderRow
  PROVE  /\ SumFunction(Deltas(S)) \in Int /\ SumFunction(Fees(S)) \in Int
         /\ SumFunction(Gains(S)) \in Int /\ SumFunction(Costs(S)) \in Int
<1>1. ASSUME NEW f, Adds(f, S)
      PROVE  SumFunction(f) \in Int
  <2>1. Sums(SumOf(f), f, S) /\ DOMAIN f = S
    BY <1>1, SumExists DEF Adds
  <2> QED
    BY <2>1, SumIsFold DEF Sums
<1> QED
  BY <1>1, ColumnsAdd

\* A table with one more order.
LEMMA TableOfMore ==
  ASSUME NEW S, OrderTable(S), NEW e \in OrderRow, RowFits(e),
         \A x \in S : x.id # e.id
  PROVE  /\ OrderTable(S \cup {e})
         /\ e.delta = 0 => FillsOf(S \cup {e}) = FillsOf(S)
         /\ e.delta # 0 =>
              /\ FillsOf(S \cup {e}) = FillsOf(S) \cup {e}
              /\ Cardinality(FillsOf(S)) \in Nat
              /\ Cardinality(FillsOf(S \cup {e})) = Cardinality(FillsOf(S)) + 1
              /\ Cardinality(FillsOf(S)) + 1 \in DOMAIN Grid
<1> DEFINE T == S \cup {e}
<1>1. OrderTable(T)
  BY FS_AddElement DEF OrderTable, Keyed
<1>2. e \notin S
  OBVIOUS
<1>3. e.delta = 0 => FillsOf(T) = FillsOf(S)
  BY DEF FillsOf
<1>4. ASSUME e.delta # 0
      PROVE  /\ FillsOf(T) = FillsOf(S) \cup {e}
             /\ Cardinality(FillsOf(S)) \in Nat
             /\ Cardinality(FillsOf(T)) = Cardinality(FillsOf(S)) + 1
             /\ Cardinality(FillsOf(S)) + 1 \in DOMAIN Grid
  <2>1. FillsOf(T) = FillsOf(S) \cup {e} /\ e \notin FillsOf(S)
    BY <1>2, <1>4 DEF FillsOf
  <2>2. IsFiniteSet(FillsOf(S))
    BY FS_Subset DEF FillsOf, OrderTable
  <2>3. /\ Cardinality(FillsOf(S)) \in Nat
        /\ Cardinality(FillsOf(T)) = Cardinality(FillsOf(S)) + 1
    BY <2>1, <2>2, FS_AddElement, FS_CardinalityType
  <2>4. Cardinality(FillsOf(T)) <= Cardinality(OrderIds)
    <3> HIDE DEF T
    <3> QED
      BY <1>1, FillsOfTable
  <2>5. Cardinality(FillsOf(S)) + 1 \in DOMAIN Grid
    BY <2>3, <2>4, GridValues
  <2> QED
    BY <2>1, <2>3, <2>5
<1> QED
  BY <1>1, <1>3, <1>4

\* An order commits with the row it was decided on.
LEMMA BookCommitOrder ==
  ASSUME IInv, BookInv, Commit, work.stage = "order"
  PROVE  BookInv'
<1> DEFINE S == ToSet(orders)
           e == work.entry
           cost == e.fee + e.delta * e.price
           a == SumFunction(Payments(ToSet(funding)))
<1>1. /\ work # None /\ TypeOK /\ e \in OrderRow /\ ~Recorded(e.id)
      /\ orders' = Append(orders, e) /\ funding' = funding /\ row' = work.next
      /\ work'.stage = "committed"
  BY DEF Commit, IInv, TypeOK, WorkSound, Pending, OrderWork, FundingWork
<1>2. /\ RowFits(e)
      /\ e.delta = 0 => row' = row
      /\ e.delta # 0 => e.realized = Realized(row, e.delta, e.price) /\ row' = ApplyFill(row, e)
  BY <1>1 DEF BookInv, NextIsSound, NextOfOrder
<1>3. /\ orders \in Seq(OrderRow) /\ row \in PositionSet /\ row' \in PositionSet
      /\ OrderTable(S) /\ IsFiniteSet(S) /\ S \subseteq OrderRow
  <2>1. TypeOK'
    BY InvCommit DEF IInv
  <2> QED
    BY <1>1, <2>1 DEF TypeOK, BookInv, Tables, OrderTable
<1>4. /\ ToSet(orders)' = S \cup {e} /\ ToSet(funding)' = ToSet(funding)
      /\ e \notin S /\ \A x \in S : x.id # e.id
  BY <1>1, <1>3, RowsOfAppend DEF Recorded
<1>5. /\ e.delta \in Int /\ e.fee \in Int /\ e.price \in Nat /\ e.realized \in Int
      /\ cost \in Int
  <2>1. e.delta \in Int /\ e.fee \in Int /\ e.price \in Nat /\ e.realized \in Int
    BY <1>1 DEF OrderRow
  <2> HIDE DEF e
  <2> QED
    BY <2>1
<1> HIDE DEF S, e
<1>6. /\ row.quantity = SumFunction(Deltas(S)) /\ row.fees = SumFunction(Fees(S))
      /\ row.realized = SumFunction(Gains(S)) /\ row.funding = a
      /\ Worth(row) = Capital - SumFunction(Costs(S)) + row.funding
      /\ Fits(row, Cardinality(FillsOf(S)))
      /\ Fills = FillsOf(S)
  BY DEF BookInv, RowsAddUp, RowIsWorth, Fills, FillsOf, Deltas, Fees, Gains, Payments, S
<1>7. /\ SumFunction(Deltas(S)) \in Int /\ SumFunction(Fees(S)) \in Int
      /\ SumFunction(Gains(S)) \in Int /\ SumFunction(Costs(S)) \in Int
      /\ Capital \in Int /\ row.funding \in Int
      /\ row.quantity \in Int /\ row.fees \in Int /\ row.realized \in Int
  BY <1>3, ColumnSums, EngineAssumption DEF PositionSet
<1> DEFINE T == S \cup {e}
<1>8. OrderTable(T)
  BY <1>1, <1>2, <1>3, <1>4, TableOfMore
<1>9. /\ SumFunction(Deltas(T)) = SumFunction(Deltas(S)) + e.delta
      /\ SumFunction(Fees(T)) = SumFunction(Fees(S)) + e.fee
      /\ SumFunction(Gains(T)) = SumFunction(Gains(S)) + e.realized
      /\ SumFunction(Costs(T)) = SumFunction(Costs(S)) + cost
  BY <1>1, <1>3, <1>4, ColumnsOfMore
<1>10. Fills' = FillsOf(T)
  BY <1>4 DEF Fills, FillsOf
<1>11. /\ row'.quantity = row.quantity + e.delta /\ row'.fees = row.fees + e.fee
       /\ row'.realized = row.realized + e.realized /\ row'.funding = row.funding
       /\ Worth(row') = Worth(row) - cost
       /\ Fits(row', Cardinality(FillsOf(T)))
  <2>1. CASE e.delta = 0
    <3>1. e.fee = 0 /\ e.realized = 0 /\ row' = row
      BY <1>2, <2>1 DEF RowFits
    <3>2. FillsOf(T) = FillsOf(S)
      BY <1>1, <1>2, <1>3, <1>4, <2>1, TableOfMore
    <3>3. cost = 0
      BY <1>5, <2>1, <3>1
    <3>4. Worth(row) \in Int
      <4>1. row.cash \in Int /\ row.entry \in Int
        BY <1>3 DEF PositionSet
      <4>2. row.quantity * row.entry \in Int
        BY <1>7, <4>1
      <4> QED
        BY <4>1, <4>2 DEF Worth
    <3>5. Worth(row') = Worth(row) /\ Fits(row', Cardinality(FillsOf(T)))
      BY <1>6, <3>1, <3>2
    <3> HIDE DEF cost, T
    <3> QED
      BY <1>7, <2>1, <3>1, <3>3, <3>4, <3>5
  <2>2. CASE e.delta # 0
    <3> DEFINE k == Cardinality(FillsOf(S))
    <3>1. k \in Nat /\ k + 1 = Cardinality(FillsOf(T)) /\ k + 1 \in DOMAIN Grid
      BY <1>1, <1>2, <1>3, <1>4, <2>2, TableOfMore
    <3>2. FillFits(e) /\ Fits(row, k)
      BY <1>2, <1>6, <2>2 DEF RowFits
    <3> HIDE DEF k
    <3>3. Fits(ApplyFill(row, e), k + 1) /\ Worth(ApplyFill(row, e)) = Worth(row) - cost
      BY <1>1, <1>3, <3>1, <3>2, FillKeepsWorth
    <3>4. row' = ApplyFill(row, e) /\ e.realized = Realized(row, e.delta, e.price)
      BY <1>2, <2>2
    <3>5. Worth(row') = Worth(row) - cost /\ Fits(row', Cardinality(FillsOf(T)))
      BY <3>1, <3>3, <3>4
    <3>6. /\ ApplyFill(row, e).quantity = row.quantity + e.delta
          /\ ApplyFill(row, e).fees = row.fees + e.fee
          /\ ApplyFill(row, e).realized = row.realized + Realized(row, e.delta, e.price)
          /\ ApplyFill(row, e).funding = row.funding
      BY <1>3, FillColumns
    <3> HIDE DEF cost, T
    <3> QED
      BY <3>4, <3>5, <3>6
  <2> QED
    BY <2>1, <2>2
<1>12. Tables'
  BY <1>4, <1>8 DEF BookInv, Tables
<1>13. RowsAddUp'
  <2>1. /\ row'.quantity = SumFunction(Deltas(T)) /\ row'.fees = SumFunction(Fees(T))
        /\ row'.realized = SumFunction(Gains(T)) /\ row'.funding = a
    BY <1>6, <1>9, <1>11
  <2> QED
    BY <1>4, <2>1 DEF RowsAddUp, Deltas, Fees, Gains, Payments
<1>14. RowIsWorth'
  <2>1. Worth(row') = Capital - SumFunction(Costs(T)) + row'.funding
    <3> DEFINE w == SumFunction(Costs(S))
    <3>1. /\ w \in Int /\ SumFunction(Costs(T)) = w + cost
          /\ Worth(row) = Capital - w + row.funding
      BY <1>6, <1>7, <1>9
    <3> HIDE DEF w, cost, T
    <3>2. (Capital - w + row.funding) - cost = Capital - (w + cost) + row.funding
      BY <1>5, <1>7, <3>1
    <3> QED
      BY <1>11, <3>1, <3>2
  <2> QED
    BY <1>4, <1>10, <1>11, <2>1 DEF RowIsWorth
<1>15. NextIsSound'
  BY <1>1 DEF NextIsSound
<1>16. ReplayInOrder'
  <2> SUFFICES ASSUME InOrder'
               PROVE  Replay' = row'
    BY DEF ReplayInOrder
  <2>1. /\ Append(orders, e) \in Seq(OrderRow)
        /\ Len(Append(orders, e)) = Len(orders) + 1
        /\ \A i \in 1..Len(orders) : Append(orders, e)[i] = orders[i]
        /\ Append(orders, e)[Len(orders) + 1] = e
        /\ DOMAIN orders = 1..Len(orders) /\ Len(orders) \in Nat
        /\ DOMAIN Append(orders, e) = 1..(Len(orders) + 1)
    BY <1>1, <1>3
  <2>2. Fills \subseteq Fills'
    BY <1>6, <1>10 DEF FillsOf
  <2>3. \A i, j \in 1..(Len(orders) + 1) :
          i < j /\ orders'[i] \in Fills' /\ orders'[j] \in Fills'
            => Before(orders'[i], orders'[j])
    BY <1>1, <2>1 DEF InOrder, e
  <2>4. InOrder
    <3> SUFFICES ASSUME NEW i \in 1..Len(orders), NEW j \in 1..Len(orders), i < j,
                        orders[i] \in Fills, orders[j] \in Fills
                 PROVE  Before(orders[i], orders[j])
      BY <2>1 DEF InOrder
    <3>1. /\ i \in 1..(Len(orders) + 1) /\ j \in 1..(Len(orders) + 1)
          /\ orders'[i] = orders[i] /\ orders'[j] = orders[j]
      BY <1>1, <2>1 DEF e
    <3> QED
      BY <2>2, <2>3, <3>1
  <2>5. Replay = row
    BY <2>4 DEF BookInv, ReplayInOrder
  <2>6. /\ a \in Int /\ Replayed(FillsOf(S)) \in PositionSet
    BY <1>1, <1>3, TableRows, PaymentsAdd, ReplayedColumns
  <2>7. Replay = Paid(Replayed(FillsOf(S)), a) /\ Replay' = Paid(Replayed(FillsOf(T)), a)
    BY <1>4, <1>6, <1>10 DEF Replay, Payments
  <2>8. CASE e.delta = 0
    BY <1>1, <1>2, <1>3, <1>4, <2>5, <2>7, <2>8, TableOfMore
  <2>9. CASE e.delta # 0
    <3>1. FillsOf(T) = FillsOf(S) \cup {e} /\ e \notin FillsOf(S) /\ e \in FillsOf(T)
      BY <1>4, <2>9 DEF FillsOf
    <3>2. \A x \in FillsOf(S) : Before(x, e)
      <4> SUFFICES ASSUME NEW x \in FillsOf(S)
                   PROVE  Before(x, e)
        OBVIOUS
      <4>1. PICK i \in 1..Len(orders) : orders[i] = x
        BY <2>1 DEF FillsOf, ToSet, S
      <4>2. /\ i \in 1..(Len(orders) + 1) /\ i < Len(orders) + 1
            /\ Len(orders) + 1 \in 1..(Len(orders) + 1)
            /\ orders'[i] = x /\ orders'[Len(orders) + 1] = e
        BY <1>1, <2>1, <4>1 DEF e
      <4>3. x \in Fills' /\ e \in Fills'
        BY <1>10, <3>1
      <4> QED
        BY <2>3, <4>2, <4>3
    <3>3. FillRows(FillsOf(S)) /\ FillRows(FillsOf(S) \cup {e})
      <4>1. FillRows(FillsOf(T))
        <5> HIDE DEF T
        <5> QED
          BY <1>8, FillsOfTable
      <4> QED
        BY <1>3, <3>1, <4>1, FillsOfTable
    <3>4. Replayed(FillsOf(T)) = ApplyFill(Replayed(FillsOf(S)), e)
      BY <3>1, <3>2, <3>3, ReplayOfLater
    <3>5. ApplyFill(Paid(Replayed(FillsOf(S)), a), e) = Paid(ApplyFill(Replayed(FillsOf(S)), e), a)
      BY <1>1, <2>6, <2>9, PaymentsCommute
    <3> HIDE DEF T, a
    <3> QED
      BY <1>2, <2>5, <2>7, <2>9, <3>4, <3>5
  <2> QED
    BY <2>8, <2>9
<1> QED
  BY <1>12, <1>13, <1>14, <1>15, <1>16 DEF BookInv

\* A payment commits with the row it was taken from.
LEMMA BookCommitFunding ==
  ASSUME IInv, BookInv, Commit, work.stage # "order"
  PROVE  BookInv'
<1> DEFINE S == ToSet(funding)
           e == work.entry
           a == SumFunction(Payments(S))
           p == Replayed(Fills)
<1>1. /\ work # None /\ TypeOK /\ work.stage = "funding" /\ e \in FundingRow
      /\ funding' = Append(funding, e) /\ orders' = orders /\ row' = work.next
      /\ work'.stage = "committed"
  BY DEF Commit, IInv, TypeOK, OrderWork, FundingWork
<1>2. ~Charged(e.id) /\ row' = Paid(row, e.payment)
  BY <1>1 DEF BookInv, NextIsSound, ApplyFunding
<1>3. /\ funding \in Seq(FundingRow) /\ row \in PositionSet
      /\ IsFiniteSet(S) /\ S \subseteq FundingRow
      /\ IsFiniteSet(ToSet(orders)) /\ ToSet(orders) \subseteq OrderRow
  BY <1>1, TableRows DEF TypeOK
<1>4. /\ ToSet(funding)' = S \cup {e} /\ ToSet(orders)' = ToSet(orders)
      /\ e \notin S /\ \A x \in S : x.id # e.id
  BY <1>1, <1>2, <1>3, RowsOfAppend DEF Charged
<1>5. e.payment \in Int
  BY <1>1 DEF FundingRow
<1> HIDE DEF S, e
<1>6. a \in Int /\ row.funding = a
  BY <1>3, PaymentsAdd DEF BookInv, RowsAddUp, Payments, S
<1>7. SumFunction(Payments(S \cup {e})) = a + e.payment
  BY <1>1, <1>3, <1>4, PaymentsOfMore
<1>8. /\ row'.quantity = row.quantity /\ row'.entry = row.entry
      /\ row'.realized = row.realized /\ row'.fees = row.fees
      /\ row'.funding = row.funding + e.payment /\ row'.cash = row.cash + e.payment
  BY <1>2, <1>3, <1>5, PaidColumns
<1>9. Fills' = Fills /\ InOrder' = InOrder
  <2>1. Fills' = Fills
    BY <1>4 DEF Fills
  <2> QED
    BY <1>1, <2>1 DEF InOrder
<1>10. Tables'
  <2>1. Keyed(S \cup {e})
    BY <1>4 DEF BookInv, Tables, Keyed, S
  <2> QED
    BY <1>4, <2>1 DEF BookInv, Tables
<1>11. RowsAddUp'
  BY <1>4, <1>6, <1>7, <1>8 DEF BookInv, RowsAddUp, Payments
<1>12. RowIsWorth'
  <2> DEFINE w == SumFunction(Costs(ToSet(orders)))
             v == row.quantity * row.entry
  <2>1. /\ w \in Int /\ v \in Int /\ row.cash \in Int /\ Capital \in Int /\ row.funding \in Int
    <3>1. row.quantity \in Int /\ row.entry \in Int /\ row.cash \in Int /\ row.funding \in Int
      BY <1>3 DEF PositionSet
    <3>2. v \in Int
      BY <3>1
    <3> QED
      BY <1>3, <3>1, <3>2, ColumnSums, EngineAssumption
  <2>2. row.cash - v = Capital - w + row.funding /\ Fits(row, Cardinality(Fills))
    BY DEF BookInv, RowIsWorth, Worth
  <2>3. Worth(row') = (row.cash + e.payment) - v
    BY <1>8 DEF Worth
  <2>4. Fits(row', Cardinality(Fills))
    BY <1>8, <2>2 DEF Fits
  <2> HIDE DEF w, v
  <2>5. Worth(row') = Capital - w + (row.funding + e.payment)
    BY <1>5, <2>1, <2>2, <2>3
  <2> QED
    BY <1>4, <1>8, <1>9, <2>4, <2>5 DEF RowIsWorth, w
<1>13. NextIsSound'
  BY <1>1 DEF NextIsSound
<1>14. ReplayInOrder'
  <2> SUFFICES ASSUME InOrder
               PROVE  Replay' = row'
    BY <1>9 DEF ReplayInOrder
  <2>1. Paid(p, a) = row
    BY DEF BookInv, ReplayInOrder, Replay, Payments, S
  <2>2. p \in PositionSet
    BY <1>1, ReplayHasValue
  <2>3. Replay' = Paid(p, a + e.payment)
    BY <1>4, <1>7, <1>9 DEF Replay, Payments
  <2> HIDE DEF p, a
  <2>4. Paid(Paid(p, a), e.payment) = Paid(p, a + e.payment)
    BY <1>5, <1>6, <2>2, PaymentsCommute
  <2> QED
    BY <1>2, <2>1, <2>3, <2>4
<1> QED
  BY <1>10, <1>11, <1>12, <1>13, <1>14 DEF BookInv

LEMMA BookNext ==
  ASSUME IInv, BookInv, [Next]_vars
  PROVE  BookInv'
<1>1. CASE Commit
  BY <1>1, BookCommitOrder, BookCommitFunding
<1>2. CASE \E o \in OrderIds, r \in Requests, b \in Books : Submit(o, r, b)
  BY <1>2, BookSubmit
<1>3. CASE \E f \in FundingIds, e \in Fundings : SubmitFunding(f, e)
  BY <1>3, BookSubmitFunding
<1>4. CASE \/ CommitFails \/ Assign \/ Crash \/ Restart
           \/ ReconcileRead \/ ReconcileCompare \/ ReconcileAssign
           \/ \E enabled \in BOOLEAN : SetPaperEnabled(enabled)
           \/ UNCHANGED vars
  <2>1. UNCHANGED durable /\ (work' = work \/ work' = None)
    BY <1>4 DEF CommitFails, Assign, SetPaperEnabled, ReconcileRead, ReconcileCompare,
                ReconcileAssign, Crash, Restart, vars, durable
  <2> QED
    BY <2>1, NextUndisturbed, BooksUndisturbed
<1> QED
  BY <1>1, <1>2, <1>3, <1>4 DEF Next

LEMMA BookInvariance == Spec => []BookInv
<1>1. IInv /\ BookInv /\ [Next]_vars => BookInv'
  BY BookNext
<1> QED
  BY <1>1, BookInit, Invariance, PTL DEF Spec

----------------------------------------------------------------------------
(* Theorems. *)

\* The engine's memory, its tables and the submission in hand keep their types
\* (engine.py, store.py).
THEOREM TypeCorrect == Spec => []TypeOK
<1>1. IInv => TypeOK
  BY DEF IInv
<1> QED
  BY <1>1, Invariance, PTL

\* The memory is the durable position outside a commit, and the durable cash is
\* the capital with every gain, fee and payment (engine.py: submit_market).
THEOREM MemoryAndCash == Spec => [](MemoryIsDurable /\ CashAddsUp)
<1>1. IInv => MemoryIsDurable /\ CashAddsUp
  BY DEF IInv
<1> QED
  BY <1>1, Invariance, PTL

\* A kill switch raised during a submission lets at most that one add exposure
\* (engine.py: set_paper_enabled).
THEOREM AtMostOneLateFill == Spec => []OneLateFill
<1>1. IInv => OneLateFill
  BY DEF IInv, LateSound, OneLateFill
<1> QED
  BY <1>1, Invariance, PTL

\* Every committed reduce-only fill shrinks the position without turning it
\* (engine.py: the cap of submit_market).
THEOREM ReductionsReduce == Spec => ReduceOnlyReduces
<1> DEFINE Reduces ==
      \A o \in ToSet(orders') \ ToSet(orders) :
        o.request.reduceOnly /\ o.delta # 0 =>
          /\ Size(row'.quantity) < Size(row.quantity)
          /\ row'.quantity # 0 => SameSide(row.quantity, row'.quantity)
<1>1. ASSUME IInv, [Next]_vars
      PROVE  [Reduces]_vars
  <2>1. CASE Commit
    <3>1. CASE work.stage = "order"
      <4>1. /\ orders' = Append(orders, work.entry) /\ row' = work.next
            /\ work # None
        BY <2>1, <3>1 DEF Commit
      <4>2. work.entry \in OrderRow /\ orders \in Seq(OrderRow)
        BY <1>1, <3>1, <4>1 DEF IInv, TypeOK, OrderWork, FundingWork
      <4>3. ToSet(orders') \ ToSet(orders) \subseteq {work.entry}
        BY <4>1, <4>2, RowsOfAppend
      <4>4. Sound(work.entry.request, work.entry.delta, row, work.next)
        BY <1>1, <3>1, <4>1 DEF IInv, WorkSound, Pending
      <4> QED
        BY <4>1, <4>3, <4>4 DEF Sound
    <3>2. CASE work.stage # "order"
      BY <2>1, <3>2 DEF Commit
    <3> QED
      BY <3>1, <3>2
  <2>2. CASE ~Commit
    <3>1. orders' = orders
      BY <1>1, <2>2 DEF Next, Submit, SubmitFunding, CommitFails, Assign, SetPaperEnabled,
                        ReconcileRead, ReconcileCompare, ReconcileAssign, Crash, Restart,
                        vars, durable
    <3> QED
      BY <3>1
  <2> QED
    BY <2>1, <2>2
<1> QED
  BY <1>1, Invariance, PTL DEF Spec, ReduceOnlyReduces

\* Every behaviour of the engine is one of OrderOnce: an order is answered once,
\* and the exposure moves with its answer (engine.py: submit_market, __init__).
THEOREM ImplementsOrderOnce == Spec => OrderOnceSpec
<1>1. Init => Orders!Init
  <2> SUFFICES ASSUME Init
               PROVE  Orders!Init
    OBVIOUS
  <2>1. \A o \in OrderIds : AnswersOf(o) = {}
    BY DEF Init, AnswersOf, ToSet
  <2> QED
    BY <2>1 DEF Init, Orders!Init, Answer, Effective, Committed, Flat
<1>2. ASSUME IInv, IInv', [Next]_vars
      PROVE  [Orders!Next]_<<Answer, Effective.quantity>>
  <2>1. row.quantity \in Int /\ row'.quantity \in Int
    BY <1>2 DEF IInv, TypeOK, PositionSet
  <2>2. Effective.quantity = row.quantity /\ Effective'.quantity = row'.quantity
    BY <1>2 DEF IInv, MemoryIsDurable
  <2>3. CASE Commit /\ work.stage = "order"
    <3>11. Pending
      BY <2>3 DEF Commit, Pending
    <3>12. work.entry \in OrderRow /\ orders \in Seq(OrderRow)
      BY <1>2, <3>11 DEF IInv, TypeOK, OrderWork, FundingWork, Pending
    <3>13. PICK e \in OrderRow : e = work.entry
      BY <3>12
    <3>1. orders' = Append(orders, e) /\ row' = work.next
      BY <2>3, <3>13 DEF Commit
    <3>2. e \in OrderRow /\ orders \in Seq(OrderRow)
      BY <3>12
    <3>3. ToSet(orders') = ToSet(orders) \cup {e}
      BY <3>1, <3>2, RowsOfAppend
    <3>4. ~Recorded(e.id) /\ work.next.quantity = row.quantity + e.delta
      BY <1>2, <3>11, <3>13 DEF IInv, WorkSound, Sound
    <3>5. e.id \in OrderIds /\ e.delta \in Int
      BY <3>2 DEF OrderRow
    <3>6. AnswersOf(e.id) = {} /\ AnswersOf(e.id)' = {e.delta}
      <4>1. {y \in ToSet(orders) : y.id = e.id} = {}
        BY <3>4 DEF Recorded
      <4>2. {y \in ToSet(orders') : y.id = e.id} = {e}
        BY <3>3, <4>1
      <4>3. AnswersOf(e.id)' = {x.delta : x \in {y \in ToSet(orders') : y.id = e.id}}
        BY DEF AnswersOf, ToSet
      <4> QED
        BY <4>1, <4>2, <4>3 DEF AnswersOf
    <3>7. \A o \in OrderIds : o # e.id => AnswersOf(o)' = AnswersOf(o)
      BY <3>3 DEF AnswersOf
    <3>8. Answer' = [Answer EXCEPT ![e.id] = e.delta]
      <4>1. Answer' = [o \in OrderIds |->
                         IF AnswersOf(o)' = {} THEN None ELSE CHOOSE d \in AnswersOf(o)' : TRUE]
        BY DEF Answer
      <4>2. Answer = [o \in OrderIds |->
                        IF AnswersOf(o) = {} THEN None ELSE CHOOSE d \in AnswersOf(o) : TRUE]
        BY DEF Answer
      <4>3. Answer'[e.id] = CHOOSE d \in {e.delta} : TRUE
        BY <3>5, <3>6, <4>1
      <4>4. Answer'[e.id] = e.delta
        BY <4>3
      <4>5. ASSUME NEW o \in OrderIds, o # e.id
            PROVE  Answer'[o] = Answer[o]
        <5>1. AnswersOf(o)' = AnswersOf(o)
          BY <3>7, <4>5
        <5>2. Answer'[o] = IF AnswersOf(o)' = {} THEN None ELSE CHOOSE d \in AnswersOf(o)' : TRUE
          BY <4>1
        <5>3. Answer[o] = IF AnswersOf(o) = {} THEN None ELSE CHOOSE d \in AnswersOf(o) : TRUE
          BY <4>2
        <5> QED
          BY <5>1, <5>2, <5>3
      <4>6. Answer' = [o \in OrderIds |-> Answer'[o]] /\ Answer = [o \in OrderIds |-> Answer[o]]
        BY <4>1, <4>2
      <4> QED
        BY <3>5, <4>4, <4>5, <4>6
    <3>9. Answer[e.id] = None
      BY <3>5, <3>6 DEF Answer
    <3>10. row'.quantity - row.quantity = e.delta
      BY <2>1, <3>1, <3>4, <3>5
    <3> QED
      BY <2>1, <2>2, <3>5, <3>8, <3>9, <3>10 DEF Orders!Next, Orders!Settle
  <2>4. CASE ~(Commit /\ work.stage = "order")
    <3>1. orders' = orders
      BY <1>2, <2>4 DEF Next, Submit, SubmitFunding, Commit, CommitFails, Assign,
                        SetPaperEnabled, ReconcileRead, ReconcileCompare, ReconcileAssign,
                        Crash, Restart, vars, durable
    <3>2. row'.quantity = row.quantity
      <4>1. CASE Commit
        <5>1. work.stage = "funding" /\ work # None
          BY <1>2, <2>4, <4>1 DEF Commit, IInv, TypeOK, OrderWork, FundingWork
        <5> QED
          BY <1>2, <4>1, <5>1 DEF Commit, IInv, WorkSound
      <4>2. CASE ~Commit
        BY <1>2, <4>2 DEF Next, Submit, SubmitFunding, CommitFails, Assign,
                          SetPaperEnabled, ReconcileRead, ReconcileCompare, ReconcileAssign,
                          Crash, Restart, vars, durable
      <4> QED
        BY <4>1, <4>2
    <3>3. Answer' = Answer
      BY <3>1 DEF Answer, AnswersOf
    <3> QED
      BY <2>2, <3>2, <3>3
  <2> QED
    BY <2>3, <2>4
<1> QED
  BY <1>1, <1>2, Invariance, PTL DEF Spec, OrderOnceSpec, Orders!Spec

\* BooksAgree for every behaviour.
THEOREM BooksAlwaysAgree == Spec => []BooksAgree
<1>1. IInv /\ BookInv => BooksAgree
  <2> SUFFICES ASSUME IInv, BookInv
               PROVE  BooksAgree
    OBVIOUS
  <2>1. ValueReplays
    BY ReplayHasValue DEF IInv
  <2> QED
    BY <2>1 DEF BooksAgree, IInv, BookInv
<1> QED
  BY <1>1, Invariance, BookInvariance, PTL

\* A commit does not put fills in order that were not.
LEMMA OrderIsLost ==
  ASSUME IInv, [Next]_vars, InOrder'
  PROVE  InOrder
<1>1. CASE Commit /\ work.stage = "order"
  <2>1. /\ orders' = Append(orders, work.entry) /\ orders \in Seq(OrderRow)
        /\ work.entry \in OrderRow
    BY <1>1 DEF Commit, IInv, TypeOK, OrderWork, FundingWork
  <2>2. /\ Len(orders) \in Nat /\ Len(orders') = Len(orders) + 1
        /\ \A i \in 1..Len(orders) : orders'[i] = orders[i] /\ i \in 1..Len(orders')
    BY <2>1
  <2>3. /\ DOMAIN orders = 1..Len(orders) /\ DOMAIN orders' = 1..Len(orders')
        /\ Fills = {o \in ToSet(orders) : o.delta # 0}
    BY <2>1 DEF Fills
  <2> QED
    BY <2>1, <2>2, <2>3 DEF InOrder, Fills, ToSet
<1>2. CASE ~(Commit /\ work.stage = "order")
  <2>1. orders' = orders
    BY <1>2 DEF Next, Submit, SubmitFunding, Commit, CommitFails, Assign, SetPaperEnabled,
                ReconcileRead, ReconcileCompare, ReconcileAssign, Crash, Restart, vars,
                durable
  <2> QED
    BY <2>1 DEF InOrder, Fills
<1> QED
  BY <1>1, <1>2

\* What reconcile() finds to differ, with no submission in between, is an order of
\* fills that the replay does not follow.
VerdictSound ==
  replayed # None /\ replayed.stage \notin {"read", "same", "overlapped"} => ~InOrder

LEMMA VerdictStep ==
  ASSUME IInv, BookInv, VerdictSound, [Next]_vars
  PROVE  VerdictSound'
<1>1. CASE ReconcileCompare
  <2> SUFFICES ASSUME InOrder, ~Committed, replayed.rows = Replay
               PROVE  replayed'.stage = "same"
    <3>1. InOrder' = InOrder
      BY <1>1 DEF ReconcileCompare, InOrder, Fills, durable
    <3> QED
      BY <1>1, <3>1 DEF ReconcileCompare, VerdictSound
  <2>1. up
    BY <1>1 DEF ReconcileCompare
  <2>2. position = row
    BY <2>1, MemoryBetween
  <2>3. Replay = row
    BY DEF BookInv, ReplayInOrder
  <2> QED
    BY <1>1, <2>2, <2>3 DEF ReconcileCompare
<1>2. CASE ReconcileRead
  BY <1>2 DEF ReconcileRead, VerdictSound
<1>3. CASE ReconcileAssign \/ Crash
  BY <1>3 DEF ReconcileAssign, Crash, VerdictSound
<1>4. CASE replayed' = replayed
  BY <1>4, OrderIsLost DEF VerdictSound
<1>5. replayed' = replayed \/ ReconcileRead \/ ReconcileCompare \/ ReconcileAssign \/ Crash
  BY DEF Next, Submit, SubmitFunding, Commit, CommitFails, Assign, SetPaperEnabled,
         Restart, vars
<1> QED
  BY <1>1, <1>2, <1>3, <1>4, <1>5

\* UnknownHasCause for every behaviour.
THEOREM UnknownHasACause == Spec => UnknownHasCause
<1> DEFINE HasCause ==
      known /\ ~known' =>
        \/ ~InOrder
        \/ replayed # None /\ replayed.stage = "overlapped"
<1>1. ASSUME IInv, BookInv, VerdictSound, [Next]_vars
      PROVE  [HasCause]_vars
  <2>1. CASE ReconcileAssign
    <3>1. replayed # None /\ replayed.stage # "read" /\ known' = (replayed.stage = "same")
      BY <2>1 DEF ReconcileAssign
    <3> QED
      BY <1>1, <3>1 DEF VerdictSound
  <2>2. CASE Restart
    BY <1>1, <2>2 DEF Restart, BookInv, ReplayInOrder
  <2>3. CASE Crash
    BY <2>3 DEF Crash
  <2>4. CASE known' = known
    BY <2>4
  <2>5. known' = known \/ ReconcileAssign \/ Restart \/ Crash
    BY <1>1 DEF Next, Submit, SubmitFunding, Commit, CommitFails, Assign, SetPaperEnabled,
                ReconcileRead, ReconcileCompare, vars
  <2> QED
    BY <2>1, <2>2, <2>3, <2>4, <2>5
<1>2. Init => VerdictSound
  BY DEF Init, VerdictSound
<1>3. IInv /\ BookInv /\ VerdictSound /\ [Next]_vars => VerdictSound'
  BY VerdictStep
<1> QED
  BY <1>1, <1>2, <1>3, Invariance, BookInvariance, PTL DEF Spec, UnknownHasCause
=============================================================================
