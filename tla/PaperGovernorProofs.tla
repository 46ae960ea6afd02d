------------------------ MODULE PaperGovernorProofs ------------------------
(***************************************************************************)
(* Proofs about PaperGovernor for any strategies, stakes, limits, fees and *)
(* gains: first about each strategy's own account, then about what the     *)
(* governor adds up over all of them.                                      *)
(***************************************************************************)
EXTENDS PaperGovernor, FiniteSetTheorems, TLAPS

\* What Observe writes: a peak and a drawdown that never fall.
LEMMA ObserveLemma ==
  ASSUME TypeOK,
         NEW gained \in [Strategies -> Int],
         peak' = [s \in Strategies |-> Greater(peak[s], gained[s])],
         drawdown' = [s \in Strategies |-> Greater(drawdown[s], peak[s]' - gained[s])]
  PROVE  /\ peak' \in [Strategies -> Nat \ {0}]
         /\ drawdown' \in [Strategies -> Nat]
         /\ \A s \in Strategies : drawdown'[s] >= drawdown[s]
<1>1. peak' \in [Strategies -> Nat \ {0}]
  BY DEF Greater, TypeOK
<1>2. ASSUME NEW s \in Strategies
      PROVE  drawdown'[s] \in Nat /\ drawdown'[s] >= drawdown[s]
  <2>1. drawdown[s] \in Nat /\ peak'[s] \in Int /\ gained[s] \in Int
    BY <1>1 DEF TypeOK
  <2>2. drawdown'[s] = Greater(drawdown[s], peak'[s] - gained[s])
    OBVIOUS
  <2> QED
    BY <2>1, <2>2 DEF Greater
<1>3. drawdown' \in [Strategies -> Nat]
  BY <1>2
<1> QED
  BY <1>1, <1>2, <1>3

\* The four writers that move money, each with what it does to the row of a
\* strategy.
Moved ==
  \/ \E gain \in [Strategies -> Gains] : MarkPositions(gain)
  \/ \E amount \in [Strategies -> Fundings] : ApplyFunding(amount)
  \/ \E s \in Strategies, gross \in Gains : ClosePosition(s, gross)

\* A writer that observes the equity keeps peak and drawdown well typed and
\* never lowers the drawdown.
LEMMA MovedMarks ==
  ASSUME TypeOK, GovernorAssumption, Moved
  PROVE  /\ cash' \in [Strategies -> Int]
         /\ unrealized' \in [Strategies -> Int]
         /\ accrued' \in [Strategies -> Int]
         /\ peak' \in [Strategies -> Nat \ {0}]
         /\ drawdown' \in [Strategies -> Nat]
         /\ \A s \in Strategies : drawdown'[s] >= drawdown[s]
         /\ open' \subseteq open
<1>1. /\ cash' \in [Strategies -> Int]
      /\ unrealized' \in [Strategies -> Int]
      /\ accrued' \in [Strategies -> Int]
      /\ open' \subseteq open
      /\ Observe
  <2>1. ASSUME NEW gain \in [Strategies -> Gains], MarkPositions(gain)
        PROVE  <1>1!:
    BY <2>1 DEF MarkPositions, TypeOK, GovernorAssumption
  <2>2. ASSUME NEW amount \in [Strategies -> Fundings], ApplyFunding(amount)
        PROVE  <1>1!:
    <3>1. \A s \in Strategies : amount[s] \in Int
      BY DEF GovernorAssumption
    <3>2. cash' \in [Strategies -> Int] /\ accrued' \in [Strategies -> Int]
      BY <2>2, <3>1 DEF ApplyFunding, TypeOK
    <3> QED
      BY <2>2, <3>2 DEF ApplyFunding, TypeOK
  <2>3. ASSUME NEW s \in Strategies, NEW gross \in Gains, ClosePosition(s, gross)
        PROVE  <1>1!:
    BY <2>3 DEF ClosePosition, TypeOK, GovernorAssumption
  <2> QED
    BY <2>1, <2>2, <2>3 DEF Moved
<1> DEFINE gained == [s \in Strategies |-> cash'[s] + unrealized'[s]]
<1>2. gained \in [Strategies -> Int]
  BY <1>1
<1>3. /\ peak' = [s \in Strategies |-> Greater(peak[s], gained[s])]
      /\ drawdown' = [s \in Strategies |-> Greater(drawdown[s], peak[s]' - gained[s])]
  BY <1>1 DEF Observe, Equity
<1> HIDE DEF gained
<1> QED
  BY <1>1, <1>2, <1>3, ObserveLemma

\* Every action keeps the types.
THEOREM TypeCorrect == Spec => []TypeOK
<1>1. Init => TypeOK
  BY GovernorAssumption DEF Init, TypeOK, Start
<1>2. TypeOK /\ [Next]_vars => TypeOK'
  <2> SUFFICES ASSUME TypeOK, [Next]_vars PROVE TypeOK'
    OBVIOUS
  <2>1. ASSUME NEW s \in Strategies, Open(s) PROVE TypeOK'
    BY <2>1, GovernorAssumption DEF Open, TypeOK, marks, periods
  <2>2. ASSUME Moved, UNCHANGED <<dayStart, weekStart, day, opened>> PROVE TypeOK'
    <3>1. today' \in [Strategies -> Int] /\ week' \in [Strategies -> Int]
      <4>1. ASSUME NEW gain \in [Strategies -> Gains], MarkPositions(gain)
            PROVE  <3>1!:
        BY <4>1 DEF MarkPositions, periods, TypeOK
      <4>2. ASSUME NEW amount \in [Strategies -> Fundings], ApplyFunding(amount)
            PROVE  <3>1!:
        BY <4>2 DEF ApplyFunding, periods, TypeOK
      <4>3. ASSUME NEW s \in Strategies, NEW gross \in Gains, ClosePosition(s, gross)
            PROVE  <3>1!:
        BY <4>3, GovernorAssumption DEF ClosePosition, TypeOK
      <4> QED
        BY <2>2, <4>1, <4>2, <4>3 DEF Moved
    <3> QED
      BY <2>2, <3>1, MovedMarks, GovernorAssumption DEF TypeOK
  <2>3. ASSUME NewDay PROVE TypeOK'
    <3>1. Snapshot \in [Strategies -> Start]
      BY DEF Snapshot, Equity, Start, TypeOK
    <3>2. /\ dayStart' \in [Strategies -> Start] /\ weekStart' \in [Strategies -> Start]
          /\ today' \in [Strategies -> Int] /\ week' \in [Strategies -> Int]
          /\ day' \in 0..MaxDays
      BY <2>3, <3>1, GovernorAssumption DEF NewDay, TypeOK
    <3> QED
      BY <2>3, <3>2 DEF NewDay, TypeOK, money, marks
  <2>4. CASE UNCHANGED vars
    BY <2>4 DEF TypeOK, vars, money, marks, periods
  <2> QED
    BY <2>1, <2>2, <2>3, <2>4
    DEF Next, Moved, MarkPositions, ApplyFunding, ClosePosition, periods
<1> QED
  BY <1>1, <1>2, PTL DEF Spec

----------------------------------------------------------------------------
\* A strategy without a position has neither a gain nor a debt to show, and the
\* trades of a period account for the cash since the period began.
Ledger ==
  \A s \in Strategies :
    /\ s \notin open => unrealized[s] = 0 /\ accrued[s] = 0
    /\ today[s] - cash[s] + dayStart[s].equity = dayStart[s].carried - accrued[s]
    /\ week[s] - cash[s] + weekStart[s].equity = weekStart[s].carried - accrued[s]

\* While a position is open the trades of the period are within the limit; a
\* closed position takes them at most WorstLoss beyond.
WithinReach ==
  \A s \in Strategies :
    /\ s \in open => today[s] > -DailyLimit[s] /\ week[s] > -WeeklyLimit[s]
    /\ today[s] > -DailyLimit[s] - WorstLoss
    /\ week[s] > -WeeklyLimit[s] - WorstLoss

\* What is known of one strategy's row before a step.
LEMMA RowValues ==
  ASSUME TypeOK, NEW s \in Strategies
  PROVE  /\ cash[s] \in Int /\ unrealized[s] \in Int /\ accrued[s] \in Int
         /\ today[s] \in Int /\ week[s] \in Int
         /\ dayStart[s].equity \in Int /\ dayStart[s].carried \in Int
         /\ weekStart[s].equity \in Int /\ weekStart[s].carried \in Int
BY DEF TypeOK, Start

\* The limits of one strategy.
LEMMA LimitValues ==
  ASSUME NEW s \in Strategies
  PROVE  DailyLimit[s] \in Nat \ {0} /\ WeeklyLimit[s] \in Nat \ {0}
         /\ WorstLoss \in Nat /\ Fee \in Nat
BY GovernorAssumption DEF GovernorAssumption

\* Every action keeps the ledger.
LEMMA LedgerStep == TypeOK /\ Ledger /\ [Next]_vars => Ledger'
<1> SUFFICES ASSUME TypeOK, Ledger, [Next]_vars, NEW t \in Strategies
             PROVE  /\ t \notin open' => unrealized'[t] = 0 /\ accrued'[t] = 0
                    /\ today'[t] - cash'[t] + dayStart'[t].equity
                         = dayStart'[t].carried - accrued'[t]
                    /\ week'[t] - cash'[t] + weekStart'[t].equity
                         = weekStart'[t].carried - accrued'[t]
  BY DEF Ledger
<1> DEFINE Goal == /\ t \notin open' => unrealized'[t] = 0 /\ accrued'[t] = 0
                   /\ today'[t] - cash'[t] + dayStart'[t].equity
                        = dayStart'[t].carried - accrued'[t]
                   /\ week'[t] - cash'[t] + weekStart'[t].equity
                        = weekStart'[t].carried - accrued'[t]
<1>0. /\ t \notin open => unrealized[t] = 0 /\ accrued[t] = 0
      /\ today[t] - cash[t] + dayStart[t].equity = dayStart[t].carried - accrued[t]
      /\ week[t] - cash[t] + weekStart[t].equity = weekStart[t].carried - accrued[t]
  BY DEF Ledger
<1>a. /\ cash[t] \in Int /\ unrealized[t] \in Int /\ accrued[t] \in Int
      /\ today[t] \in Int /\ week[t] \in Int
      /\ dayStart[t].equity \in Int /\ dayStart[t].carried \in Int
      /\ weekStart[t].equity \in Int /\ weekStart[t].carried \in Int
  BY RowValues
<1>1. ASSUME NEW s \in Strategies, Open(s) PROVE Goal
  <2>1. /\ open' = open \cup {s} /\ s \notin open
        /\ cash'[t] = (IF t = s THEN cash[t] - Fee ELSE cash[t])
        /\ accrued'[t] = (IF t = s THEN -Fee ELSE accrued[t])
        /\ unrealized'[t] = unrealized[t]
        /\ today' = today /\ week' = week
        /\ dayStart' = dayStart /\ weekStart' = weekStart
    BY <1>1 DEF Open, periods, TypeOK
  <2>2. Fee \in Nat
    BY GovernorAssumption DEF GovernorAssumption
  <2> QED
    BY <1>0, <1>a, <2>1, <2>2
<1>2. ASSUME NEW gain \in [Strategies -> Gains], MarkPositions(gain) PROVE Goal
  <2>1. t \notin open => unrealized'[t] = unrealized[t]
    BY <1>2 DEF MarkPositions
  <2> QED
    BY <1>0, <1>2, <2>1 DEF MarkPositions, periods
<1>3. ASSUME NEW amount \in [Strategies -> Fundings], ApplyFunding(amount)
      PROVE  Goal
  <2>1. /\ open' = open /\ unrealized' = unrealized
        /\ cash'[t] = (IF t \in open THEN cash[t] + amount[t] ELSE cash[t])
        /\ accrued'[t] = (IF t \in open THEN accrued[t] + amount[t] ELSE accrued[t])
        /\ today' = today /\ week' = week
        /\ dayStart' = dayStart /\ weekStart' = weekStart
    BY <1>3 DEF ApplyFunding, periods
  <2>2. amount[t] \in Int
    BY GovernorAssumption DEF GovernorAssumption
  <2> QED
    BY <1>0, <1>a, <2>1, <2>2
<1>4. ASSUME NEW s \in Strategies, NEW gross \in Gains, ClosePosition(s, gross)
      PROVE  Goal
  <2>1. /\ open' = open \ {s}
        /\ cash'[t] = (IF t = s THEN cash[t] + gross - Fee ELSE cash[t])
        /\ accrued'[t] = (IF t = s THEN 0 ELSE accrued[t])
        /\ unrealized'[t] = (IF t = s THEN 0 ELSE unrealized[t])
        /\ today'[t] = (IF t = s THEN today[t] + gross + accrued[t] - Fee ELSE today[t])
        /\ week'[t] = (IF t = s THEN week[t] + gross + accrued[t] - Fee ELSE week[t])
        /\ dayStart' = dayStart /\ weekStart' = weekStart
    BY <1>4 DEF ClosePosition, TypeOK
  <2>2. gross \in Int /\ Fee \in Nat
    BY GovernorAssumption DEF GovernorAssumption
  <2>3. CASE t = s
    <3>1. /\ cash'[t] = cash[t] + gross - Fee
          /\ accrued'[t] = 0 /\ unrealized'[t] = 0
          /\ today'[t] = today[t] + gross + accrued[t] - Fee
          /\ week'[t] = week[t] + gross + accrued[t] - Fee
      BY <2>1, <2>3
    <3> DEFINE paid   == accrued[t]
               held   == cash[t]
               net1   == today[t]
               net2   == week[t]
               start1 == dayStart[t]
               start2 == weekStart[t]
    <3>2. /\ net1 - held + start1.equity = start1.carried - paid
          /\ net2 - held + start2.equity = start2.carried - paid
      BY <1>0
    <3>3. /\ paid \in Int /\ held \in Int /\ net1 \in Int /\ net2 \in Int
          /\ start1 \in Start /\ start2 \in Start
      BY DEF TypeOK
    <3>4. /\ cash'[t] = held + gross - Fee
          /\ today'[t] = net1 + gross + paid - Fee
          /\ week'[t] = net2 + gross + paid - Fee
      BY <3>1
    <3> HIDE DEF paid, held, net1, net2, start1, start2
    <3>5. /\ today'[t] - cash'[t] + start1.equity = start1.carried - 0
          /\ week'[t] - cash'[t] + start2.equity = start2.carried - 0
      BY <2>2, <3>2, <3>3, <3>4 DEF Start
    <3> QED
      BY <2>1, <3>1, <3>5 DEF start1, start2
  <2>4. CASE t # s
    <3>1. /\ cash'[t] = cash[t] /\ today'[t] = today[t] /\ week'[t] = week[t]
          /\ accrued'[t] = accrued[t] /\ unrealized'[t] = unrealized[t]
          /\ t \notin open' => t \notin open
      BY <2>1, <2>4
    <3> QED
      BY <1>0, <2>1, <3>1
  <2> QED
    BY <2>3, <2>4
<1>5. ASSUME NewDay PROVE Goal
  <2>1. /\ Snapshot[t].equity = cash[t] + unrealized[t]
        /\ Snapshot[t].carried = unrealized[t] + accrued[t]
    BY DEF Snapshot, Equity
  <2>2. /\ open' = open /\ unrealized' = unrealized /\ accrued' = accrued
        /\ cash' = cash /\ today'[t] = 0 /\ dayStart' = Snapshot
        /\ \/ week' = week /\ weekStart' = weekStart
           \/ week'[t] = 0 /\ weekStart' = Snapshot
    BY <1>5 DEF NewDay, money
  <2> QED
    BY <1>0, <1>a, <2>1, <2>2
<1>6. CASE UNCHANGED vars
  BY <1>6, <1>0 DEF vars, money, periods
<1> QED
  BY <1>1, <1>2, <1>3, <1>4, <1>5, <1>6 DEF Next

\* The measure of a period differs from the change of the equity by exactly
\* what was carried in less what the open position has paid.
THEOREM DriftIsKnown == Spec => []PeriodDrift
<1>1. Init => Ledger
  <2> SUFFICES ASSUME Init, NEW s \in Strategies
               PROVE  /\ unrealized[s] = 0 /\ accrued[s] = 0
                      /\ today[s] - cash[s] + dayStart[s].equity
                           = dayStart[s].carried - accrued[s]
                      /\ week[s] - cash[s] + weekStart[s].equity
                           = weekStart[s].carried - accrued[s]
    BY DEF Ledger
  <2>1. Stake[s] \in Nat
    BY GovernorAssumption DEF GovernorAssumption
  <2> QED
    BY <2>1 DEF Init
<1>2. TypeOK /\ Ledger => PeriodDrift
  <2> SUFFICES ASSUME TypeOK, Ledger, NEW s \in Strategies
               PROVE  /\ Measured(today, s) - Change(dayStart, s)
                           = dayStart[s].carried - accrued[s]
                      /\ Measured(week, s) - Change(weekStart, s)
                           = weekStart[s].carried - accrued[s]
    BY DEF PeriodDrift
  <2>1. /\ today[s] - cash[s] + dayStart[s].equity = dayStart[s].carried - accrued[s]
        /\ week[s] - cash[s] + weekStart[s].equity = weekStart[s].carried - accrued[s]
    BY DEF Ledger
  <2> QED
    BY <2>1, RowValues DEF Measured, Change, Equity
<1> QED
  BY <1>1, <1>2, LedgerStep, TypeCorrect, PTL DEF Spec

\* Every action keeps the trades of a period within reach of the limits.
LEMMA ReachStep ==
  TypeOK /\ Ledger /\ WithinReach /\ [Next]_vars => WithinReach'
<1> SUFFICES ASSUME TypeOK, Ledger, WithinReach, [Next]_vars, NEW t \in Strategies
             PROVE  /\ t \in open' => /\ today'[t] > -DailyLimit[t]
                                      /\ week'[t] > -WeeklyLimit[t]
                    /\ today'[t] > -DailyLimit[t] - WorstLoss
                    /\ week'[t] > -WeeklyLimit[t] - WorstLoss
  BY DEF WithinReach
<1> DEFINE Goal == /\ t \in open' => /\ today'[t] > -DailyLimit[t]
                                     /\ week'[t] > -WeeklyLimit[t]
                   /\ today'[t] > -DailyLimit[t] - WorstLoss
                   /\ week'[t] > -WeeklyLimit[t] - WorstLoss
<1>0. /\ t \in open => today[t] > -DailyLimit[t] /\ week[t] > -WeeklyLimit[t]
      /\ today[t] > -DailyLimit[t] - WorstLoss
      /\ week[t] > -WeeklyLimit[t] - WorstLoss
  BY DEF WithinReach
<1>a. /\ accrued[t] \in Int /\ today[t] \in Int /\ week[t] \in Int
      /\ DailyLimit[t] \in Nat \ {0} /\ WeeklyLimit[t] \in Nat \ {0}
      /\ WorstLoss \in Nat /\ Fee \in Nat
  BY RowValues, LimitValues
<1>1. ASSUME NEW s \in Strategies, Open(s) PROVE Goal
  <2>1. open' = open \cup {s} /\ today' = today /\ week' = week
    BY <1>1 DEF Open, periods
  <2>2. unrealized[s] = 0
    BY <1>1 DEF Open, Ledger
  <2>3. t = s => today[t] > -DailyLimit[t] /\ week[t] > -WeeklyLimit[t]
    BY <1>1, <1>a, <2>2 DEF Open, WithinOwnLimits, Measured
  <2> QED
    BY <1>0, <2>1, <2>3
<1>2. ASSUME NEW gain \in [Strategies -> Gains], MarkPositions(gain) PROVE Goal
  BY <1>0, <1>2 DEF MarkPositions, periods
<1>3. ASSUME NEW amount \in [Strategies -> Fundings], ApplyFunding(amount)
      PROVE  Goal
  BY <1>0, <1>3 DEF ApplyFunding, periods
<1>4. ASSUME NEW s \in Strategies, NEW gross \in Gains, ClosePosition(s, gross)
      PROVE  Goal
  <2>1. CASE t # s
    BY <1>0, <1>4, <2>1 DEF ClosePosition, TypeOK
  <2>2. CASE t = s
    <3>1. /\ t \in open /\ open' = open \ {t}
          /\ today'[t] = today[t] + gross + accrued[t] - Fee
          /\ week'[t] = week[t] + gross + accrued[t] - Fee
          /\ gross + accrued[t] - Fee >= -WorstLoss
      BY <1>4, <2>2 DEF ClosePosition, Bearable, TypeOK
    <3>2. gross \in Int
      BY GovernorAssumption DEF GovernorAssumption
    <3> QED
      BY <1>0, <1>a, <3>1, <3>2
  <2> QED
    BY <2>1, <2>2
<1>5. ASSUME NewDay PROVE Goal
  <2>1. /\ open' = open /\ today'[t] = 0
        /\ \/ week' = week
           \/ week'[t] = 0
    BY <1>5 DEF NewDay, money
  <2> QED
    BY <1>0, <1>a, <2>1
<1>6. CASE UNCHANGED vars
  BY <1>6, <1>0 DEF vars, money, periods
<1> QED
  BY <1>1, <1>2, <1>3, <1>4, <1>5, <1>6 DEF Next

\* A limit that is only asked before an entry still bounds what a day and a
\* week can cost, because one position per strategy is open at a time.
THEOREM PeriodLossIsBounded == Spec => []PeriodLossBounded
<1>1. Init => Ledger /\ WithinReach
  <2> SUFFICES ASSUME Init, NEW s \in Strategies
               PROVE  /\ unrealized[s] = 0 /\ accrued[s] = 0
                      /\ today[s] - cash[s] + dayStart[s].equity
                           = dayStart[s].carried - accrued[s]
                      /\ week[s] - cash[s] + weekStart[s].equity
                           = weekStart[s].carried - accrued[s]
                      /\ today[s] > -DailyLimit[s] - WorstLoss
                      /\ week[s] > -WeeklyLimit[s] - WorstLoss
                      /\ s \notin open
    BY DEF Ledger, WithinReach
  <2>1. Stake[s] \in Nat
    BY GovernorAssumption DEF GovernorAssumption
  <2> QED
    BY <2>1, LimitValues DEF Init
<1>2. WithinReach => PeriodLossBounded
  BY DEF WithinReach, PeriodLossBounded
<1> QED
  BY <1>1, <1>2, LedgerStep, ReachStep, TypeCorrect, PTL DEF Spec

----------------------------------------------------------------------------
\* The recorded drawdown never falls, and Open asks it first.
THEOREM DrawdownLimitIsFinal == Spec => DrawdownIsFinal
<1> DEFINE Held == \A s \in Strategies :
             DrawdownReached(s) => DrawdownReached(s)' /\ (s \in open' => s \in open)
<1>1. TypeOK /\ [Next]_vars => [Held]_vars
  <2> SUFFICES ASSUME TypeOK, Next, NEW t \in Strategies, DrawdownReached(t)
               PROVE  DrawdownReached(t)' /\ (t \in open' => t \in open)
    BY DEF Held
  <2>0. /\ drawdown[t] \in Nat /\ Stake[t] \in Nat /\ DrawdownPct[t] \in Nat
        /\ 100 * drawdown[t] >= DrawdownPct[t] * Stake[t]
    BY GovernorAssumption DEF TypeOK, GovernorAssumption, DrawdownReached
  <2>1. ASSUME NEW s \in Strategies, Open(s)
        PROVE  drawdown' = drawdown /\ (t \in open' => t \in open)
    BY <2>1 DEF Open, WithinOwnLimits, marks
  <2>2. CASE Moved
    <3>1. drawdown'[t] \in Nat /\ drawdown'[t] >= drawdown[t] /\ open' \subseteq open
      BY <2>2, MovedMarks, GovernorAssumption
    <3>2. 100 * drawdown'[t] >= 100 * drawdown[t]
      BY <2>0, <3>1
    <3>3. DrawdownPct[t] * Stake[t] \in Int
      BY <2>0
    <3>4. 100 * drawdown'[t] >= DrawdownPct[t] * Stake[t]
      BY <2>0, <3>1, <3>2, <3>3
    <3> QED
      BY <3>1, <3>4 DEF DrawdownReached
  <2>3. ASSUME NewDay PROVE drawdown' = drawdown /\ open' = open
    BY <2>3 DEF NewDay, money, marks
  <2> QED
    BY <2>0, <2>1, <2>2, <2>3 DEF Next, Moved, DrawdownReached
<1>2. DrawdownIsFinal <=> [][Held]_vars
  BY DEF DrawdownIsFinal
<1> QED
  BY <1>1, <1>2, TypeCorrect, PTL DEF Spec
----------------------------------------------------------------------------
Any(set) == CHOOSE x \in set : TRUE

\* What Total computes: the sum of f over the subsets of its domain.
SumOf(f) ==
  CHOOSE sum : sum = [set \in SUBSET DOMAIN f |->
    IF set = {} THEN 0 ELSE f[Any(set)] + sum[set \ {Any(set)}]]

LEMMA TotalIsSum ==
  ASSUME NEW f
  PROVE  Total(f) = SumOf(f)[DOMAIN f]
BY Zenon DEF Total, FoldFunction, FoldFunctionOnSet, MapThenFoldSet, SumOf, Any

LEMMA AnyIsElement ==
  ASSUME NEW set, set # {}
  PROVE  Any(set) \in set
BY DEF Any

\* Induction over the natural numbers, for a set of them.
LEMMA NumberInduction ==
  ASSUME NEW N, 0 \in N, \A n \in Nat : n \in N => n + 1 \in N
  PROVE  Nat \subseteq N
<1> DEFINE bad == Nat \ N
<1> SUFFICES ASSUME bad # {} PROVE FALSE
  OBVIOUS
<1>1. \E n \in bad : \A m \in bad : ~(<<m, n>> \in OpToRel(<, Nat))
  BY NatLessThanWellFounded, WFMin, bad \subseteq Nat, Zenon
<1>2. PICK n \in bad : \A m \in bad : ~(<<m, n>> \in OpToRel(<, Nat))
  BY <1>1
<1>3. n \in Nat /\ n # 0
  OBVIOUS
<1>4. n - 1 \in Nat /\ n - 1 < n /\ (n - 1) + 1 = n
  BY <1>3
<1>5. <<n - 1, n>> \in OpToRel(<, Nat)
  BY <1>3, <1>4 DEF OpToRel
<1>6. n - 1 \in N
  BY <1>2, <1>4, <1>5
<1> QED
  BY <1>4, <1>6

\* Induction over the subsets of a finite set, in the order Total takes them.
LEMMA SubsetInduction ==
  ASSUME NEW S, IsFiniteSet(S), NEW P, {} \in P,
         \A set \in SUBSET S : set # {} /\ set \ {Any(set)} \in P => set \in P
  PROVE  SUBSET S \subseteq P
<1> DEFINE N == {n \in Nat : \A set \in SUBSET S : Cardinality(set) <= n => set \in P}
<1>0. \A set \in SUBSET S : IsFiniteSet(set) /\ Cardinality(set) \in Nat
  BY FS_Subset, FS_CardinalityType
<1>1. 0 \in N
  <2>1. ASSUME NEW set \in SUBSET S, Cardinality(set) <= 0 PROVE set = {}
    BY <1>0, <2>1, FS_EmptySet
  <2> QED
    BY <2>1
<1>2. ASSUME NEW n \in Nat, n \in N PROVE n + 1 \in N
  <2>1. ASSUME NEW set \in SUBSET S, Cardinality(set) <= n + 1, set # {}
        PROVE  set \in P
    <3>1. Any(set) \in set
      BY <2>1, AnyIsElement
    <3>2. Cardinality(set \ {Any(set)}) = Cardinality(set) - 1
      BY <1>0, <3>1, FS_RemoveElement
    <3>3. Cardinality(set \ {Any(set)}) <= n
      BY <1>0, <2>1, <3>2
    <3>4. set \ {Any(set)} \in P
      BY <1>2, <3>3
    <3> QED
      BY <2>1, <3>4
  <2>2. \A set \in SUBSET S : Cardinality(set) <= n + 1 => set \in P
    BY <2>1
  <2> QED
    BY <2>2
<1>3. Nat \subseteq N
  <2> HIDE DEF N
  <2> QED
    BY <1>1, <1>2, NumberInduction
<1>4. ASSUME NEW set \in SUBSET S PROVE set \in P
  <2>1. Cardinality(set) \in N
    BY <1>0, <1>3
  <2> QED
    BY <1>0, <2>1
<1> QED
  BY <1>4

AddsUp(sum, f, S) == \A set \in SUBSET S :
  sum[set] = IF set = {} THEN 0 ELSE f[Any(set)] + sum[set \ {Any(set)}]

\* The recursion of Total has a solution over a finite domain.
LEMMA SumExists ==
  ASSUME NEW S, IsFiniteSet(S), NEW f \in [S -> Int]
  PROVE  \E sum \in [SUBSET S -> Int] : AddsUp(sum, f, S)
<1> DEFINE Small(n) == {set \in SUBSET S : Cardinality(set) <= n}
           Rest(set) == set \ {Any(set)}
           Solves(sum, n) == \A set \in Small(n) :
             sum[set] = IF set = {} THEN 0 ELSE f[Any(set)] + sum[Rest(set)]
           N == {n \in Nat : \E sum \in [Small(n) -> Int] : Solves(sum, n)}
<1>0. \A set \in SUBSET S : IsFiniteSet(set) /\ Cardinality(set) \in Nat
  BY FS_Subset, FS_CardinalityType
<1>a. ASSUME NEW set \in SUBSET S, set # {}
      PROVE  /\ Any(set) \in S
             /\ Rest(set) \in SUBSET S
             /\ Cardinality(Rest(set)) = Cardinality(set) - 1
  <2>1. Any(set) \in set
    BY <1>a, AnyIsElement
  <2> QED
    BY <1>0, <2>1, FS_RemoveElement
<1>b. \A set \in SUBSET S : Cardinality(set) <= 0 => set = {}
  BY <1>0, FS_EmptySet
<1>1. 0 \in N
  <2> DEFINE sum == [set \in Small(0) |-> 0]
  <2>1. sum \in [Small(0) -> Int] /\ Solves(sum, 0)
    BY <1>b
  <2> QED
    BY <2>1
<1>2. ASSUME NEW n \in Nat, n \in N PROVE n + 1 \in N
  <2>1. PICK sum \in [Small(n) -> Int] : Solves(sum, n)
    BY <1>2
  <2> DEFINE more == [set \in Small(n + 1) |->
                        IF set \in Small(n) THEN sum[set]
                                            ELSE f[Any(set)] + sum[Rest(set)]]
  <2>2. ASSUME NEW set \in Small(n + 1), set # {}
        PROVE  /\ Rest(set) \in Small(n) /\ Rest(set) \in Small(n + 1)
               /\ Any(set) \in S
    <3>1. /\ Any(set) \in S
          /\ Rest(set) \in SUBSET S
          /\ Cardinality(Rest(set)) = Cardinality(set) - 1
      BY <1>a, <2>2, Zenon
    <3>2. Cardinality(set) \in Nat /\ Cardinality(set) <= n + 1
      BY <1>0
    <3>3. Cardinality(Rest(set)) <= n /\ Cardinality(Rest(set)) <= n + 1
      <4> DEFINE c == Cardinality(set)
                 r == Cardinality(Rest(set))
      <4>1. r = c - 1 /\ c \in Nat /\ c <= n + 1
        BY <3>1, <3>2
      <4> HIDE DEF c, r
      <4>2. r <= n /\ r <= n + 1
        BY <4>1
      <4> QED
        BY <4>2 DEF r
    <3> HIDE DEF Rest
    <3> QED
      BY <3>1, <3>3
  <2>3. {} \in Small(n)
    <3>1. {} \in SUBSET S /\ Cardinality({}) = 0
      BY FS_EmptySet
    <3> QED
      BY <3>1
  <2>e. \A set \in Small(n + 1) :
          more[set] = IF set \in Small(n) THEN sum[set] ELSE f[Any(set)] + sum[Rest(set)]
    BY Zenon
  <2>s. \A set \in Small(n) : sum[set] \in Int
    OBVIOUS
  <2>f. \A x \in S : f[x] \in Int
    OBVIOUS
  <2>i. Small(n) \subseteq Small(n + 1)
    <3>1. ASSUME NEW set \in Small(n) PROVE Cardinality(set) <= n + 1
      BY <1>0
    <3> QED
      BY <3>1
  <2>q. \A set \in Small(n) :
             sum[set] = IF set = {} THEN 0 ELSE f[Any(set)] + sum[Rest(set)]
    BY <2>1
  <2>d. more = [set \in Small(n + 1) |->
                        IF set \in Small(n) THEN sum[set]
                                            ELSE f[Any(set)] + sum[Rest(set)]]
    OBVIOUS
  <2> HIDE DEF Small, Rest, more
  <2>4. more \in [Small(n + 1) -> Int]
    <3>1. ASSUME NEW set \in Small(n + 1)
          PROVE  (IF set \in Small(n) THEN sum[set] ELSE f[Any(set)] + sum[Rest(set)]) \in Int
      <4>1. CASE set \in Small(n)
        BY <2>s, <4>1
      <4>2. CASE set \notin Small(n)
        <5>1. f[Any(set)] \in Int /\ sum[Rest(set)] \in Int
          BY <2>2, <2>3, <2>s, <2>f, <4>2
        <5> QED
          BY <4>2, <5>1
      <4> QED
        BY <4>1, <4>2
    <3> QED
      BY <2>d, <3>1
  <2>5. ASSUME NEW set \in Small(n + 1)
        PROVE  more[set] = IF set = {} THEN 0 ELSE f[Any(set)] + more[Rest(set)]
    <3>1. set # {} => more[Rest(set)] = sum[Rest(set)]
      BY <2>2, <2>e
    <3>2. more[{}] = 0
      BY <2>3, <2>i, <2>e, <2>q
    <3> QED
      BY <2>e, <2>q, <3>1, <3>2
  <2> QED
    <3>1. Solves(more, n + 1)
      BY <2>5
    <3>2. n + 1 \in Nat
      OBVIOUS
    <3> HIDE DEF Solves
    <3> QED
      BY <2>4, <3>1, <3>2
<1>3. Cardinality(S) \in Nat /\ Cardinality(S) \in N
  <2>1. Nat \subseteq N
    <3> HIDE DEF N
    <3> QED
      BY <1>1, <1>2, NumberInduction
  <2> QED
    BY <2>1, FS_CardinalityType
<1>4. Small(Cardinality(S)) = SUBSET S
  BY FS_Subset, FS_CardinalityType
<1> QED
  BY <1>3, <1>4 DEF AddsUp

Recursion(sum, f, S) ==
  /\ sum \in [SUBSET S -> Int] /\ sum[{}] = 0
  /\ \A set \in SUBSET S : set # {} => sum[set] = f[Any(set)] + sum[set \ {Any(set)}]

\* How SumOf computes.
LEMMA SumRecursion ==
  ASSUME NEW S, IsFiniteSet(S), NEW f \in [S -> Int]
  PROVE  Recursion(SumOf(f), f, S)
<1> DEFINE Solution(sum) == sum = [set \in SUBSET S |->
             IF set = {} THEN 0 ELSE f[Any(set)] + sum[set \ {Any(set)}]]
<1>1. PICK sum \in [SUBSET S -> Int] : AddsUp(sum, f, S)
  BY SumExists
<1>2. Solution(sum)
  <2> DEFINE Value(set) == IF set = {} THEN 0 ELSE f[Any(set)] + sum[set \ {Any(set)}]
  <2>1. \A set \in SUBSET S : sum[set] = Value(set)
    BY <1>1 DEF AddsUp
  <2>2. sum = [set \in SUBSET S |-> Value(set)]
    <3> HIDE DEF Value
    <3> QED
      BY <2>1
  <2> QED
    BY <2>2, Zenon
<1>3. SumOf(f) = CHOOSE it : Solution(it)
  BY DEF SumOf
<1>4. Solution(SumOf(f))
  <2> HIDE DEF Solution
  <2> QED
    BY <1>2, <1>3
<1>5. /\ SumOf(f)[{}] = 0
      /\ \A set \in SUBSET S : set # {} =>
           SumOf(f)[set] = f[Any(set)] + SumOf(f)[set \ {Any(set)}]
  BY <1>4
<1> DEFINE P == {set \in SUBSET S : SumOf(f)[set] \in Int}
<1>6. {} \in P
  BY <1>5
<1>7. ASSUME NEW set \in SUBSET S, set # {}, set \ {Any(set)} \in P PROVE set \in P
  <2>1. Any(set) \in set
    BY <1>7, AnyIsElement
  <2>2. f[Any(set)] \in Int
    BY <2>1
  <2> QED
    BY <1>5, <1>7, <2>2
<1>8. SUBSET S \subseteq P
  <2> HIDE DEF P
  <2> QED
    BY <1>6, <1>7, SubsetInduction
<1>9. SumOf(f) \in [SUBSET S -> Int]
  BY <1>4, <1>8
<1> QED
  BY <1>5, <1>9, Zenon DEF Recursion

\* A total of integers is one.
LEMMA TotalRange ==
  ASSUME NEW S, IsFiniteSet(S), NEW f \in [S -> Int]
  PROVE  Total(f) \in Int
<1>1. Recursion(SumOf(f), f, S)
  BY SumRecursion
<1>2. SumOf(f)[S] \in Int
  BY <1>1 DEF Recursion
<1> QED
  BY <1>2, TotalIsSum

\* Multiplying out a sum of two.
LEMMA Distributes ==
  ASSUME NEW a \in Int, NEW b \in Int, NEW u \in Int, NEW v \in Int,
         NEW x \in Int, NEW y \in Int
  PROVE  (a * u + b * v) + (a * x + b * y) = a * (u + x) + b * (v + y)
<1>1. a * (u + x) = a * u + a * x
  OBVIOUS
<1>2. b * (v + y) = b * v + b * y
  OBVIOUS
<1> DEFINE au == a * u
           ax == a * x
           bv == b * v
           by == b * y
<1>3. au \in Int /\ ax \in Int /\ bv \in Int /\ by \in Int
  OBVIOUS
<1> HIDE DEF au, ax, bv, by
<1>4. (au + bv) + (ax + by) = (au + ax) + (bv + by)
  BY <1>3
<1> QED
  BY <1>1, <1>2, <1>4 DEF au, ax, bv, by

\* h is a times f plus b times g.
Combination(h, a, f, b, g, S) ==
  /\ IsFiniteSet(S)
  /\ f \in [S -> Int] /\ g \in [S -> Int] /\ h \in [S -> Int]
  /\ a \in Int /\ b \in Int
  /\ \A s \in S : h[s] = a * f[s] + b * g[s]

\* Total is linear.
LEMMA TotalCombines ==
  ASSUME NEW S, NEW f, NEW g, NEW h, NEW a, NEW b, Combination(h, a, f, b, g, S)
  PROVE  Total(h) = a * Total(f) + b * Total(g)
<1> USE DEF Combination
<1> DEFINE F == SumOf(f)
           G == SumOf(g)
           H == SumOf(h)
           P == {set \in SUBSET S : H[set] = a * F[set] + b * G[set]}
<1>1. Recursion(F, f, S)
  BY SumRecursion
<1>2. Recursion(G, g, S)
  BY SumRecursion
<1>3. Recursion(H, h, S)
  BY SumRecursion
<1> HIDE DEF F, G, H
<1>4. {} \in P
  <2>1. a * 0 + b * 0 = 0
    OBVIOUS
  <2> QED
    BY <1>1, <1>2, <1>3, <2>1 DEF Recursion
<1>5. ASSUME NEW set \in SUBSET S, set # {}, set \ {Any(set)} \in P PROVE set \in P
  <2> DEFINE x == Any(set)
             rest == set \ {Any(set)}
             fx == f[Any(set)]
             gx == g[Any(set)]
             Fr == F[rest]
             Gr == G[rest]
  <2>1. Any(set) \in S /\ rest \in SUBSET S
    BY <1>5, AnyIsElement
  <2>2. fx \in Int /\ gx \in Int /\ Fr \in Int /\ Gr \in Int
    BY <1>1, <1>2, <2>1 DEF Recursion
  <2>3. H[set] = h[Any(set)] + H[rest] /\ F[set] = fx + Fr /\ G[set] = gx + Gr
    BY <1>1, <1>2, <1>3, <1>5 DEF Recursion
  <2>4. h[Any(set)] = a * fx + b * gx /\ H[rest] = a * Fr + b * Gr
    BY <1>5, <2>1
  <2> HIDE DEF rest, fx, gx, Fr, Gr
  <2>5. (a * fx + b * gx) + (a * Fr + b * Gr) = a * (fx + Fr) + b * (gx + Gr)
    BY <2>2, Distributes
  <2>6. H[set] = a * F[set] + b * G[set]
    BY <2>3, <2>4, <2>5, Zenon
  <2> QED
    BY <2>6
<1>6. SUBSET S \subseteq P
  <2> HIDE DEF P
  <2> QED
    BY <1>4, <1>5, SubsetInduction
<1>7. H[S] = a * F[S] + b * G[S]
  BY <1>6
<1>8. Total(f) = F[S] /\ Total(g) = G[S] /\ Total(h) = H[S]
  BY TotalIsSum DEF F, G, H
<1> QED
  BY <1>7, <1>8, Zenon

\* A total of positive numbers is positive.
LEMMA TotalPositive ==
  ASSUME NEW S, IsFiniteSet(S), S # {}, NEW f \in [S -> Int],
         \A s \in S : f[s] > 0
  PROVE  Total(f) > 0
<1> DEFINE F == SumOf(f)
           P == {set \in SUBSET S : F[set] >= 0 /\ (set # {} => F[set] > 0)}
<1>1. Recursion(F, f, S)
  BY SumRecursion
<1> HIDE DEF F
<1>2. {} \in P
  BY <1>1 DEF Recursion
<1>3. ASSUME NEW set \in SUBSET S, set # {}, set \ {Any(set)} \in P PROVE set \in P
  <2> DEFINE fx == f[Any(set)]
             Fr == F[set \ {Any(set)}]
  <2>1. Any(set) \in S
    BY <1>3, AnyIsElement
  <2>2. fx \in Int /\ fx > 0 /\ Fr \in Int /\ Fr >= 0
    BY <1>1, <1>3, <2>1 DEF Recursion
  <2>3. F[set] = fx + Fr
    BY <1>1, <1>3 DEF Recursion
  <2> HIDE DEF fx, Fr
  <2>4. fx + Fr > 0 /\ fx + Fr >= 0
    BY <2>2
  <2> QED
    BY <2>3, <2>4
<1>4. SUBSET S \subseteq P
  <2> HIDE DEF P
  <2> QED
    BY <1>2, <1>3, SubsetInduction
<1>5. F[S] > 0
  BY <1>4
<1>6. Total(f) = F[S]
  BY TotalIsSum DEF F
<1> QED
  BY <1>5, <1>6

----------------------------------------------------------------------------
\* No strategy has reached a limit of its own.
Unbreached == \A s \in Strategies : ~OwnBreach(s)

\* What the strategies have earned in a period is more than the sum of their
\* limits below zero, when it is for each of them.
LEMMA LossesAddUp ==
  ASSUME NEW net \in [Strategies -> Int], NEW limit \in [Strategies -> Nat \ {0}],
         unrealized \in [Strategies -> Int],
         \A s \in Strategies : Measured(net, s) > -limit[s],
         NEW k \in Nat, k >= 2
  PROVE  ~LossReaches(k, net, limit)
<1> DEFINE measured == [s \in Strategies |-> Measured(net, s)]
           slack == [s \in Strategies |-> measured[s] + limit[s]]
           M == Total(measured)
           L == Total(limit)
<1>0. IsFiniteSet(Strategies) /\ Strategies # {}
  BY GovernorAssumption DEF GovernorAssumption
<1>1. measured \in [Strategies -> Int] /\ limit \in [Strategies -> Int]
  BY DEF Measured
<1>2. ASSUME NEW s \in Strategies PROVE slack[s] \in Int /\ slack[s] > 0
  <2> DEFINE m == measured[s]
             l == limit[s]
  <2>1. m \in Int /\ l \in Int /\ m > -l
    BY <1>1
  <2> HIDE DEF m, l
  <2>2. m + l \in Int /\ m + l > 0
    BY <2>1
  <2> QED
    BY <2>2 DEF m, l
<1>3. slack \in [Strategies -> Int]
  BY <1>2
<1>4. \A s \in Strategies : slack[s] = 1 * measured[s] + 1 * limit[s]
  BY <1>1
<1>5. \A s \in Strategies : limit[s] > 0
  OBVIOUS
<1> HIDE DEF measured, slack
<1>6. Total(slack) = 1 * M + 1 * L
  <2>1. Combination(slack, 1, measured, 1, limit, Strategies)
    BY <1>0, <1>1, <1>3, <1>4 DEF Combination
  <2> QED
    BY <2>1, TotalCombines
<1>7. Total(slack) > 0
  BY <1>0, <1>2, <1>3, TotalPositive
<1>8. L > 0
  BY <1>0, <1>1, <1>5, TotalPositive
<1>9. M \in Int /\ L \in Int
  BY <1>0, <1>1, TotalRange
<1>10. LossReaches(k, net, limit) <=> -2 * M >= k * L
  BY Zenon DEF LossReaches, TotalLimit, measured
<1> HIDE DEF M, L
<1>11. M + L > 0
  BY <1>6, <1>7, <1>9
<1>12. k * L >= 2 * L
  BY <1>8, <1>9
<1> QED
  BY <1>9, <1>10, <1>11, <1>12

\* The portfolio's drawdown is less than the limit the strategies share, when
\* it is for each of them.
LEMMA DrawdownsAddUp ==
  ASSUME TypeOK, Unbreached, NEW d \in Nat \ {0},
         \A s \in Strategies : DrawdownPct[s] = d,
         NEW k \in Nat, k >= 2
  PROVE  ~DrawdownReaches(k)
<1> DEFINE equity == [s \in Strategies |-> Equity(s)]
           weights == [s \in Strategies |-> Stake[s] * DrawdownPct[s]]
           slack == [s \in Strategies |-> (d - 100) * peak[s] + 100 * equity[s]]
           T == Total(peak)
           E == Total(equity)
           W == Total(weights)
           K == Total(Stake)
<1>0. IsFiniteSet(Strategies) /\ Strategies # {}
  BY GovernorAssumption DEF GovernorAssumption
<1>1. /\ equity \in [Strategies -> Int] /\ peak \in [Strategies -> Int]
      /\ Stake \in [Strategies -> Int]
      /\ \A s \in Strategies : peak[s] > 0 /\ Stake[s] > 0
  BY GovernorAssumption DEF GovernorAssumption, TypeOK, Equity
<1>2. ASSUME NEW s \in Strategies PROVE slack[s] \in Int /\ slack[s] > 0
  <2> DEFINE p == peak[s]
             e == equity[s]
  <2>1. p \in Int /\ e \in Int /\ d \in Int
    BY <1>1
  <2>2. ~(100 * (p - e) >= d * p)
    <3>1. ~(100 * (p - e) >= DrawdownPct[s] * p)
      BY DEF Unbreached, OwnBreach
    <3> QED
      BY <3>1
  <2> HIDE DEF p, e
  <2>3. (d - 100) * p = d * p - 100 * p
    BY <2>1
  <2>4. d * p \in Int
    BY <2>1
  <2>5. (d - 100) * p + 100 * e \in Int /\ (d - 100) * p + 100 * e > 0
    BY <2>1, <2>2, <2>3, <2>4
  <2> QED
    BY <2>5 DEF p, e
<1>3. slack \in [Strategies -> Int]
  BY <1>2
<1>4. \A s \in Strategies : slack[s] = (d - 100) * peak[s] + 100 * equity[s]
  OBVIOUS
<1>5. /\ weights \in [Strategies -> Int]
      /\ \A s \in Strategies : weights[s] = d * Stake[s] + 0 * Stake[s]
  <2>1. ASSUME NEW s \in Strategies
        PROVE  weights[s] \in Int /\ weights[s] = d * Stake[s] + 0 * Stake[s]
    <3> DEFINE b == Stake[s]
    <3>1. b \in Int
      BY <1>1
    <3>2. weights[s] = b * d
      OBVIOUS
    <3> HIDE DEF b
    <3>3. b * d \in Int /\ b * d = d * b + 0 * b
      BY <3>1
    <3> QED
      BY <3>2, <3>3 DEF b
  <2> QED
    BY <2>1
<1> HIDE DEF equity, weights, slack
<1>6. T \in Int /\ E \in Int /\ W \in Int /\ K \in Int
  BY <1>0, <1>1, <1>5, TotalRange
<1>7. Total(slack) = (d - 100) * T + 100 * E
  <2>1. Combination(slack, d - 100, peak, 100, equity, Strategies)
    BY <1>0, <1>1, <1>3, <1>4 DEF Combination
  <2> QED
    BY <2>1, TotalCombines
<1>8. Total(slack) > 0
  BY <1>0, <1>2, <1>3, TotalPositive
<1>9. W = d * K + 0 * K
  <2>1. Combination(weights, d, Stake, 0, Stake, Strategies)
    BY <1>0, <1>1, <1>5 DEF Combination
  <2> QED
    BY <2>1, TotalCombines
<1>10. K > 0 /\ T > 0
  BY <1>0, <1>1, TotalPositive
<1>11. DrawdownReaches(k) <=> 200 * (T - E) * K >= k * T * W
  BY Zenon DEF DrawdownReaches, equity, weights
<1> HIDE DEF T, E, W, K
<1>12. (d - 100) * T = d * T - 100 * T
  BY <1>6
<1> DEFINE x == T - E
           y == d * T
<1>13. x \in Int /\ y \in Int /\ 100 * x < y /\ y > 0
  <2>1. d * T \in Int /\ d * T > 0
    BY <1>6, <1>10
  <2> QED
    BY <1>6, <1>7, <1>8, <1>12, <2>1
<1>14. k * T * W = (k * y) * K
  <2>1. W = d * K
    BY <1>6, <1>9
  <2> QED
    BY <1>6, <2>1
<1> HIDE DEF x, y
<1>15. 200 * x < k * y
  <2>1. k * y >= 2 * y
    BY <1>13
  <2> QED
    BY <1>13, <2>1
<1>16. 200 * x * K < (k * y) * K
  <2> DEFINE u == 200 * x
             v == k * y
  <2>1. u \in Int /\ v \in Int /\ u < v
    BY <1>13, <1>15
  <2> HIDE DEF u, v
  <2>2. u * K < v * K
    BY <1>6, <1>10, <2>1
  <2> QED
    BY <2>2 DEF u, v
<1>17. 200 * x * K \in Int /\ (k * y) * K \in Int
  BY <1>6, <1>13
<1> QED
  BY <1>11, <1>14, <1>16, <1>17 DEF x

\* While the strategies share a drawdown limit, the sums the governor halts
\* them on reach a limit only when one of the strategies has reached its own.
THEOREM HaltNeedsABreach == Spec => []OnlyABreachHalts
<1>1. TypeOK => OnlyABreachHalts
  <2> SUFFICES ASSUME TypeOK,
                      \A s, t \in Strategies : DrawdownPct[s] = DrawdownPct[t],
                      Unbreached
               PROVE  Severity \notin {"limit", "severe"}
    BY DEF OnlyABreachHalts, Unbreached
  <2>1. PICK t \in Strategies : TRUE
    BY GovernorAssumption DEF GovernorAssumption
  <2>2. DrawdownPct[t] \in Nat \ {0} /\ \A s \in Strategies : DrawdownPct[s] = DrawdownPct[t]
    BY GovernorAssumption DEF GovernorAssumption
  <2>3. /\ DailyLimit \in [Strategies -> Nat \ {0}]
        /\ WeeklyLimit \in [Strategies -> Nat \ {0}]
        /\ today \in [Strategies -> Int] /\ week \in [Strategies -> Int]
        /\ unrealized \in [Strategies -> Int]
    BY GovernorAssumption DEF GovernorAssumption, TypeOK
  <2>4. \A s \in Strategies : /\ Measured(today, s) > -DailyLimit[s]
                              /\ Measured(week, s) > -WeeklyLimit[s]
    BY <2>3 DEF Unbreached, OwnBreach, Measured
  <2>5. ASSUME NEW k \in Nat, k >= 2 PROVE ~SeverityReaches(k)
    <3>1. ~DrawdownReaches(k)
      BY <2>2, <2>5, DrawdownsAddUp
    <3>2. ~LossReaches(k, today, DailyLimit)
      BY <2>3, <2>4, <2>5, LossesAddUp
    <3>3. ~LossReaches(k, week, WeeklyLimit)
      BY <2>3, <2>4, <2>5, LossesAddUp
    <3> QED
      BY <3>1, <3>2, <3>3 DEF SeverityReaches
  <2>6. ~SeverityReaches(3) /\ ~SeverityReaches(2)
    BY <2>5
  <2> QED
    BY <2>6 DEF Severity
<1> QED
  BY <1>1, TypeCorrect, PTL
=============================================================================
