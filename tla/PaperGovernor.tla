---------------------------- MODULE PaperGovernor ----------------------------
(***************************************************************************)
(* The loss limits of the paper engine: what net_pnl_since of              *)
(* binance_paper/persistence.py measures over a day and a week, how        *)
(* governor.py adds it up over the strategies and what risk_engine.py      *)
(* refuses to one strategy.  Money is an integer; a position is what it    *)
(* would gain now and what it has paid so far; quantities and margins are  *)
(* in PaperAccount, the order lifecycle in PaperService.                   *)
(***************************************************************************)
EXTENDS Integers, FiniteSets, Functions, GovernorModes

CONSTANTS
  Strategies,
  Stake,          \* starting_cash_usd
  DailyLimit,     \* maximum_daily_loss_usd
  WeeklyLimit,    \* maximum_weekly_loss_usd
  DrawdownPct,    \* maximum_drawdown_fraction, in percent
  SmallestMargin, \* MINIMUM_ORDER_NOTIONAL_USD / leverage
  Fee,            \* fee of a fill
  Gains,          \* gains and losses a position can show
  Fundings,       \* amounts a settlement can add to or take from a position
  WorstLoss,      \* bound of the loss of one position, fees included
  MaxAccrued,     \* bound of what a position pays or receives before it closes
  DaysPerWeek,    \* 7
  MaxDays,        \* bound of the days
  MaxTrades       \* bound of the positions opened

\* Without strategies the governor adds nothing up: the accounts are invalid.
ASSUME GovernorAssumption ==
  /\ IsFiniteSet(Strategies) /\ Strategies # {}
  /\ Stake \in [Strategies -> Nat \ {0}]
  /\ DailyLimit \in [Strategies -> Nat \ {0}]
  /\ WeeklyLimit \in [Strategies -> Nat \ {0}]
  /\ DrawdownPct \in [Strategies -> Nat \ {0}]
  /\ SmallestMargin \in [Strategies -> Nat]
  /\ Fee \in Nat
  /\ Gains \subseteq Int
  /\ Fundings \subseteq Int
  /\ WorstLoss \in Nat
  /\ MaxAccrued \in Nat
  /\ DaysPerWeek \in Nat \ {0}
  /\ MaxDays \in Nat
  /\ MaxTrades \in Nat

VARIABLES
  cash,        \* available_cash_usd + used_margin_usd
  open,        \* strategies with an open position
  unrealized,  \* unrealized_pnl_usd of the open position
  accrued,     \* what the open position has paid: entry fee and funding
  peak,        \* peak_equity_usd
  drawdown,    \* maximum_drawdown_usd
  today,       \* net of the trades that exited since midnight
  week,        \* net of the trades that exited since Monday
  dayStart,    \* the account at midnight; no code keeps it
  weekStart,   \* the account on Monday; no code keeps it
  day, opened

money == <<cash, open, unrealized, accrued>>
marks == <<peak, drawdown>>
periods == <<today, week, dayStart, weekStart, day>>
vars == <<money, marks, periods, opened>>

Start == [equity : Int, carried : Int]

TypeOK ==
  /\ cash \in [Strategies -> Int]
  /\ open \subseteq Strategies
  /\ unrealized \in [Strategies -> Int]
  /\ accrued \in [Strategies -> Int]
  /\ peak \in [Strategies -> Nat \ {0}]
  /\ drawdown \in [Strategies -> Nat]
  /\ today \in [Strategies -> Int]
  /\ week \in [Strategies -> Int]
  /\ dayStart \in [Strategies -> Start]
  /\ weekStart \in [Strategies -> Start]
  /\ day \in 0..MaxDays
  /\ opened \in 0..MaxTrades

----------------------------------------------------------------------------
Equity(s) == cash[s] + unrealized[s]

RealisedOnly(net, s) == net[s]

OpenOnly(net, s) == unrealized[s]

\* net_pnl_since: every trade that exited in the period whole, and every open
\* position with all it gains now.
Measured(net, s) == net[s] + unrealized[s]

Total(f) == FoldFunction(+, 0, f)

LeastLimit(limit) == CHOOSE n \in {limit[s] : s \in Strategies} :
                       \A s \in Strategies : n <= limit[s]

TotalLimit(limit) == Total(limit)

\* daily_fraction and weekly_fraction are at least k/2.
LossReaches(k, net, limit) ==
  -2 * Total([s \in Strategies |-> Measured(net, s)]) >= k * TotalLimit(limit)

\* drawdown_fraction_of_limit is at least k/2: the drawdown of the portfolio
\* against the limits weighted by the stakes.
DrawdownReaches(k) ==
  LET top == Total(peak)
      equity == Total([s \in Strategies |-> Equity(s)])
      weighted == Total([s \in Strategies |-> Stake[s] * DrawdownPct[s]])
  IN  200 * (top - equity) * Total(Stake) >= k * top * weighted

SeverityReaches(k) ==
  \/ DrawdownReaches(k)
  \/ LossReaches(k, today, DailyLimit)
  \/ LossReaches(k, week, WeeklyLimit)

Severity ==
  IF SeverityReaches(3) THEN "severe"
  ELSE IF SeverityReaches(2) THEN "limit"
  ELSE IF SeverityReaches(1) THEN "half"
  ELSE "none"

LossFacts ==
  [SoundFacts EXCEPT
     !.severity = Severity,
     !.ruined = \E s \in Strategies : Equity(s) <= 0,
     !.starved = \E s \in Strategies :
                   0 < Equity(s) /\ Equity(s) < SmallestMargin[s]]

DrawdownNow(s) == 100 * (peak[s] - Equity(s)) >= DrawdownPct[s] * Stake[s]

\* maximum_drawdown_reached
DrawdownReached(s) == 100 * drawdown[s] >= DrawdownPct[s] * Stake[s]

\* What evaluate_entry asks of the strategy's own losses.
WithinOwnLimits(s) ==
  /\ ~DrawdownReached(s)
  /\ Measured(today, s) > -DailyLimit[s]
  /\ Measured(week, s) > -WeeklyLimit[s]

----------------------------------------------------------------------------
Init ==
  /\ cash = Stake
  /\ open = {}
  /\ unrealized = [s \in Strategies |-> 0]
  /\ accrued = [s \in Strategies |-> 0]
  /\ peak = Stake
  /\ drawdown = [s \in Strategies |-> 0]
  /\ today = [s \in Strategies |-> 0]
  /\ week = [s \in Strategies |-> 0]
  /\ dayStart = [s \in Strategies |-> [equity |-> Stake[s], carried |-> 0]]
  /\ weekStart = dayStart
  /\ day = 0
  /\ opened = 0

Greater(a, b) == IF a >= b THEN a ELSE b

DrawdownOfStalePeak ==
  /\ peak' = [s \in Strategies |-> Greater(peak[s], Equity(s)')]
  /\ drawdown' = [s \in Strategies |-> peak[s] - Equity(s)']

\* Every write but open_position's raises the peak and then the drawdown.
Observe ==
  /\ peak' = [s \in Strategies |-> Greater(peak[s], Equity(s)')]
  /\ drawdown' = [s \in Strategies |->
                    Greater(drawdown[s], peak[s]' - Equity(s)')]

\* open_position of an approved entry.
Open(s) ==
  /\ s \notin open
  /\ opened < MaxTrades
  /\ CanOpen(Mode(LossFacts))
  /\ WithinOwnLimits(s)
  /\ open' = open \cup {s}
  /\ cash' = [cash EXCEPT ![s] = @ - Fee]
  /\ accrued' = [accrued EXCEPT ![s] = -Fee]
  /\ opened' = opened + 1
  /\ UNCHANGED <<unrealized, marks, periods>>

\* No position loses more than WorstLoss, its fees included.
Bearable(gain, paid) == gain + paid - Fee >= -WorstLoss

\* mark_positions
MarkPositions(gain) ==
  /\ open # {}
  /\ \A s \in open : Bearable(gain[s], accrued[s])
  /\ unrealized' = [s \in Strategies |-> IF s \in open THEN gain[s] ELSE unrealized[s]]
  /\ UNCHANGED <<cash, open, accrued, periods, opened>>
  /\ Observe

\* apply_observed_funding: one transaction over the open positions; 0 for those
\* that have been charged the settlement before.
ApplyFunding(amount) ==
  /\ open # {}
  /\ \A s \in open :
       /\ accrued[s] + amount[s] \in -MaxAccrued..MaxAccrued
       /\ Bearable(unrealized[s], accrued[s] + amount[s])
  /\ cash' = [s \in Strategies |-> IF s \in open THEN cash[s] + amount[s] ELSE cash[s]]
  /\ accrued' = [s \in Strategies |->
                   IF s \in open THEN accrued[s] + amount[s] ELSE accrued[s]]
  /\ UNCHANGED <<open, unrealized, periods, opened>>
  /\ Observe

\* close_position
ClosePosition(s, gross) ==
  /\ s \in open
  /\ Bearable(gross, accrued[s])
  /\ open' = open \ {s}
  /\ cash' = [cash EXCEPT ![s] = @ + gross - Fee]
  /\ unrealized' = [unrealized EXCEPT ![s] = 0]
  /\ accrued' = [accrued EXCEPT ![s] = 0]
  /\ today' = [today EXCEPT ![s] = @ + gross + accrued[s] - Fee]
  /\ week' = [week EXCEPT ![s] = @ + gross + accrued[s] - Fee]
  /\ UNCHANGED <<dayStart, weekStart, day, opened>>
  /\ Observe

Snapshot ==
  [s \in Strategies |-> [equity |-> Equity(s), carried |-> unrealized[s] + accrued[s]]]

IsMonday(d) == d % DaysPerWeek = 0

\* day_start_ms, and on Mondays week_start_ms, move on.
NewDay ==
  /\ day < MaxDays
  /\ day' = day + 1
  /\ today' = [s \in Strategies |-> 0]
  /\ dayStart' = Snapshot
  /\ IF IsMonday(day + 1)
       THEN week' = [s \in Strategies |-> 0] /\ weekStart' = Snapshot
       ELSE UNCHANGED <<week, weekStart>>
  /\ UNCHANGED <<money, marks, opened>>

Next ==
  \/ \E s \in Strategies : Open(s)
  \/ \E gain \in [Strategies -> Gains] : MarkPositions(gain)
  \/ \E amount \in [Strategies -> Fundings] : ApplyFunding(amount)
  \/ \E s \in Strategies, gross \in Gains : ClosePosition(s, gross)
  \/ NewDay

Spec == Init /\ [][Next]_vars
----------------------------------------------------------------------------
(***************************************************************************)
(* Properties.                                                             *)
(***************************************************************************)

\* What the account has really gained or lost since the period began.
Change(start, s) == Equity(s) - start[s].equity

\* The error of the measure is known exactly: net_pnl_since exceeds the change
\* of the equity by what the position carried into the period was worth, less
\* what the position open now has already paid.
PeriodDrift ==
  \A s \in Strategies :
    /\ Measured(today, s) - Change(dayStart, s) = dayStart[s].carried - accrued[s]
    /\ Measured(week, s) - Change(weekStart, s) = weekStart[s].carried - accrued[s]

\* The limits hold although they are only asked before an entry: what a
\* strategy realizes in a day or a week never exceeds its limit by the worst
\* loss of one position.
PeriodLossBounded ==
  \A s \in Strategies :
    /\ today[s] > -DailyLimit[s] - WorstLoss
    /\ week[s] > -WeeklyLimit[s] - WorstLoss

\* "The stake is fixed and never topped up": a strategy whose recorded
\* drawdown has reached its limit opens nothing any more, however much a
\* position it still holds recovers and however many days pass.
DrawdownIsFinal ==
  [][\A s \in Strategies :
       DrawdownReached(s) => DrawdownReached(s)' /\ (s \in open' => s \in open)]_vars

OwnBreach(s) ==
  \/ 100 * (peak[s] - Equity(s)) >= DrawdownPct[s] * peak[s]
  \/ Measured(today, s) <= -DailyLimit[s]
  \/ Measured(week, s) <= -WeeklyLimit[s]

\* The governor adds up profits and losses of all strategies: while they have
\* the same drawdown limit, it halts them for a loss only when one of them has
\* reached a limit of its own.
OnlyABreachHalts ==
  (\A s, t \in Strategies : DrawdownPct[s] = DrawdownPct[t]) =>
    (Severity \in {"limit", "severe"} => \E s \in Strategies : OwnBreach(s))

\* "This ERRS STRICT" (net_pnl_since): when a strategy is down by its daily
\* limit since midnight, the measure says so.  The code does not keep this (README,
\* section 6) and no run checks it.
ErrsStrict ==
  \A s \in Strategies :
    Change(dayStart, s) <= -DailyLimit[s] => Measured(today, s) <= -DailyLimit[s]
=============================================================================
