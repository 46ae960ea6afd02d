---------------------------- MODULE PaperAccount ----------------------------
(***************************************************************************)
(* The money side of backend/binance_paper/persistence.py: one account and *)
(* at most one open position per strategy, and the four DuckDB             *)
(* transactions that move cash -- opening a position, marking it, charging *)
(* observed funding and closing it.  Each action is one committed          *)
(* transaction.  Amounts are integers (the code uses doubles); prices,     *)
(* sizes and rates come from small sets.                                   *)
(***************************************************************************)
EXTENDS Integers

CONSTANTS
  Strategies,      \* the strategy ids, one account each
  Prices,          \* prices a fill or a mark can have
  Quantities,      \* order sizes
  Leverages,       \* leverage settings of strategy.risk
  FundingRates,    \* settled funding rates, in units of 1/RateScale
  FeeRate,         \* taker fee, in units of 1/RateScale
  RateScale,
  StartingCash,
  MaxTime,         \* bound of the clock
  MaxTrades,       \* bound of closed_trade_count
  None             \* no open position

ASSUME AccountAssumption ==
  /\ Prices \subseteq Nat \ {0}
  /\ Quantities \subseteq Nat \ {0}
  /\ Leverages \subseteq Nat \ {0}
  /\ FundingRates \subseteq Int
  /\ FeeRate \in Nat
  /\ RateScale \in Nat \ {0}
  /\ StartingCash \in Nat \ {0}
  /\ MaxTime \in Nat
  /\ MaxTrades \in Nat

VARIABLES
  account,    \* binance_paper_accounts: the columns that value the account
  totals,     \* binance_paper_accounts: the columns that accumulate
  position,   \* the OPEN row of binance_paper_positions, or None
  trades,     \* per strategy, the totals of its binance_paper_trades rows
  now         \* received_at_ms of the newest snapshot

vars == <<account, totals, position, trades, now>>

Sides == {"LONG", "SHORT"}

\* The columns of an account row that value it, and those that add up what
\* has been paid and earned.
Account ==
  [available_cash : Int, used_margin : Nat, equity : Int, unrealized : Int,
   peak_equity : Int, maximum_drawdown : Nat]

Totals ==
  [realized : Int, trading_fees : Nat, funding : Int, closed_trade_count : Nat]

\* `charged' is the set of settlements with a funding event for the position,
\* `funding' the sum of those events.
Position ==
  [side : Sides, quantity : Nat, entry_price : Nat, margin : Nat,
   entry_fee : Nat, unrealized : Int, opened_at : Nat,
   charged : SUBSET Nat, funding : Int]

ASSUME NoneAssumption == None \notin Position

Trades == [gross : Int, fees : Int, funding : Int]

TypeOK ==
  /\ account \in [Strategies -> Account]
  /\ totals \in [Strategies -> Totals]
  /\ position \in [Strategies -> Position \cup {None}]
  /\ trades \in [Strategies -> Trades]
  /\ now \in Nat

----------------------------------------------------------------------------
Direction(side) == IF side = "LONG" THEN 1 ELSE -1

Larger(a, b) == IF a >= b THEN a ELSE b

\* binance_fee
Fee(notional) == (notional * FeeRate) \div RateScale

\* _unrealized, and the gross of a close
PriceGain(p, price) == Direction(p.side) * p.quantity * (price - p.entry_price)

IsOpen(s) == position[s] # None

\* The columns an UPDATE of the account writes.  Every writer sets the equity
\* to cash, margin and unrealized gain and raises the peak to it.
Row(a, cash, margin, unrealized, drawdown) ==
  [available_cash |-> cash, used_margin |-> margin,
   equity |-> cash + margin + unrealized, unrealized |-> unrealized,
   peak_equity |-> Larger(a.peak_equity, cash + margin + unrealized),
   maximum_drawdown |-> drawdown]

StaleDrawdown(a, equity) == a.maximum_drawdown

\* max(max_dd, peak - equity), with the peak already raised
Drawdown(a, equity) ==
  Larger(a.maximum_drawdown, Larger(a.peak_equity, equity) - equity)

Init ==
  /\ account = [s \in Strategies |->
       [available_cash |-> StartingCash, used_margin |-> 0,
        equity |-> StartingCash, unrealized |-> 0,
        peak_equity |-> StartingCash, maximum_drawdown |-> 0]]
  /\ totals = [s \in Strategies |->
       [realized |-> 0, trading_fees |-> 0, funding |-> 0,
        closed_trade_count |-> 0]]
  /\ position = [s \in Strategies |-> None]
  /\ trades = [s \in Strategies |-> [gross |-> 0, fees |-> 0, funding |-> 0]]
  /\ now = 0

\* A later book arrives.
Advance ==
  /\ now < MaxTime
  /\ now' = now + 1
  /\ UNCHANGED <<account, totals, position, trades>>

\* open_position: refused when the strategy has an open position or the cash
\* does not cover margin and fee.  The drawdown is left alone.
OpenPosition(s, side, quantity, price, leverage) ==
  LET notional == price * quantity
      margin == notional \div leverage
      fee == Fee(notional)
      a == account[s]
  IN  /\ ~IsOpen(s)
      /\ totals[s].closed_trade_count < MaxTrades
      /\ a.available_cash >= margin + fee
      /\ account' = [account EXCEPT ![s] =
           Row(a, a.available_cash - (margin + fee), a.used_margin + margin, 0,
               a.maximum_drawdown)]
      /\ totals' = [totals EXCEPT ![s].trading_fees = @ + fee]
      /\ position' = [position EXCEPT ![s] =
           [side |-> side, quantity |-> quantity, entry_price |-> price,
            margin |-> margin, entry_fee |-> fee, unrealized |-> 0,
            opened_at |-> now, charged |-> {}, funding |-> 0]]
      /\ UNCHANGED <<trades, now>>

\* The account after its position is worth `gain' and `paid' has been added to
\* its cash.
Revalued(s, paid, gain) ==
  LET a == account[s]
      cash == a.available_cash + paid
  IN  Row(a, cash, a.used_margin, gain, Drawdown(a, cash + a.used_margin + gain))

\* mark_positions: one transaction over every open position.
MarkPositions(mark) ==
  /\ \E s \in Strategies : IsOpen(s)
  /\ account' = [s \in Strategies |->
       IF IsOpen(s) THEN Revalued(s, 0, PriceGain(position[s], mark))
       ELSE account[s]]
  /\ position' = [s \in Strategies |->
       IF IsOpen(s)
         THEN [position[s] EXCEPT !.unrealized = PriceGain(position[s], mark)]
         ELSE None]
  /\ UNCHANGED <<totals, trades, now>>

OwesWhenOpen(s, time) ==
  /\ IsOpen(s)
  /\ position[s].opened_at < time

\* The positions a settlement at `time' is still to be charged to.
Owes(s, time) ==
  /\ IsOpen(s)
  /\ position[s].opened_at < time
  /\ time \notin position[s].charged

\* -direction * notional * rate
FundingCharge(p, mark, rate) ==
  -(Direction(p.side) * ((p.quantity * mark * rate) \div RateScale))

Charged(p, time, charge) ==
  [side |-> p.side, quantity |-> p.quantity, entry_price |-> p.entry_price,
   margin |-> p.margin, entry_fee |-> p.entry_fee, unrealized |-> p.unrealized,
   opened_at |-> p.opened_at, charged |-> p.charged \cup {time},
   funding |-> p.funding + charge]

\* apply_observed_funding: the provider reports the last settlement it knows,
\* which may be old news; a position pays each settlement once.
ApplyFunding(time, rate, mark) ==
  LET charge(s) == FundingCharge(position[s], mark, rate)
  IN  /\ 0 < time /\ time <= now
      /\ \E s \in Strategies : Owes(s, time)
      /\ account' = [s \in Strategies |->
           IF Owes(s, time) THEN Revalued(s, charge(s), account[s].unrealized)
           ELSE account[s]]
      /\ totals' = [s \in Strategies |->
           IF Owes(s, time)
             THEN [totals[s] EXCEPT !.funding = @ + charge(s)]
             ELSE totals[s]]
      /\ position' = [s \in Strategies |->
           IF Owes(s, time) THEN Charged(position[s], time, charge(s))
           ELSE position[s]]
      /\ UNCHANGED <<trades, now>>

\* What a close returns to cash, what it leaves as margin and what it realizes.
CashAfterCloseFeeForgotten(a, p, gross, fee) ==
  a.available_cash + p.margin + gross

CashAfterClose(a, p, gross, fee) ==
  a.available_cash + p.margin + gross - fee

MarginKept(a, p) == a.used_margin

NotionalReleased(a, p) == a.used_margin - p.quantity * p.entry_price

MarginAfterClose(a, p) == Larger(0, a.used_margin - p.margin)

NetWithoutFunding(p, gross, fee) == gross - p.entry_fee - fee

NetOfClose(p, gross, fee) == gross - p.entry_fee - fee + p.funding

\* close_position: always the full position.
ClosePosition(s, price) ==
  LET p == position[s]
      a == account[s]
      gross == PriceGain(p, price)
      fee == Fee(price * p.quantity)
      cash == CashAfterClose(a, p, gross, fee)
      margin == MarginAfterClose(a, p)
  IN  /\ IsOpen(s)
      /\ account' = [account EXCEPT ![s] =
           Row(a, cash, margin, 0, Drawdown(a, cash + margin))]
      /\ totals' = [totals EXCEPT
           ![s].realized = @ + NetOfClose(p, gross, fee),
           ![s].trading_fees = @ + fee,
           ![s].closed_trade_count = @ + 1]
      /\ position' = [position EXCEPT ![s] = None]
      /\ trades' = [trades EXCEPT ![s] =
           [gross |-> @.gross + gross,
            fees |-> @.fees + (p.entry_fee + fee),
            funding |-> @.funding + p.funding]]
      /\ UNCHANGED now

Next ==
  \/ Advance
  \/ \E s \in Strategies, side \in Sides, q \in Quantities, price \in Prices,
        leverage \in Leverages : OpenPosition(s, side, q, price, leverage)
  \/ \E mark \in Prices : MarkPositions(mark)
  \/ \E time \in 1..MaxTime, rate \in FundingRates, mark \in Prices :
        ApplyFunding(time, rate, mark)
  \/ \E s \in Strategies, price \in Prices : ClosePosition(s, price)

Spec == Init /\ [][Next]_vars

----------------------------------------------------------------------------
OpenMargin(s) == IF IsOpen(s) THEN position[s].margin ELSE 0
OpenEntryFee(s) == IF IsOpen(s) THEN position[s].entry_fee ELSE 0
OpenFunding(s) == IF IsOpen(s) THEN position[s].funding ELSE 0
OpenGain(s) == IF IsOpen(s) THEN position[s].unrealized ELSE 0

\* reconcile_or_raise accepts every committed state, so a restart between any
\* two transactions can never refuse to start (its raises at
\* persistence.py:1440-1454).
Reconciles ==
  \A s \in Strategies :
    /\ account[s].used_margin = OpenMargin(s)
    /\ account[s].unrealized = OpenGain(s)
    /\ account[s].equity = account[s].available_cash + account[s].used_margin
                             + account[s].unrealized

\* No cent appears or disappears: cash plus margin is the stake plus what the
\* trades grossed plus funding less fees, over the account's own columns.
CashConserved ==
  \A s \in Strategies :
    account[s].available_cash + account[s].used_margin =
      StartingCash + trades[s].gross + totals[s].funding
        - totals[s].trading_fees

\* The realized column counts a position once, when it closes, with both its
\* fees and all its funding, and nothing of a position that is still open.
RealizedMatchesTrades ==
  \A s \in Strategies :
    /\ totals[s].realized =
         trades[s].gross - trades[s].fees + trades[s].funding
    /\ totals[s].trading_fees = trades[s].fees + OpenEntryFee(s)
    /\ totals[s].funding = trades[s].funding + OpenFunding(s)

\* The risk engine's drawdown gate (risk_engine.py) reads maximum_drawdown, which
\* open_position does not refresh: it lags the true drawdown by at most
\* the entry fee of the position just opened.
DrawdownLagsByEntryFee ==
  \A s \in Strategies :
    /\ account[s].peak_equity >= account[s].equity
    /\ account[s].maximum_drawdown + OpenEntryFee(s) >=
         account[s].peak_equity - account[s].equity

\* A step never takes money for a settlement twice and never for one that
\* happened before the position was opened, whatever order the provider
\* reports settlements in.
FundingOnce ==
  [][\A s \in Strategies :
       totals'[s].funding # totals[s].funding =>
         /\ IsOpen(s)
         /\ \E time \in 1..MaxTime :
              /\ time > position[s].opened_at
              /\ position'[s].charged \ position[s].charged = {time}]_vars
=============================================================================
