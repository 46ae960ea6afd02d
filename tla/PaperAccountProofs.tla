------------------------- MODULE PaperAccountProofs -------------------------
(***************************************************************************)
(* Proofs about PaperAccount: the account columns stay consistent with the *)
(* open positions and with the trade history for every set of strategies,  *)
(* prices, sizes, leverages and rates, not only for TLC's.                 *)
(***************************************************************************)
EXTENDS PaperAccount, TLAPS

\* A fee is a natural number.
LEMMA FeeType ==
  ASSUME NEW n \in Nat
  PROVE  Fee(n) \in Nat
BY AccountAssumption DEF Fee

\* The gain of a position at a price is an integer.
LEMMA GainType ==
  ASSUME NEW p \in Position, NEW price \in Prices
  PROVE  PriceGain(p, price) \in Int
BY AccountAssumption DEF PriceGain, Direction, Position

\* A funding charge is an integer of either sign.
LEMMA ChargeType ==
  ASSUME NEW p \in Position, NEW mark \in Prices, NEW rate \in FundingRates
  PROVE  FundingCharge(p, mark, rate) \in Int
BY AccountAssumption DEF FundingCharge, Direction, Position

\* The margin and the fee of an order are natural numbers.
LEMMA MarginType ==
  ASSUME NEW price \in Prices, NEW quantity \in Quantities,
         NEW leverage \in Leverages
  PROVE  (price * quantity) \div leverage \in Nat
BY AccountAssumption

\* A row whose parts are typed is an account row.
LEMMA RowType ==
  ASSUME NEW a \in Account, NEW cash \in Int, NEW margin \in Nat,
         NEW gain \in Int, NEW drawdown \in Nat
  PROVE  /\ Row(a, cash, margin, gain, drawdown) \in Account
         /\ Row(a, cash, margin, gain, drawdown).available_cash = cash
         /\ Row(a, cash, margin, gain, drawdown).used_margin = margin
         /\ Row(a, cash, margin, gain, drawdown).unrealized = gain
         /\ Row(a, cash, margin, gain, drawdown).equity = cash + margin + gain
         /\ Row(a, cash, margin, gain, drawdown).maximum_drawdown = drawdown
         /\ Row(a, cash, margin, gain, drawdown).peak_equity
              = Larger(a.peak_equity, cash + margin + gain)
BY DEF Row, Account, Larger

\* The drawdown never falls and bounds the distance from the raised peak.
LEMMA DrawdownType ==
  ASSUME NEW a \in Account, NEW equity \in Int
  PROVE  /\ Drawdown(a, equity) \in Nat
         /\ Drawdown(a, equity) >= Larger(a.peak_equity, equity) - equity
BY DEF Drawdown, Account, Larger

(***************************************************************************)
(* The invariant, strategy by strategy: no action makes the books of one   *)
(* strategy depend on another's.                                           *)
(***************************************************************************)
Books(s) ==
  /\ account[s].used_margin = OpenMargin(s)
  /\ account[s].unrealized = OpenGain(s)
  /\ account[s].equity = account[s].available_cash + account[s].used_margin
                           + account[s].unrealized
  /\ account[s].available_cash + account[s].used_margin =
       StartingCash + trades[s].gross + totals[s].funding
         - totals[s].trading_fees
  /\ totals[s].realized = trades[s].gross - trades[s].fees + trades[s].funding
  /\ totals[s].trading_fees = trades[s].fees + OpenEntryFee(s)
  /\ totals[s].funding = trades[s].funding + OpenFunding(s)
  /\ account[s].peak_equity >= account[s].equity
  /\ account[s].maximum_drawdown + OpenEntryFee(s) >=
       account[s].peak_equity - account[s].equity

Inv == TypeOK /\ \A s \in Strategies : Books(s)

\* The inductive invariant is the conjunction of the properties, per strategy.
LEMMA InvIsTheProperties ==
  Inv <=> /\ TypeOK
          /\ Reconciles
          /\ CashConserved
          /\ RealizedMatchesTrades
          /\ DrawdownLagsByEntryFee
BY DEF Inv, Books, Reconciles, CashConserved, RealizedMatchesTrades,
       DrawdownLagsByEntryFee

\* A new account holds its stake and nothing else.
LEMMA InvInit == Init => Inv
BY AccountAssumption
   DEF Init, Inv, TypeOK, Books, Account, Totals, Trades, IsOpen, OpenMargin,
       OpenEntryFee, OpenFunding, OpenGain

\* A transaction of one strategy leaves the books of the others as they were.
LEMMA OtherBooks ==
  ASSUME NEW t \in Strategies, Books(t),
         account'[t] = account[t], totals'[t] = totals[t],
         position'[t] = position[t], trades'[t] = trades[t]
  PROVE  Books(t)'
BY DEF Books, IsOpen, OpenMargin, OpenEntryFee, OpenFunding, OpenGain

\* What an open position adds to the books of its strategy.
LEMMA OpenValues ==
  ASSUME TypeOK, NEW s \in Strategies
  PROVE  /\ IsOpen(s) => /\ position[s] \in Position
                         /\ OpenMargin(s) = position[s].margin
                         /\ OpenEntryFee(s) = position[s].entry_fee
                         /\ OpenFunding(s) = position[s].funding
                         /\ OpenGain(s) = position[s].unrealized
         /\ ~IsOpen(s) => /\ OpenMargin(s) = 0
                          /\ OpenEntryFee(s) = 0
                          /\ OpenFunding(s) = 0
                          /\ OpenGain(s) = 0
BY DEF TypeOK, IsOpen, OpenMargin, OpenEntryFee, OpenFunding, OpenGain

\* Opening moves margin and fee out of cash and into the position.
LEMMA InvOpen ==
  ASSUME Inv, NEW s \in Strategies, NEW side \in Sides,
         NEW quantity \in Quantities, NEW price \in Prices,
         NEW leverage \in Leverages,
         OpenPosition(s, side, quantity, price, leverage)
  PROVE  Inv'
<1> DEFINE notional == price * quantity
           margin == notional \div leverage
           fee == Fee(notional)
           a == account[s]
           row == Row(a, a.available_cash - (margin + fee),
                      a.used_margin + margin, 0, a.maximum_drawdown)
           new == [side |-> side, quantity |-> quantity, entry_price |-> price,
                   margin |-> margin, entry_fee |-> fee, unrealized |-> 0,
                   opened_at |-> now, charged |-> {}, funding |-> 0]
<1>1. notional \in Nat
  BY AccountAssumption
<1>2. margin \in Nat
  BY MarginType
<1>3. fee \in Nat
  BY <1>1, FeeType
<1>4. /\ ~IsOpen(s)
      /\ account' = [account EXCEPT ![s] = row]
      /\ totals' = [totals EXCEPT ![s].trading_fees = @ + fee]
      /\ position' = [position EXCEPT ![s] = new]
      /\ UNCHANGED <<trades, now>>
  BY DEF OpenPosition
<1>5. new \in Position
  BY <1>2, <1>3, AccountAssumption DEF Position, Inv, TypeOK
<1>6. a \in Account
  BY DEF Inv, TypeOK
<1>7. /\ a.available_cash - (margin + fee) \in Int
      /\ a.used_margin + margin \in Nat
      /\ a.maximum_drawdown \in Nat
  BY <1>2, <1>3, <1>6 DEF Account
<1> HIDE DEF notional, margin, fee
<1>8. /\ row \in Account
      /\ row.available_cash = a.available_cash - (margin + fee)
      /\ row.used_margin = a.used_margin + margin
      /\ row.unrealized = 0
      /\ row.equity = row.available_cash + row.used_margin
      /\ row.maximum_drawdown = a.maximum_drawdown
      /\ row.peak_equity = Larger(a.peak_equity, row.equity)
  BY <1>6, <1>7, RowType DEF Account
<1> HIDE DEF row
<1>9. TypeOK'
  BY <1>3, <1>4, <1>5, <1>8 DEF Inv, TypeOK, Totals
<1>10. ASSUME NEW t \in Strategies, t # s
       PROVE  Books(t)'
  BY <1>4, <1>10, OtherBooks DEF Inv, TypeOK
<1>11. Books(s)'
  <2>1. /\ account'[s] = row
        /\ totals'[s].trading_fees = totals[s].trading_fees + fee
        /\ totals'[s].realized = totals[s].realized
        /\ totals'[s].funding = totals[s].funding
        /\ position'[s] = new
        /\ trades'[s] = trades[s]
    BY <1>3, <1>4 DEF Inv, TypeOK, Totals
  <2>2. /\ new.margin = margin
        /\ new.entry_fee = fee
        /\ new.unrealized = 0
        /\ new.funding = 0
        /\ new # None
    BY <1>5, NoneAssumption
  <2>3. /\ OpenMargin(s)' = margin
        /\ OpenEntryFee(s)' = fee
        /\ OpenGain(s)' = 0
        /\ OpenFunding(s)' = 0
    BY <2>1, <2>2 DEF IsOpen, OpenMargin, OpenEntryFee, OpenFunding, OpenGain
  <2>6. /\ OpenMargin(s) = 0
        /\ OpenEntryFee(s) = 0
        /\ OpenGain(s) = 0
        /\ OpenFunding(s) = 0
    BY <1>4, OpenValues DEF Inv
  <2> HIDE DEF new, a
  <2>4. totals[s] \in Totals /\ trades[s] \in Trades
    BY DEF Inv, TypeOK
  <2>5. Books(s) /\ a = account[s]
    BY DEF Inv, a
  <2> QED
    BY <1>2, <1>3, <1>4, <1>6, <1>8, <2>1, <2>3, <2>4, <2>5, <2>6,
       AccountAssumption
       DEF Books, Account, Totals, Trades, Larger
<1> QED
  BY <1>9, <1>10, <1>11 DEF Inv

\* What mark_positions and apply_observed_funding write to an account row.
RevaluedFrom(r, a, paid, gain) ==
  /\ r \in Account
  /\ r.available_cash = a.available_cash + paid
  /\ r.used_margin = a.used_margin
  /\ r.unrealized = gain
  /\ r.equity = r.available_cash + r.used_margin + gain
  /\ r.peak_equity >= r.equity
  /\ r.maximum_drawdown >= r.peak_equity - r.equity

\* The row mark_positions and apply_observed_funding write.
LEMMA RevaluedRow ==
  ASSUME TypeOK, NEW s \in Strategies, NEW paid \in Int, NEW gain \in Int
  PROVE  RevaluedFrom(Revalued(s, paid, gain), account[s], paid, gain)
<1> DEFINE a == account[s]
           cash == a.available_cash + paid
           equity == cash + a.used_margin + gain
<1>1. a \in Account
  BY DEF TypeOK
<1>2. cash \in Int /\ a.used_margin \in Nat /\ equity \in Int
  BY <1>1 DEF Account
<1>3. /\ Drawdown(a, equity) \in Nat
      /\ Drawdown(a, equity) >= Larger(a.peak_equity, equity) - equity
  BY <1>1, <1>2, DrawdownType
<1>4. Revalued(s, paid, gain)
        = Row(a, cash, a.used_margin, gain, Drawdown(a, equity))
  BY DEF Revalued
<1> HIDE DEF a, cash
<1>5. Larger(a.peak_equity, equity) >= equity
  BY <1>1, <1>2 DEF Account, Larger
<1> QED
  BY <1>1, <1>2, <1>3, <1>4, <1>5, RowType DEF a, cash, RevaluedFrom

\* Marking replaces the unrealized gain of every open position.
LEMMA InvMark ==
  ASSUME Inv, NEW mark \in Prices, MarkPositions(mark)
  PROVE  Inv'
<1> DEFINE gain(t) == PriceGain(position[t], mark)
<1>1. TypeOK
  BY DEF Inv
<1>2. ASSUME NEW t \in Strategies, IsOpen(t)
      PROVE  /\ gain(t) \in Int
             /\ position[t] \in Position
             /\ RevaluedFrom(account'[t], account[t], 0, gain(t))
             /\ position'[t] = [position[t] EXCEPT !.unrealized = gain(t)]
             /\ position'[t] \in Position
  <2>1. position[t] \in Position
    BY <1>1, <1>2, OpenValues
  <2>2. gain(t) \in Int
    BY <2>1, GainType
  <2>3. [position[t] EXCEPT !.unrealized = gain(t)] \in Position
    BY <2>1, <2>2 DEF Position
  <2>4. account'[t] = Revalued(t, 0, gain(t))
    BY <1>2 DEF MarkPositions
  <2>5. RevaluedFrom(Revalued(t, 0, gain(t)), account[t], 0, gain(t))
    BY <1>1, <2>2, RevaluedRow
  <2> QED
    BY <1>2, <2>1, <2>2, <2>3, <2>4, <2>5 DEF MarkPositions
<1>3. ASSUME NEW t \in Strategies, ~IsOpen(t)
      PROVE  account'[t] = account[t] /\ position'[t] = position[t]
  BY <1>3 DEF MarkPositions, IsOpen
<1> HIDE DEF gain
<1>4. /\ totals' = totals /\ trades' = trades /\ now' = now
      /\ DOMAIN account' = Strategies /\ DOMAIN position' = Strategies
      /\ account' = [t \in Strategies |-> account'[t]]
      /\ position' = [t \in Strategies |-> position'[t]]
  BY DEF MarkPositions
<1>5. TypeOK'
  <2>1. ASSUME NEW t \in Strategies
        PROVE  account'[t] \in Account /\ position'[t] \in Position \cup {None}
    <3>1. CASE IsOpen(t)
      BY <1>2, <3>1 DEF RevaluedFrom
    <3>2. CASE ~IsOpen(t)
      BY <1>1, <1>3, <3>2 DEF TypeOK
    <3> QED
      BY <3>1, <3>2
  <2> QED
    BY <1>1, <1>4, <2>1 DEF TypeOK
<1>6. ASSUME NEW t \in Strategies
      PROVE  Books(t)'
  <2>1. Books(t) /\ account[t] \in Account /\ totals[t] \in Totals
        /\ trades[t] \in Trades
    BY <1>1 DEF Inv, TypeOK
  <2>2. CASE ~IsOpen(t)
    BY <1>3, <1>4, <2>1, <2>2, OtherBooks
  <2>3. CASE IsOpen(t)
    <3>1. /\ position'[t].margin = position[t].margin
          /\ position'[t].entry_fee = position[t].entry_fee
          /\ position'[t].funding = position[t].funding
          /\ position'[t].unrealized = gain(t)
      BY <1>2, <2>3 DEF Position
    <3>2. /\ OpenMargin(t)' = OpenMargin(t)
          /\ OpenEntryFee(t)' = OpenEntryFee(t)
          /\ OpenFunding(t)' = OpenFunding(t)
          /\ OpenGain(t)' = gain(t)
      <4>1. IsOpen(t)'
        BY <1>2, <2>3, NoneAssumption DEF IsOpen
      <4> QED
        BY <2>3, <3>1, <4>1 DEF OpenMargin, OpenEntryFee, OpenFunding, OpenGain
    <3>3. OpenEntryFee(t) \in Nat
      BY <1>1, <2>3, OpenValues DEF Position
    <3> QED
      BY <1>2, <1>4, <2>1, <2>3, <3>2, <3>3, AccountAssumption
         DEF Books, Account, Totals, Trades, RevaluedFrom
  <2> QED
    BY <2>2, <2>3
<1> QED
  BY <1>5, <1>6 DEF Inv

\* A settlement adds the same charge to cash, totals and the position.
LEMMA InvFunding ==
  ASSUME Inv, NEW time \in 1..MaxTime, NEW rate \in FundingRates,
         NEW mark \in Prices, ApplyFunding(time, rate, mark)
  PROVE  Inv'
<1> DEFINE charge(t) == FundingCharge(position[t], mark, rate)
<1>1. TypeOK
  BY DEF Inv
<1>2. ASSUME NEW t \in Strategies, Owes(t, time)
      PROVE  /\ charge(t) \in Int
             /\ position[t] \in Position
             /\ RevaluedFrom(account'[t], account[t], charge(t),
                             account[t].unrealized)
             /\ position'[t] \in Position
             /\ totals'[t] \in Totals
             /\ totals'[t].funding = totals[t].funding + charge(t)
             /\ totals'[t].realized = totals[t].realized
             /\ totals'[t].trading_fees = totals[t].trading_fees
             /\ position'[t].margin = position[t].margin
             /\ position'[t].entry_fee = position[t].entry_fee
             /\ position'[t].unrealized = position[t].unrealized
             /\ position'[t].funding = position[t].funding + charge(t)
  <2>1. position[t] \in Position
    BY <1>1, <1>2, OpenValues DEF Owes
  <2>2. charge(t) \in Int
    BY <2>1, ChargeType
  <2> HIDE DEF charge
  <2>3. /\ Charged(position[t], time, charge(t)) \in Position
        /\ Charged(position[t], time, charge(t)).margin = position[t].margin
        /\ Charged(position[t], time, charge(t)).entry_fee
             = position[t].entry_fee
        /\ Charged(position[t], time, charge(t)).unrealized
             = position[t].unrealized
        /\ Charged(position[t], time, charge(t)).funding
             = position[t].funding + charge(t)
    BY <2>1, <2>2, AccountAssumption DEF Charged, Position
  <2>4. account[t].unrealized \in Int
    BY <1>1 DEF TypeOK, Account
  <2>5. RevaluedFrom(Revalued(t, charge(t), account[t].unrealized), account[t],
                     charge(t), account[t].unrealized)
    BY <1>1, <2>2, <2>4, RevaluedRow
  <2>6. account'[t] = Revalued(t, charge(t), account[t].unrealized)
    BY <1>2 DEF ApplyFunding, charge
  <2>7. position'[t] = Charged(position[t], time, charge(t))
    BY <1>2 DEF ApplyFunding, charge
  <2>8. totals'[t] = [totals[t] EXCEPT !.funding = @ + charge(t)]
    BY <1>2 DEF ApplyFunding, charge
  <2>9. totals[t] \in Totals
    BY <1>1 DEF TypeOK
  <2>10. /\ totals'[t] \in Totals
         /\ totals'[t].funding = totals[t].funding + charge(t)
         /\ totals'[t].realized = totals[t].realized
         /\ totals'[t].trading_fees = totals[t].trading_fees
    BY <2>2, <2>8, <2>9 DEF Totals
  <2> QED
    BY <2>1, <2>2, <2>3, <2>5, <2>6, <2>7, <2>10
<1>3. ASSUME NEW t \in Strategies, ~Owes(t, time)
      PROVE  /\ account'[t] = account[t]
             /\ position'[t] = position[t]
             /\ totals'[t] = totals[t]
  BY <1>3 DEF ApplyFunding
<1> HIDE DEF charge
<1>4. /\ trades' = trades /\ now' = now
      /\ account' = [t \in Strategies |-> account'[t]]
      /\ totals' = [t \in Strategies |-> totals'[t]]
      /\ position' = [t \in Strategies |-> position'[t]]
  BY DEF ApplyFunding
<1>5. TypeOK'
  <2>1. ASSUME NEW t \in Strategies
        PROVE  /\ account'[t] \in Account
               /\ position'[t] \in Position \cup {None}
               /\ totals'[t] \in Totals
    <3>2. CASE Owes(t, time)
      BY <1>2, <3>2 DEF RevaluedFrom
    <3>3. CASE ~Owes(t, time)
      BY <1>1, <1>3, <3>3 DEF TypeOK
    <3> QED
      BY <3>2, <3>3
  <2> QED
    BY <1>1, <1>4, <2>1 DEF TypeOK
<1>6. ASSUME NEW t \in Strategies
      PROVE  Books(t)'
  <2>1. Books(t) /\ account[t] \in Account /\ totals[t] \in Totals
        /\ trades[t] \in Trades
    BY <1>1 DEF Inv, TypeOK
  <2>2. CASE ~Owes(t, time)
    BY <1>3, <1>4, <2>1, <2>2, OtherBooks
  <2>3. CASE Owes(t, time)
    <3>2. IsOpen(t) /\ IsOpen(t)'
      BY <1>2, <2>3, NoneAssumption DEF IsOpen, Owes
    <3>3. /\ OpenMargin(t)' = OpenMargin(t)
          /\ OpenEntryFee(t)' = OpenEntryFee(t)
          /\ OpenGain(t)' = OpenGain(t)
          /\ OpenFunding(t)' = OpenFunding(t) + charge(t)
      BY <1>2, <2>3, <3>2 DEF OpenMargin, OpenEntryFee, OpenFunding, OpenGain
    <3>4. OpenEntryFee(t) \in Nat /\ OpenFunding(t) \in Int
      BY <1>1, <3>2, OpenValues DEF Position
    <3>5. /\ RevaluedFrom(account'[t], account[t], charge(t),
                          account[t].unrealized)
          /\ charge(t) \in Int
          /\ trades'[t] = trades[t]
          /\ totals'[t].funding = totals[t].funding + charge(t)
          /\ totals'[t].realized = totals[t].realized
          /\ totals'[t].trading_fees = totals[t].trading_fees
      BY <1>2, <1>4, <2>3
    <3>6. /\ account'[t].used_margin = OpenMargin(t)'
          /\ account'[t].unrealized = OpenGain(t)'
          /\ account'[t].equity = account'[t].available_cash
               + account'[t].used_margin + account'[t].unrealized
      BY <2>1, <3>3, <3>5 DEF Books, RevaluedFrom
    <3>7. account'[t].available_cash + account'[t].used_margin =
            StartingCash + trades'[t].gross + totals'[t].funding
              - totals'[t].trading_fees
      BY <2>1, <3>5, AccountAssumption
         DEF Books, RevaluedFrom, Account, Totals, Trades
    <3>8. /\ totals'[t].realized
               = trades'[t].gross - trades'[t].fees + trades'[t].funding
          /\ totals'[t].trading_fees = trades'[t].fees + OpenEntryFee(t)'
          /\ totals'[t].funding = trades'[t].funding + OpenFunding(t)'
      BY <2>1, <3>3, <3>4, <3>5 DEF Books, Totals, Trades
    <3>9. /\ account'[t].peak_equity >= account'[t].equity
          /\ account'[t].maximum_drawdown + OpenEntryFee(t)' >=
               account'[t].peak_equity - account'[t].equity
      BY <3>3, <3>4, <3>5 DEF RevaluedFrom, Account
    <3> QED
      BY <3>6, <3>7, <3>8, <3>9 DEF Books
  <2> QED
    BY <2>2, <2>3
<1> QED
  BY <1>5, <1>6 DEF Inv

\* Closing returns the margin and books the trade once.
LEMMA InvClose ==
  ASSUME Inv, NEW s \in Strategies, NEW price \in Prices,
         ClosePosition(s, price)
  PROVE  Inv'
<1> DEFINE p == position[s]
           a == account[s]
           gross == PriceGain(p, price)
           fee == Fee(price * p.quantity)
           cash == CashAfterClose(a, p, gross, fee)
           margin == MarginAfterClose(a, p)
           drawdown == Drawdown(a, cash + margin)
           row == Row(a, cash, margin, 0, drawdown)
           net == NetOfClose(p, gross, fee)
           paid == p.entry_fee + fee
<1>1. /\ IsOpen(s)
      /\ account' = [account EXCEPT ![s] = row]
      /\ totals' = [totals EXCEPT ![s].realized = @ + net,
                                  ![s].trading_fees = @ + fee,
                                  ![s].closed_trade_count = @ + 1]
      /\ position' = [position EXCEPT ![s] = None]
      /\ trades' = [trades EXCEPT ![s] =
                      [gross |-> @.gross + gross, fees |-> @.fees + paid,
                       funding |-> @.funding + p.funding]]
      /\ now' = now
  BY DEF ClosePosition
<1>2. /\ TypeOK /\ Books(s)
      /\ a \in Account /\ totals[s] \in Totals /\ trades[s] \in Trades
  BY DEF Inv, TypeOK
<1>3. /\ p \in Position
      /\ OpenMargin(s) = p.margin
      /\ OpenEntryFee(s) = p.entry_fee
      /\ OpenFunding(s) = p.funding
  BY <1>1, <1>2, OpenValues
<1>4. gross \in Int
  BY <1>3, GainType
<1>5. fee \in Nat
  <2>1. price * p.quantity \in Nat
    BY <1>3, AccountAssumption DEF Position
  <2> QED
    BY <2>1, FeeType
<1> HIDE DEF gross, fee, p, a
<1>6. margin = 0
  BY <1>2, <1>3 DEF MarginAfterClose, Books, Position, Larger, a
<1>7. /\ cash \in Int
      /\ cash = a.available_cash + p.margin + gross - fee
      /\ net = gross - p.entry_fee - fee + p.funding
      /\ net \in Int
  BY <1>2, <1>3, <1>4, <1>5 DEF CashAfterClose, NetOfClose, Account, Position
<1> HIDE DEF cash, margin, net
<1>8. /\ drawdown \in Nat
      /\ drawdown >= Larger(a.peak_equity, cash) - cash
  BY <1>2, <1>6, <1>7, DrawdownType
<1> HIDE DEF drawdown
<1>9. /\ row \in Account
      /\ row.available_cash = cash
      /\ row.used_margin = 0
      /\ row.unrealized = 0
      /\ row.equity = cash
      /\ row.maximum_drawdown = drawdown
      /\ row.peak_equity = Larger(a.peak_equity, cash)
  BY <1>2, <1>6, <1>7, <1>8, RowType
<1> HIDE DEF row
<1>10. TypeOK'
  <2>1. account' \in [Strategies -> Account]
    BY <1>1, <1>2, <1>9 DEF TypeOK
  <2>2. totals' \in [Strategies -> Totals]
    BY <1>1, <1>2, <1>5, <1>7 DEF TypeOK, Totals
  <2>3. trades' \in [Strategies -> Trades]
    <3>1. /\ trades \in [Strategies -> Trades]
          /\ paid \in Int /\ p.funding \in Int
      BY <1>2, <1>3, <1>5 DEF TypeOK, Position
    <3> HIDE DEF paid
    <3> QED
      BY <1>1, <1>4, <1>5, <3>1 DEF Trades
  <2>4. position' \in [Strategies -> Position \cup {None}]
    BY <1>1, <1>2 DEF TypeOK
  <2> QED
    BY <1>1, <1>2, <2>1, <2>2, <2>3, <2>4 DEF TypeOK
<1>11. Books(s)'
  <2>1. /\ account'[s] = row
        /\ totals'[s].realized = totals[s].realized + net
        /\ totals'[s].trading_fees = totals[s].trading_fees + fee
        /\ totals'[s].funding = totals[s].funding
        /\ trades'[s].gross = trades[s].gross + gross
        /\ trades'[s].fees = trades[s].fees + paid
        /\ trades'[s].funding = trades[s].funding + p.funding
        /\ ~IsOpen(s)'
    BY <1>1, <1>2 DEF TypeOK, Totals, Trades, IsOpen
  <2>2. /\ OpenMargin(s)' = 0
        /\ OpenEntryFee(s)' = 0
        /\ OpenGain(s)' = 0
        /\ OpenFunding(s)' = 0
    BY <2>1 DEF OpenMargin, OpenEntryFee, OpenGain, OpenFunding
  <2>3. a = account[s]
    BY DEF a
  <2>4. Larger(a.peak_equity, cash) >= cash /\ Larger(a.peak_equity, cash) \in Int
    BY <1>2, <1>7 DEF Account, Larger
  <2>5. /\ a.available_cash + p.margin = StartingCash + trades[s].gross
             + totals[s].funding - totals[s].trading_fees
        /\ totals[s].realized
             = trades[s].gross - trades[s].fees + trades[s].funding
        /\ totals[s].trading_fees = trades[s].fees + p.entry_fee
        /\ totals[s].funding = trades[s].funding + p.funding
    BY <1>2, <1>3, <2>3 DEF Books
  <2>6. /\ a.available_cash \in Int /\ StartingCash \in Int
        /\ p.margin \in Int /\ p.entry_fee \in Int /\ p.funding \in Int
        /\ totals[s].realized \in Int /\ totals[s].trading_fees \in Int
        /\ totals[s].funding \in Int /\ trades[s].gross \in Int
        /\ trades[s].fees \in Int /\ trades[s].funding \in Int
    BY <1>2, <1>3, AccountAssumption DEF Account, Totals, Trades, Position
  <2>7. /\ cash = StartingCash + trades[s].gross + gross + totals[s].funding
                     - (totals[s].trading_fees + fee)
        /\ totals[s].realized + net = trades[s].gross + gross
             - (trades[s].fees + paid)
             + (trades[s].funding + p.funding)
        /\ totals[s].trading_fees + fee = trades[s].fees + paid
    <3>1. cash = StartingCash + trades[s].gross + gross + totals[s].funding
                   - (totals[s].trading_fees + fee)
      BY <1>4, <1>5, <1>7, <2>5, <2>6
    <3>2. totals[s].realized + net = trades[s].gross + gross
            - (trades[s].fees + paid) + (trades[s].funding + p.funding)
      BY <1>4, <1>5, <1>7, <2>5, <2>6
    <3>3. totals[s].trading_fees + fee = trades[s].fees + paid
      BY <1>4, <1>5, <2>5, <2>6
    <3> QED
      BY <3>1, <3>2, <3>3
  <2>8. /\ account'[s].used_margin = OpenMargin(s)'
        /\ account'[s].unrealized = OpenGain(s)'
        /\ account'[s].equity = account'[s].available_cash
             + account'[s].used_margin + account'[s].unrealized
    BY <1>7, <1>9, <2>1, <2>2
  <2>9. account'[s].available_cash + account'[s].used_margin =
          StartingCash + trades'[s].gross + totals'[s].funding
            - totals'[s].trading_fees
    BY <1>4, <1>5, <1>7, <1>9, <2>1, <2>6, <2>7
  <2>10. /\ totals'[s].realized
              = trades'[s].gross - trades'[s].fees + trades'[s].funding
         /\ totals'[s].trading_fees = trades'[s].fees + OpenEntryFee(s)'
         /\ totals'[s].funding = trades'[s].funding + OpenFunding(s)'
    BY <1>3, <1>4, <1>5, <1>7, <2>1, <2>2, <2>5, <2>6, <2>7
  <2>11. /\ account'[s].peak_equity >= account'[s].equity
         /\ account'[s].maximum_drawdown + OpenEntryFee(s)' >=
              account'[s].peak_equity - account'[s].equity
    BY <1>7, <1>8, <1>9, <2>1, <2>2, <2>4
  <2> QED
    BY <2>8, <2>9, <2>10, <2>11 DEF Books
<1>12. ASSUME NEW t \in Strategies, t # s
       PROVE  Books(t)'
  BY <1>1, <1>2, <1>12, OtherBooks DEF Inv, TypeOK
<1> QED
  BY <1>10, <1>11, <1>12 DEF Inv

\* A step that leaves the books alone.
LEMMA InvUnchanged ==
  ASSUME Inv, UNCHANGED <<account, totals, position, trades>>, now' \in Nat
  PROVE  Inv'
BY DEF Inv, TypeOK, Books, IsOpen, OpenMargin, OpenEntryFee, OpenFunding,
       OpenGain

\* Every transaction keeps the books in order.
LEMMA InvNext == Inv /\ [Next]_vars => Inv'
<1> SUFFICES ASSUME Inv, [Next]_vars
             PROVE  Inv'
  OBVIOUS
<1>1. CASE Advance
  BY <1>1, InvUnchanged DEF Advance, Inv, TypeOK
<1>2. ASSUME NEW s \in Strategies, NEW side \in Sides, NEW q \in Quantities,
             NEW price \in Prices, NEW leverage \in Leverages,
             OpenPosition(s, side, q, price, leverage)
      PROVE  Inv'
  BY <1>2, InvOpen
<1>3. ASSUME NEW mark \in Prices, MarkPositions(mark)
      PROVE  Inv'
  BY <1>3, InvMark
<1>4. ASSUME NEW time \in 1..MaxTime, NEW rate \in FundingRates,
             NEW mark \in Prices, ApplyFunding(time, rate, mark)
      PROVE  Inv'
  BY <1>4, InvFunding
<1>5. ASSUME NEW s \in Strategies, NEW price \in Prices, ClosePosition(s, price)
      PROVE  Inv'
  BY <1>5, InvClose
<1>6. CASE UNCHANGED vars
  BY <1>6, InvUnchanged DEF vars, Inv, TypeOK
<1> QED
  BY <1>1, <1>2, <1>3, <1>4, <1>5, <1>6 DEF Next

\* The books are in order in every committed state.
LEMMA Invariance == Spec => []Inv
<1>1. Init => Inv
  BY InvInit
<1>2. Inv /\ [Next]_vars => Inv'
  BY InvNext
<1> QED
  BY <1>1, <1>2, PTL DEF Spec

\* The rows always have the shape the code reads them with; margins, fees and
\* drawdowns are never negative (persistence.py:1010 raises on that).
THEOREM TypeCorrect == Spec => []TypeOK
BY Invariance, InvIsTheProperties, PTL

\* A restart always passes reconcile_or_raise, whichever transaction was the
\* last to commit.
THEOREM RestartReconciles == Spec => []Reconciles
BY Invariance, InvIsTheProperties, PTL

\* Cash and margin always add up to the stake, the gross of the closed trades
\* and the funding, less the fees.
THEOREM CashIsConserved == Spec => []CashConserved
BY Invariance, InvIsTheProperties, PTL

\* The realized column is the net of the closed trades, and the fee and funding
\* columns are those of the closed trades plus the open position's.
THEOREM RealizedIsTrades == Spec => []RealizedMatchesTrades
BY Invariance, InvIsTheProperties, PTL

\* The recorded drawdown is never behind the true one by more than the entry
\* fee of the open position.
THEOREM DrawdownLag == Spec => []DrawdownLagsByEntryFee
BY Invariance, InvIsTheProperties, PTL

\* The funding column moves only when a settlement later than the opening is
\* charged to an open position for the first time.
PaidOnce(s) ==
  totals'[s].funding # totals[s].funding =>
    /\ IsOpen(s)
    /\ \E time \in 1..MaxTime :
         /\ time > position[s].opened_at
         /\ position'[s].charged \ position[s].charged = {time}

\* A step that moves a strategy's funding total charges one new settlement.
LEMMA FundingStep == Inv /\ [Next]_vars => \A s \in Strategies : PaidOnce(s)
<1> SUFFICES ASSUME Inv, [Next]_vars, NEW s \in Strategies,
                    totals'[s].funding # totals[s].funding
             PROVE  /\ IsOpen(s)
                    /\ \E time \in 1..MaxTime :
                         /\ time > position[s].opened_at
                         /\ position'[s].charged \ position[s].charged = {time}
  BY DEF PaidOnce
<1>1. TypeOK /\ totals[s] \in Totals
  BY DEF Inv, TypeOK
<1>2. totals' # totals
  OBVIOUS
<1>3. ASSUME NEW z \in Strategies, NEW side \in Sides, NEW q \in Quantities,
             NEW price \in Prices, NEW leverage \in Leverages,
             OpenPosition(z, side, q, price, leverage)
      PROVE  FALSE
  <2>1. totals' = [totals EXCEPT ![z].trading_fees = @ + Fee(price * q)]
    BY <1>3 DEF OpenPosition
  <2> QED
    BY <1>1, <2>1 DEF TypeOK, Totals
<1>4. ASSUME NEW z \in Strategies, NEW price \in Prices, ClosePosition(z, price)
      PROVE  FALSE
  <2>1. PICK net, fee :
          totals' = [totals EXCEPT ![z].realized = @ + net,
                                   ![z].trading_fees = @ + fee,
                                   ![z].closed_trade_count = @ + 1]
    BY <1>4 DEF ClosePosition
  <2> QED
    BY <1>1, <2>1 DEF TypeOK, Totals
<1>5. ASSUME NEW time \in 1..MaxTime, NEW rate \in FundingRates,
             NEW mark \in Prices, ApplyFunding(time, rate, mark)
      PROVE  /\ IsOpen(s)
             /\ time > position[s].opened_at
             /\ position'[s].charged \ position[s].charged = {time}
  <2>1. Owes(s, time)
    BY <1>5 DEF ApplyFunding
  <2>2. /\ IsOpen(s)
        /\ position[s] \in Position
        /\ position[s].opened_at < time
        /\ time \notin position[s].charged
    BY <1>1, <2>1, OpenValues DEF Owes
  <2>3. position'[s].charged = position[s].charged \cup {time}
    BY <1>5, <2>1 DEF ApplyFunding, Charged
  <2> QED
    BY <2>2, <2>3, AccountAssumption DEF Position
<1>6. \E time \in 1..MaxTime, rate \in FundingRates, mark \in Prices :
        ApplyFunding(time, rate, mark)
  BY <1>2, <1>3, <1>4 DEF Next, Advance, MarkPositions, vars
<1> QED
  BY <1>5, <1>6

\* No step charges a position a settlement twice, or one that is not later than
\* its opening (apply_observed_funding).
THEOREM FundingIsPaidOnce == Spec => FundingOnce
<1>1. Inv /\ [Next]_vars =>
        [\A s \in Strategies : PaidOnce(s)]_vars
  BY FundingStep
<1>2. FundingOnce <=> [][\A s \in Strategies : PaidOnce(s)]_vars
  BY DEF FundingOnce, PaidOnce
<1> QED
  BY <1>1, <1>2, Invariance, PTL DEF Spec
=============================================================================
