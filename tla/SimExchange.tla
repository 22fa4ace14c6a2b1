----------------------------- MODULE SimExchange -----------------------------
(***************************************************************************)
(* The simulated exchange of pkg/exchange/sim: an account that fills every *)
(* order at once, at its limit price, and refuses a fill that leaves less  *)
(* equity than margin.  Money and prices are whole ticks, fine enough that *)
(* the averages, fees and slippage of an instance are exact.  Everything   *)
(* but IOCMarket holds the mutex from end to end; IOCMarket prices its     *)
(* order, lets the mutex go and comes back through PlaceOrder.             *)
(***************************************************************************)
EXTENDS Integers, FiniteSetsExt, Functions

CONSTANTS Markets,       \* canonical coin names
          Sizes,         \* order sizes
          Ticks,         \* prices orders and marks are given at
          InitialCash,   \* defaultInitialEquity
          FallbackPx,    \* defaultFallbackPrice
          FeeDen,        \* the taker fee is 1/FeeDen of the notional
          SlipDen,       \* the market slippage is 1/SlipDen of the mark
          Levers,        \* leverage settings
          NoOrder,       \* no IOC order under way
          MaxOrders      \* bound on orders

ASSUME SimAssumption ==
  /\ IsFiniteSet(Markets) /\ InitialCash \in Nat
  /\ FallbackPx \in Nat \ {0} /\ FeeDen \in Nat \ {0}
  /\ SlipDen \in Nat \ {0} /\ MaxOrders \in Nat /\ Sizes \subseteq Nat \ {0}
  /\ Ticks \subseteq Nat \ {0} /\ Levers \subseteq Nat \ {0}

VARIABLES acct,   \* [cash, pos, mark, asset, lever]: the provider's fields
          ioc,    \* the IOC order that was priced and is not placed yet
          orders, \* orders so far
          told    \* the sum of size times price of the fills answered

simVars == <<acct, ioc, orders, told>>

AbsInt(n) == IF n < 0 THEN -n ELSE n

Flat == [qty |-> 0, entry |-> 0]

NewAccount ==
  [cash |-> InitialCash, fees |-> 0, pos |-> [c \in Markets |-> Flat], mark |-> [c \in Markets |-> 0],
   asset |-> [c \in Markets |-> 0], lever |-> [i \in 1..Cardinality(Markets) |-> 0]]

(* GetAssetIndex numbers the coins in the order they are first asked for.  *)
Listed(a, c) ==
  IF a.asset[c] # 0 THEN a
  ELSE [a EXCEPT !.asset[c] = 1 + Cardinality({d \in Markets : a.asset[d] # 0})]

resolveMarkPrice(a, c) ==
  CASE a.mark[c] > 0 -> a.mark[c]
    [] a.mark[c] = 0 /\ a.pos[c].entry > 0 -> a.pos[c].entry
    [] OTHER -> FallbackPx

(* Leverage is kept per asset number, also for one not handed out yet.     *)
leverageForCoin(a, c) ==
  IF a.asset[c] # 0 /\ a.lever[a.asset[c]] # 0 THEN a.lever[a.asset[c]] ELSE 1

MarginOf(a, c) == (AbsInt(a.pos[c].qty) * resolveMarkPrice(a, c)) \div leverageForCoin(a, c)

Margin(a) == SumFunction([c \in Markets |-> MarginOf(a, c)])

Unrealized(a, c) == a.pos[c].qty * (resolveMarkPrice(a, c) - a.pos[c].entry)

Equity(a) == a.cash + SumFunction([c \in Markets |-> Unrealized(a, c)])

applySlippage(price, buy) == IF buy THEN price + (price \div SlipDen) ELSE price - (price \div SlipDen)

(* The entry price after a fill of d: the average when the position grows, *)
(* the fill's price when it is new or changes its side.                    *)
NextEntry(p, d, price) ==
  CASE p.qty + d = 0 -> 0
    [] p.qty + d # 0 /\ p.qty * d > 0 -> (AbsInt(p.qty) * p.entry + AbsInt(d) * price) \div AbsInt(p.qty + d)
    [] p.qty + d # 0 /\ (p.qty = 0 \/ p.qty * (p.qty + d) < 0) -> price
    [] OTHER -> p.entry

Realized(p, d, price) ==
  IF p.qty * d >= 0 THEN 0
  ELSE Min({AbsInt(p.qty), AbsInt(d)}) * (price - p.entry) * (IF p.qty < 0 THEN -1 ELSE 1)

(* The signed size that is filled: a reduce-only order is cut to the       *)
(* position, and fills nothing without one.                                *)
FillSize(p, o) ==
  LET sz == IF o.reduce THEN Min({o.size, AbsInt(p.qty)}) ELSE o.size
  IN  IF o.buy THEN sz ELSE -sz

WouldIncrease(p, o) == o.reduce /\ p.qty * (IF o.buy THEN 1 ELSE -1) > 0

(* The account with the fill booked; the mark is still the old one.        *)
Filled(a, c, o, d) ==
  LET p == a.pos[c]
      fee == (AbsInt(d) * o.price) \div FeeDen
  IN  [a EXCEPT !.pos[c] = [qty |-> p.qty + d, entry |-> NextEntry(p, d, o.price)],
                !.cash = @ + Realized(p, d, o.price) - fee,
                !.fees = @ + fee]

(* Mutant of executeOrder: only the cash is put back after a refused fill. *)
executeOrderHalfBack(a, c, o) ==
  LET d == FillSize(a.pos[c], o)
      b == Filled(a, c, o, d)
  IN  CASE WouldIncrease(a.pos[c], o) -> [acct |-> a, ok |-> FALSE, filled |-> 0]
        [] ~WouldIncrease(a.pos[c], o) /\ d = 0 -> [acct |-> a, ok |-> TRUE, filled |-> 0]
        [] OTHER -> IF Margin(b) > Equity(b) THEN [acct |-> [a EXCEPT !.pos = b.pos], ok |-> FALSE, filled |-> 0]
                    ELSE [acct |-> [b EXCEPT !.mark[c] = o.price], ok |-> TRUE, filled |-> d]

(* Mutant of executeOrder: the margin asked for is that of the account as  *)
(* it was before the fill.                                                 *)
executeOrderOldMargin(a, c, o) ==
  LET d == FillSize(a.pos[c], o)
      b == Filled(a, c, o, d)
  IN  CASE WouldIncrease(a.pos[c], o) -> [acct |-> a, ok |-> FALSE, filled |-> 0]
        [] ~WouldIncrease(a.pos[c], o) /\ d = 0 -> [acct |-> a, ok |-> TRUE, filled |-> 0]
        [] OTHER -> IF Margin(a) > Equity(b) THEN [acct |-> a, ok |-> FALSE, filled |-> 0]
                    ELSE [acct |-> [b EXCEPT !.mark[c] = o.price], ok |-> TRUE, filled |-> d]

(* executeOrderLocked and the new mark its callers set: the fill is booked *)
(* first, checked with the account it leaves, and taken back as a whole.   *)
executeOrder(a, c, o) ==
  LET d == FillSize(a.pos[c], o)
      b == Filled(a, c, o, d)
  IN  CASE WouldIncrease(a.pos[c], o) -> [acct |-> a, ok |-> FALSE, filled |-> 0]
        [] ~WouldIncrease(a.pos[c], o) /\ d = 0 -> [acct |-> a, ok |-> TRUE, filled |-> 0]
        [] OTHER -> IF Margin(b) > Equity(b) THEN [acct |-> a, ok |-> FALSE, filled |-> 0]
                    ELSE [acct |-> [b EXCEPT !.mark[c] = o.price], ok |-> TRUE, filled |-> d]

(* The order ClosePosition makes of a position that is there.              *)
ClosingOrder(a, c) ==
  LET buy == a.pos[c].qty < 0
  IN  [buy |-> buy, reduce |-> TRUE, size |-> AbsInt(a.pos[c].qty), price |-> applySlippage(resolveMarkPrice(a, c), buy)]

SimInit == acct = NewAccount /\ ioc = NoOrder /\ orders = 0 /\ told = 0

Answered(r, o) == acct' = r.acct /\ told' = told + r.filled * o.price

GetAssetIndex(c) ==
  /\ acct.asset[c] = 0
  /\ acct' = Listed(acct, c)
  /\ UNCHANGED <<ioc, orders, told>>

SetMarkPrice(c, price) ==
  /\ acct.mark[c] # price
  /\ acct' = [acct EXCEPT !.mark[c] = price]
  /\ UNCHANGED <<ioc, orders, told>>

UpdateLeverage(i, leverage) ==
  /\ acct.lever[i] # leverage
  /\ acct' = [acct EXCEPT !.lever[i] = leverage]
  /\ UNCHANGED <<ioc, orders, told>>

(* PlaceOrder finds the coin by its number: an unlisted coin is an error.  *)
PlaceOrder(c, o) ==
  /\ orders < MaxOrders /\ acct.asset[c] # 0
  /\ orders' = orders + 1
  /\ Answered(executeOrder(acct, c, o), o)
  /\ UNCHANGED ioc

(* IOCMarket prices the order under the mutex and releases it ...          *)
IOCMarket(c, buy, size, reduce) ==
  /\ orders < MaxOrders /\ ioc = NoOrder
  /\ orders' = orders + 1
  /\ ioc' = [coin |-> c, buy |-> buy, reduce |-> reduce, size |-> size,
             price |-> applySlippage(resolveMarkPrice(acct, c), buy)]
  /\ UNCHANGED <<acct, told>>

(* ... then lists the coin and places the order at that price.             *)
IOCPlaced ==
  /\ ioc # NoOrder
  /\ Answered(executeOrder(Listed(acct, ioc.coin), ioc.coin, ioc), ioc)
  /\ ioc' = NoOrder
  /\ UNCHANGED orders

ClosePosition(c) ==
  /\ orders < MaxOrders /\ acct.pos[c].qty # 0
  /\ orders' = orders + 1
  /\ Answered(executeOrder(acct, c, ClosingOrder(acct, c)), ClosingOrder(acct, c))
  /\ UNCHANGED ioc

SimNext ==
  \/ \E c \in Markets : GetAssetIndex(c) \/ ClosePosition(c)
  \/ \E c \in Markets, px \in Ticks : SetMarkPrice(c, px)
  \/ \E i \in 1..Cardinality(Markets), v \in Levers : UpdateLeverage(i, v)
  \/ \E c \in Markets, buy, reduce \in BOOLEAN, sz \in Sizes, px \in Ticks :
       PlaceOrder(c, [buy |-> buy, reduce |-> reduce, size |-> sz, price |-> px])
  \/ \E c \in Markets, buy, reduce \in BOOLEAN, sz \in Sizes : IOCMarket(c, buy, sz, reduce)
  \/ IOCPlaced

SimSpec == SimInit /\ [][SimNext]_simVars

----------------------------------------------------------------------------
(* The fills the clients were told of explain the account: cash and fees   *)
(* less what the open positions cost is what was there at first less the   *)
(* value that was bought, however orders increase, reduce, flip or are     *)
(* refused and taken back.                                                 *)
LedgerBalances ==
  acct.cash + acct.fees - SumFunction([c \in Markets |-> acct.pos[c].qty * acct.pos[c].entry])
    = InitialCash - told

(* The account that is left when c is closed, or the same if it is refused. *)
AfterClose(a, c) == executeOrder(a, c, ClosingOrder(a, c)).acct

(* The margin check also meets orders that lower the exposure.  It never   *)
(* locks an account in: one whose equity covers its margin, at leverages   *)
(* whose margin rate covers slippage and fee, can be closed out position   *)
(* by position, in any order.                                              *)
CanUnwind ==
  Equity(acct) >= Margin(acct) =>
    \A c, d \in Markets :
      LET b == AfterClose(acct, c) IN b.pos[c] = Flat /\ AfterClose(b, d).pos[d] = Flat
===============================================================================
