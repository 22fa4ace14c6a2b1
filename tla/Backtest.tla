------------------------------- MODULE Backtest -------------------------------
(***************************************************************************)
(* The backtest engine of pkg/backtest: a feeder gives one price per step, *)
(* a strategy turns it into orders, and each order is booked twice, by the *)
(* engine's portfolio and by a simulated exchange of its own.  The report  *)
(* is made from the portfolio.  Slippage and fee of the portfolio are the  *)
(* ones RunJournalReplay leaves: none.                                     *)
(***************************************************************************)
EXTENDS SimExchange, SequencesExt

CONSTANTS Replayed,    \* the coin of the replay
          Stakes,      \* position_size_usd of journal decisions
          LotSz,       \* size of the threshold strategy's orders
          ThresholdP,  \* its threshold, in percent
          MaxSteps,    \* steps of a series
          MaxDecisions \* decisions of a journal record

ASSUME BacktestAssumption ==
  /\ Replayed \in Markets /\ LotSz \in Nat /\ ThresholdP \in Nat
  /\ MaxSteps \in Nat /\ MaxDecisions \in Nat /\ Stakes \subseteq Nat

VARIABLE bt

Buys == {"open_long", "close_short"}

Closes == {"close_long", "close_short"}

(* A price of a record or a series: 0 is a missing digest or a zero close. *)
Quotes == Ticks \cup {0}

Decisions == [action : {"open_long", "open_short"} \cup Closes \cup {"hold"}, entry : Quotes, usd : Stakes]

(* decisionToOrder: the digest's price before the decision's own; no order *)
(* without a price or a size.                                              *)
PriceOf(d, quote) == IF quote > 0 THEN quote ELSE d.entry

Yields(d, quote) == PriceOf(d, quote) # 0 /\ d.usd # 0 /\ d.action # "hold"

decisionToOrder(d, quote) ==
  [buy |-> d.action \in Buys, reduce |-> d.action \in Closes,
   size |-> d.usd \div PriceOf(d, quote), price |-> PriceOf(d, quote)]

(* The decisions of a record that yield an order, in their order.          *)
Ordered(ds, quote) ==
  {f \in SetToSeqs({i \in DOMAIN ds : Yields(ds[i], quote)}) : \A j, k \in DOMAIN f : j < k => f[j] < f[k]}

JournalOrders(ds, quote) == {[j \in DOMAIN f |-> decisionToOrder(ds[f[j]], quote)] : f \in Ordered(ds, quote)}

(* ThresholdStrategy.Decide: the first price only sets the reference.      *)
ThresholdOrders(last, px) ==
  LET order(buy) == <<[buy |-> buy, reduce |-> FALSE, size |-> LotSz, price |-> px]>>
  IN  CASE last = 0 -> <<>>
        [] last # 0 /\ (px - last) * 100 >= ThresholdP * last -> order(TRUE)
        [] last # 0 /\ (px - last) * 100 <= -(ThresholdP * last) -> order(FALSE)
        [] OTHER -> <<>>

(* Mutant of apply: a reduced position is averaged with the closing price. *)
applyAveraged(pf, buy, px, size) ==
  LET side == IF buy THEN 1 ELSE -1
      rest == AbsInt(pf.pos) - Min({AbsInt(pf.pos), size})
  IN  CASE px = 0 \/ size = 0 -> pf
        [] px * size # 0 /\ pf.pos * side >= 0 ->
             [pf EXCEPT !.pos = @ + side * size,
                        !.avg = (@ * AbsInt(pf.pos) + px * size) \div (AbsInt(pf.pos) + size)]
        [] OTHER ->
             [pos |-> pf.pos + side * size,
              avg |-> IF rest = 0 THEN (IF size = AbsInt(pf.pos) THEN 0 ELSE px) ELSE (pf.avg + px) \div 2,
              realized |-> pf.realized + Min({AbsInt(pf.pos), size}) * (pf.avg - px) * side]

(* portfolio.apply: the size the strategy asked for at the price of the    *)
(* step, no matter what the exchange will fill.                            *)
apply(pf, buy, px, size) ==
  LET side == IF buy THEN 1 ELSE -1
      closeQty == Min({AbsInt(pf.pos), size})
  IN  CASE px = 0 \/ size = 0 -> pf
        [] px * size # 0 /\ pf.pos * side >= 0 ->
             [pf EXCEPT !.pos = @ + side * size,
                        !.avg = (@ * AbsInt(pf.pos) + px * size) \div (AbsInt(pf.pos) + size)]
        [] OTHER ->
             [pos |-> pf.pos + side * size,
              avg |-> CASE size = AbsInt(pf.pos) -> 0
                        [] size > AbsInt(pf.pos) -> px
                        [] OTHER -> pf.avg,
              realized |-> pf.realized + closeQty * (pf.avg - px) * side]

BacktestInit ==
  \E strategy \in {"threshold", "journal"} :
    bt = [strategy |-> strategy, st |-> "feeding", left |-> MaxSteps, last |-> 0, px |-> 0, queue |-> <<>>,
          pf |-> [pos |-> 0, avg |-> 0, realized |-> 0], sim |-> Listed(NewAccount, Replayed), odd |-> FALSE]

(* The next snapshot and the strategy's orders for it.                     *)
Step(px, queue) ==
  /\ bt.st = "feeding" /\ bt.left > 0
  /\ bt' = [bt EXCEPT !.left = @ - 1, !.st = "ordering", !.px = px, !.last = px, !.queue = queue]

StepThreshold(px) == bt.strategy = "threshold" /\ Step(px, ThresholdOrders(bt.last, px))

StepJournal(px, ds) == bt.strategy = "journal" /\ \E queue \in JournalOrders(ds, px) : Step(px, queue)

(* The feeder or the strategy fails (a record that does not parse).        *)
StepFails == bt.st = "feeding" /\ bt.left > 0 /\ bt' = [bt EXCEPT !.st = "failed"]

(* An order whose exchange fill differs from what the portfolio books: a   *)
(* reduce-only order the position cannot absorb, or a step without price.  *)
Odd(o) == bt.px = 0 \/ (o.reduce /\ AbsInt(FillSize(bt.sim.pos[Replayed], o)) # o.size)

(* One order: the portfolio first, then the exchange; an order that the    *)
(* exchange refuses ends the run without a result.                         *)
SendOrder ==
  /\ bt.st = "ordering" /\ bt.queue # <<>>
  /\ LET o == Head(bt.queue)
         r == executeOrder(bt.sim, Replayed, o)
         ok == o.price > 0 /\ r.ok
     IN  bt' = [bt EXCEPT !.pf = apply(@, o.buy, bt.px, o.size),
                          !.sim = IF ok THEN r.acct ELSE @,
                          !.st = IF ok THEN @ ELSE "failed",
                          !.queue = Tail(@),
                          !.odd = @ \/ Odd(o)]

(* The equity of the step is noted; after the last one, the report.        *)
EndStep ==
  /\ bt.st = "ordering" /\ bt.queue = <<>>
  /\ bt' = [bt EXCEPT !.st = IF bt.left = 0 THEN "done" ELSE "feeding"]

BacktestNext ==
  \/ \E px \in Quotes : StepThreshold(px)
  \/ \E px \in Quotes, ds \in BoundedSeq(Decisions, MaxDecisions) : StepJournal(px, ds)
  \/ StepFails \/ SendOrder \/ EndStep

BacktestSpec == BacktestInit /\ [][BacktestNext]_bt

----------------------------------------------------------------------------
(* The report tells what the exchange did: while no order was odd and the  *)
(* run has not failed, the portfolio, which books every order before the   *)
(* exchange sees it and with its own arithmetic, has the exchange's        *)
(* position, average price and realised profit.                            *)
BooksAgree ==
  bt.st # "failed" /\ ~bt.odd =>
    /\ bt.sim.pos[Replayed] = [qty |-> bt.pf.pos, entry |-> bt.pf.avg]
    /\ bt.sim.cash + bt.sim.fees = InitialCash + bt.pf.realized
===============================================================================
