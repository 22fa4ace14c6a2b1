----------------------------- MODULE ReportProofs -----------------------------
(***************************************************************************)
(* Proofs about what is reported, for any values of the constants: the     *)
(* result of a backtest, the account totals and trades of the API, and the *)
(* ledger of the simulated exchange.                                       *)
(***************************************************************************)
EXTENDS Backtest, ReadModel, FiniteSetTheorems, SequenceTheorems, WellFoundedInduction, TLAPS

-------------------------------------------------------------------------------
(* Backtest.                                                               *)

OrderSet == [buy : BOOLEAN, reduce : BOOLEAN, size : Nat, price : Nat]

PositionSet == [qty : Int, entry : Int]

Accounts == [cash : Int, fees : Int, pos : [Markets -> PositionSet], mark : [Markets -> Int],
             asset : [Markets -> Int], lever : [1..Cardinality(Markets) -> Int]]

Portfolios == [pos : Int, avg : Int, realized : Int]

BacktestShape ==
  bt \in [strategy : {"threshold", "journal"}, st : {"feeding", "ordering", "failed", "done"}, left : Nat,
          last : Quotes, px : Quotes, queue : Seq(OrderSet), pf : Portfolios, sim : Accounts, odd : BOOLEAN]

(* The orders of a step carry its price, when it has one.                  *)
StepPrice == bt.px # 0 => \A j \in DOMAIN bt.queue : bt.queue[j].price = bt.px

BacktestInv == BacktestShape /\ StepPrice /\ BooksAgree

(* The lesser of two.                                                      *)
LEMMA MinPair == \A a, b \in Int : Min({a, b}) = IF a <= b THEN a ELSE b
<1> SUFFICES ASSUME NEW a \in Int, NEW b \in Int PROVE Min({a, b}) = IF a <= b THEN a ELSE b
  OBVIOUS
<1> DEFINE m == IF a <= b THEN a ELSE b
<1>1. m \in {a, b} /\ \A y \in {a, b} : m <= y
  OBVIOUS
<1>2. \A x \in {a, b} : (\A y \in {a, b} : x <= y) => x = m
  OBVIOUS
<1>3. Min({a, b}) \in {a, b} /\ \A y \in {a, b} : Min({a, b}) <= y
  BY <1>1 DEF Min
<1> HIDE DEF m
<1>4. Min({a, b}) = m
  BY <1>2, <1>3
<1> QED BY <1>4 DEF m

(* Absolute values.                                                        *)
LEMMA AbsFacts ==
  /\ \A n \in Int : AbsInt(n) \in Nat
  /\ \A n \in Nat : AbsInt(n) = n /\ AbsInt(-n) = n
  BY DEF AbsInt

(* A quotient is what it was a multiple of.                                *)
LEMMA ExactQuotient == \A a \in Int, b \in Nat \ {0} : (a * b) \div b = a
  OBVIOUS

(* Quotients of integers ...                                               *)
LEMMA QuotientType == \A a \in Int, b \in Nat \ {0} : (a \div b) \in Int
  OBVIOUS

(* ... and of naturals.                                                    *)
LEMMA NatQuotient == \A a \in Nat, b \in Nat \ {0} : (a \div b) \in Nat
  OBVIOUS

Signed(buy, size) == IF buy THEN size ELSE -size

(* portfolio.apply and the exchange's own arithmetic come to the same      *)
(* position, average price and profit.                                     *)
LEMMA GrowsAlike ==
  ASSUME NEW q \in Int, NEW v \in Int, NEW px \in Nat \ {0}, NEW size \in Nat \ {0}, NEW buy \in BOOLEAN,
         q * (IF buy THEN 1 ELSE -1) >= 0
  PROVE  /\ NextEntry([qty |-> q, entry |-> v], Signed(buy, size), px) = (v * AbsInt(q) + px * size) \div (AbsInt(q) + size)
         /\ Realized([qty |-> q, entry |-> v], Signed(buy, size), px) = 0
         /\ q + (IF buy THEN 1 ELSE -1) * size = q + Signed(buy, size)
<1> DEFINE d == Signed(buy, size)
<1>1. d \in Int /\ AbsInt(d) = size /\ d # 0 /\ q + (IF buy THEN 1 ELSE -1) * size = q + d
  BY DEF Signed, AbsInt
<1>2. (buy => q >= 0 /\ d > 0) /\ (~buy => q <= 0 /\ d < 0)
  BY DEF Signed
<1>3. q + d # 0 /\ AbsInt(q + d) = AbsInt(q) + size
  BY <1>1, <1>2 DEF AbsInt, Signed
<1>4. q * d >= 0
  <2>1. CASE buy
    <3>1. q \in Nat /\ d \in Nat
      <4>1. d = size
        BY <2>1 DEF Signed
      <4>2. q >= 0
        BY <1>2, <2>1
      <4> QED BY <4>1, <4>2
    <3>2. \A a, b \in Nat : a * b \in Nat
      OBVIOUS
    <3>3. q * d \in Nat
      BY <3>1, <3>2
    <3> QED BY <3>3
  <2>2. CASE ~buy
    <3>1. -q \in Nat /\ -d \in Nat
      BY <1>1, <1>2, <2>2
    <3>2. (-q) * (-d) \in Nat /\ q * d = (-q) * (-d)
      BY <1>1, <3>1
    <3> QED BY <3>2
  <2> QED BY <2>1, <2>2
<1> HIDE DEF d
<1>5. Realized([qty |-> q, entry |-> v], d, px) = 0
  BY <1>1, <1>4 DEF Realized
<1>6. CASE q = 0
  <2>1. NextEntry([qty |-> q, entry |-> v], d, px) = px
    BY <1>1, <1>3, <1>6 DEF NextEntry
  <2>2. AbsInt(q) = 0 /\ v * AbsInt(q) + px * size = px * size /\ AbsInt(q) + size = size
    BY <1>6 DEF AbsInt
  <2>3. (px * size) \div size = px
    BY ExactQuotient
  <2> QED BY <1>1, <1>5, <2>1, <2>2, <2>3 DEF d
<1>7. CASE q # 0
  <2>1. q * d > 0
    <3>1. \A a, b \in Int : a * b = 0 => a = 0 \/ b = 0
      OBVIOUS
    <3>2. q * d # 0 /\ q * d \in Int
      BY <1>1, <1>7, <3>1
    <3> QED BY <1>4, <3>2
  <2>2. NextEntry([qty |-> q, entry |-> v], d, px) = (AbsInt(q) * v + AbsInt(d) * px) \div AbsInt(q + d)
    <3> DEFINE p == [qty |-> q, entry |-> v]
    <3>1. p.qty = q /\ p.entry = v
      OBVIOUS
    <3> HIDE DEF p
    <3>2. ~(q * (q + d) < 0)
      <4>1. \A a, b \in Int : a * b > 0 => ~(a * (a + b) < 0)
        OBVIOUS
      <4> QED BY <1>1, <2>1, <4>1
    <3>3. NextEntry(p, d, px) = (AbsInt(q) * v + AbsInt(d) * px) \div AbsInt(q + d)
      BY <1>3, <1>7, <2>1, <3>1, <3>2 DEF NextEntry
    <3> QED BY <3>3 DEF p
  <2>3. AbsInt(q) \in Int /\ AbsInt(q) * v + AbsInt(d) * px = v * AbsInt(q) + px * size
    BY <1>1, AbsFacts
  <2> QED BY <1>1, <1>3, <1>5, <2>2, <2>3 DEF d
<1> QED BY <1>6, <1>7

(* The average price of a position that an order of the other side shrinks. *)
LeftAt(q, v, px, size) == CASE size = AbsInt(q) -> 0
                            [] size > AbsInt(q) -> px
                            [] OTHER -> v

(* The same for an order of the other side, which reduces, closes or flips *)
(* the position.                                                           *)
LEMMA ShrinksAlike ==
  ASSUME NEW q \in Int, NEW v \in Int, NEW px \in Nat \ {0}, NEW size \in Nat \ {0}, NEW buy \in BOOLEAN,
         ~(q * (IF buy THEN 1 ELSE -1) >= 0)
  PROVE  /\ NextEntry([qty |-> q, entry |-> v], Signed(buy, size), px) = LeftAt(q, v, px, size)
         /\ Realized([qty |-> q, entry |-> v], Signed(buy, size), px) = Min({AbsInt(q), size}) * (v - px) * (IF buy THEN 1 ELSE -1)
         /\ q + (IF buy THEN 1 ELSE -1) * size = q + Signed(buy, size)
<1> DEFINE d == Signed(buy, size)
<1>1. d \in Int /\ AbsInt(d) = size /\ d # 0 /\ q + (IF buy THEN 1 ELSE -1) * size = q + d
  BY DEF Signed, AbsInt
<1>2. (buy => q < 0 /\ d > 0 /\ AbsInt(q) = -q /\ d = size) /\ (~buy => q > 0 /\ d < 0 /\ AbsInt(q) = q /\ d = -size)
  BY DEF Signed, AbsInt
<1>3. AbsInt(q) \in Nat
  BY AbsFacts
<1>4. \A a, b \in Int : a < 0 /\ b > 0 => a * b < 0 /\ b * a < 0
  OBVIOUS
<1>5. q * d < 0
  BY <1>1, <1>2, <1>4
<1>6. q + d = 0 <=> size = AbsInt(q)
  BY <1>1, <1>2
<1>7. size > AbsInt(q) => q * (q + d) < 0
  <2> SUFFICES ASSUME size > AbsInt(q) PROVE q * (q + d) < 0
    OBVIOUS
  <2>1. (buy => q < 0 /\ q + d > 0) /\ (~buy => q > 0 /\ q + d < 0) /\ q + d \in Int
    BY <1>1, <1>2
  <2> HIDE DEF d
  <2> QED BY <1>4, <2>1
<1>8. size < AbsInt(q) => q # 0 /\ ~(q * (q + d) < 0)
  <2> SUFFICES ASSUME size < AbsInt(q) PROVE q # 0 /\ ~(q * (q + d) < 0)
    OBVIOUS
  <2>1. (buy => q < 0 /\ q + d < 0) /\ (~buy => q > 0 /\ q + d > 0) /\ q + d \in Int
    BY <1>1, <1>2
  <2>2. \A a, b \in Int : (a > 0 /\ b > 0) \/ (a < 0 /\ b < 0) => a * b > 0
    OBVIOUS
  <2> HIDE DEF d
  <2>3. q * (q + d) > 0 /\ q * (q + d) \in Int
    BY <2>1, <2>2
  <2> QED BY <2>1, <2>3
<1> HIDE DEF d
<1>9. NextEntry([qty |-> q, entry |-> v], d, px) = LeftAt(q, v, px, size)
  <2> DEFINE p == [qty |-> q, entry |-> v]
  <2>1. p.qty = q /\ p.entry = v
    OBVIOUS
  <2> HIDE DEF p
  <2>2. ~(q * d > 0) /\ q # 0
    BY <1>1, <1>2, <1>5
  <2>3. CASE size = AbsInt(q)
    BY <1>6, <2>1, <2>3 DEF NextEntry, LeftAt
  <2>4. CASE size > AbsInt(q)
    <3>1. q + d # 0 /\ q * (q + d) < 0
      BY <1>3, <1>6, <1>7, <2>4
    <3>2. NextEntry(p, d, px) = px
      BY <2>1, <2>2, <3>1 DEF NextEntry
    <3> QED BY <1>3, <2>4, <3>2 DEF p, LeftAt
  <2>5. CASE size < AbsInt(q)
    <3>1. q + d # 0 /\ ~(q * (q + d) < 0)
      BY <1>3, <1>6, <1>8, <2>5
    <3>2. NextEntry(p, d, px) = v
      BY <2>1, <2>2, <3>1 DEF NextEntry
    <3> QED BY <1>3, <2>5, <3>2 DEF p, LeftAt
  <2> QED BY <1>3, <2>3, <2>4, <2>5 DEF p
<1>10. Realized([qty |-> q, entry |-> v], d, px) = Min({AbsInt(q), size}) * (v - px) * (IF buy THEN 1 ELSE -1)
  <2> DEFINE m == Min({AbsInt(q), size})
  <2>1. m \in Int
    BY <1>3, MinPair
  <2>2. ~(q * d >= 0)
    BY <1>1, <1>5
  <2>3. Realized([qty |-> q, entry |-> v], d, px) = m * (px - v) * (IF q < 0 THEN -1 ELSE 1)
    BY <1>1, <2>2 DEF Realized
  <2> HIDE DEF m
  <2>4. m * (px - v) * (IF q < 0 THEN -1 ELSE 1) = m * (v - px) * (IF buy THEN 1 ELSE -1)
    <3>1. CASE buy
      BY <1>2, <2>1, <3>1
    <3>2. CASE ~buy
      BY <1>2, <2>1, <3>2
    <3> QED BY <3>1, <3>2
  <2> QED BY <2>3, <2>4 DEF m
<1> QED BY <1>1, <1>9, <1>10 DEF d

(* What a portfolio makes of an order of the price of the step.            *)
LEMMA ApplyAlike ==
  ASSUME NEW pf \in Portfolios, NEW buy \in BOOLEAN, NEW px \in Nat \ {0}, NEW size \in Nat \ {0}
  PROVE  LET d == Signed(buy, size)
             p == [qty |-> pf.pos, entry |-> pf.avg]
             f == apply(pf, buy, px, size)
         IN  /\ f.pos = pf.pos + d /\ f.avg = NextEntry(p, d, px)
             /\ f.realized = pf.realized + Realized(p, d, px)
             /\ d \in Int /\ AbsInt(d) = size /\ d # 0
<1> DEFINE d == Signed(buy, size)
           p == [qty |-> pf.pos, entry |-> pf.avg]
           f == apply(pf, buy, px, size)
           side == IF buy THEN 1 ELSE -1
<1>1. pf.pos \in Int /\ pf.avg \in Int /\ pf.realized \in Int
  BY DEF Portfolios
<1>2. d \in Int /\ AbsInt(d) = size /\ d # 0
  BY DEF Signed, AbsInt
<1>3. ~(px = 0 \/ size = 0) /\ px * size # 0
  OBVIOUS
<1>4. CASE pf.pos * side >= 0
  <2>1. /\ NextEntry(p, d, px) = (pf.avg * AbsInt(pf.pos) + px * size) \div (AbsInt(pf.pos) + size)
        /\ Realized(p, d, px) = 0
        /\ pf.pos + side * size = pf.pos + d
    <3>1. \A q, v \in Int : q * side >= 0 =>
            /\ NextEntry([qty |-> q, entry |-> v], d, px) = (v * AbsInt(q) + px * size) \div (AbsInt(q) + size)
            /\ Realized([qty |-> q, entry |-> v], d, px) = 0
            /\ q + side * size = q + d
      BY GrowsAlike, ZenonT(30)
    <3> HIDE DEF d, side
    <3> QED BY <1>1, <1>4, <3>1
  <2>2. f = [pf EXCEPT !.pos = @ + side * size,
                       !.avg = (@ * AbsInt(pf.pos) + px * size) \div (AbsInt(pf.pos) + size)]
    BY <1>3, <1>4 DEF apply
  <2> HIDE DEF d, p, side, f
  <2>3. f.pos = pf.pos + side * size /\ f.avg = (pf.avg * AbsInt(pf.pos) + px * size) \div (AbsInt(pf.pos) + size)
        /\ f.realized = pf.realized
    BY <2>2 DEF Portfolios
  <2>4. f.realized = pf.realized + Realized(p, d, px)
    BY <1>1, <2>1, <2>3
  <2>5. f.pos = pf.pos + d /\ f.avg = NextEntry(p, d, px)
    BY <2>1, <2>3, Zenon
  <2> QED BY <1>2, <2>4, <2>5 DEF d, p, f
<1>5. CASE ~(pf.pos * side >= 0)
  <2> DEFINE avg == LeftAt(pf.pos, pf.avg, px, size)
             gain == Min({AbsInt(pf.pos), size}) * (pf.avg - px) * side
  <2>1. NextEntry(p, d, px) = avg /\ Realized(p, d, px) = gain /\ pf.pos + side * size = pf.pos + d
    <3>1. \A q, v \in Int : ~(q * side >= 0) =>
            /\ NextEntry([qty |-> q, entry |-> v], d, px) = LeftAt(q, v, px, size)
            /\ Realized([qty |-> q, entry |-> v], d, px) = Min({AbsInt(q), size}) * (v - px) * side
            /\ q + side * size = q + d
      BY ShrinksAlike
    <3> HIDE DEF d, side
    <3> QED BY <1>1, <1>5, <3>1
  <2>2. f = [pos |-> pf.pos + side * size, avg |-> avg, realized |-> pf.realized + gain]
    BY <1>3, <1>5 DEF apply, LeftAt
  <2> HIDE DEF d, p, side, f, avg, gain
  <2>3. f.pos = pf.pos + side * size /\ f.avg = avg /\ f.realized = pf.realized + gain
    BY <2>2
  <2> QED BY <1>2, <2>1, <2>3, Zenon DEF d, p, f
<1> QED BY <1>4, <1>5

(* An order without price or size is not booked.                           *)
LEMMA ApplyNothing == \A pf, buy : \A px, size \in Nat : px = 0 \/ size = 0 => apply(pf, buy, px, size) = pf
<1> SUFFICES ASSUME NEW pf, NEW buy, NEW px \in Nat, NEW size \in Nat, px = 0 \/ size = 0
             PROVE  apply(pf, buy, px, size) = pf
  OBVIOUS
<1>1. ~(px * size # 0)
  OBVIOUS
<1> QED BY <1>1 DEF apply

(* What a fill leaves is a number.                                         *)
LEMMA FillTypes ==
  ASSUME NEW p \in PositionSet, NEW d \in Int, NEW px \in Nat
  PROVE  NextEntry(p, d, px) \in Int /\ Realized(p, d, px) \in Int
<1>1. p.qty \in Int /\ p.entry \in Int /\ AbsInt(p.qty) \in Nat /\ AbsInt(d) \in Nat
  BY AbsFacts DEF PositionSet
<1>2. p.qty + d # 0 => AbsInt(p.qty + d) \in Nat \ {0}
  BY <1>1 DEF AbsInt
<1>3. (AbsInt(p.qty) * p.entry + AbsInt(d) * px) \in Int
  BY <1>1
<1>4. p.qty + d # 0 => ((AbsInt(p.qty) * p.entry + AbsInt(d) * px) \div AbsInt(p.qty + d)) \in Int
  BY <1>2, <1>3, QuotientType
<1>5. NextEntry(p, d, px) \in Int
  BY <1>1, <1>4 DEF NextEntry
<1>6. Min({AbsInt(p.qty), AbsInt(d)}) \in Int
  BY <1>1, MinPair
<1> DEFINE m == Min({AbsInt(p.qty), AbsInt(d)})
<1>7. Realized(p, d, px) = IF p.qty * d >= 0 THEN 0 ELSE m * (px - p.entry) * (IF p.qty < 0 THEN -1 ELSE 1)
  BY DEF Realized
<1> HIDE DEF m
<1>8. Realized(p, d, px) \in Int
  BY <1>1, <1>6, <1>7 DEF m
<1> QED BY <1>5, <1>8

(* The account with a fill booked.                                         *)
LEMMA FilledBooks ==
  ASSUME NEW a \in Accounts, NEW c \in Markets, NEW o \in OrderSet, NEW d \in Int
  PROVE  LET b == Filled(a, c, o, d)
         IN  /\ b \in Accounts
             /\ b.pos[c] = [qty |-> a.pos[c].qty + d, entry |-> NextEntry(a.pos[c], d, o.price)]
             /\ b.cash + b.fees = a.cash + a.fees + Realized(a.pos[c], d, o.price)
<1> DEFINE p == a.pos[c]
           e == NextEntry(p, d, o.price)
           g == Realized(p, d, o.price)
           fee == (AbsInt(d) * o.price) \div FeeDen
           b == Filled(a, c, o, d)
<1>1. p \in PositionSet /\ o.price \in Nat /\ AbsInt(d) \in Nat
  BY AbsFacts DEF Accounts, OrderSet
<1>2. e \in Int /\ g \in Int
  <2> HIDE DEF p
  <2> QED BY <1>1, FillTypes
<1>3. fee \in Int
  <2>1. AbsInt(d) * o.price \in Int /\ FeeDen \in Nat \ {0}
    BY <1>1, SimAssumption
  <2> QED BY <2>1, QuotientType
<1>4. b = [a EXCEPT !.pos[c] = [qty |-> p.qty + d, entry |-> e], !.cash = @ + g - fee, !.fees = @ + fee]
  BY DEF Filled
<1>5. p.qty \in Int /\ a.cash \in Int /\ a.fees \in Int
  BY <1>1 DEF PositionSet, Accounts
<1> HIDE DEF p, e, g, fee, b
<1> DEFINE n == [qty |-> p.qty + d, entry |-> e]
<1>6. n \in PositionSet
  BY <1>2, <1>5 DEF PositionSet
<1>7. n = [qty |-> p.qty + d, entry |-> e]
  OBVIOUS
<1> HIDE DEF n
<1>8. /\ b.pos = [a.pos EXCEPT ![c] = n] /\ b.cash = a.cash + g - fee /\ b.fees = a.fees + fee
      /\ b.mark = a.mark /\ b.asset = a.asset /\ b.lever = a.lever
  BY <1>4, <1>7 DEF Accounts
<1>9. b.pos \in [Markets -> PositionSet] /\ b.pos[c] = n
  BY <1>6, <1>8 DEF Accounts
<1>10. b \in Accounts
  <2> DEFINE np == [a.pos EXCEPT ![c] = n]
             nc == a.cash + g - fee
             nf == a.fees + fee
  <2>1. np \in [Markets -> PositionSet] /\ nc \in Int /\ nf \in Int
    BY <1>2, <1>3, <1>5, <1>6 DEF Accounts
  <2>2. b = [a EXCEPT !.pos = np, !.cash = nc, !.fees = nf]
    BY <1>4, <1>7
  <2> HIDE DEF np, nc, nf
  <2> QED BY <2>1, <2>2 DEF Accounts
<1>11. b.cash + b.fees = a.cash + a.fees + g
  BY <1>2, <1>3, <1>5, <1>8
<1> QED BY <1>9, <1>10, <1>11 DEF p, e, g, b, n

(* The account after an order the exchange accepts.                        *)
LEMMA Accepted ==
  ASSUME NEW a \in Accounts, NEW c \in Markets, NEW o \in OrderSet, FillSize(a.pos[c], o) \in Int,
         executeOrder(a, c, o).ok
  PROVE  LET d == FillSize(a.pos[c], o)
             b == executeOrder(a, c, o).acct
         IN  /\ b \in Accounts
             /\ d = 0 => b = a
             /\ d # 0 => /\ b.pos[c] = [qty |-> a.pos[c].qty + d, entry |-> NextEntry(a.pos[c], d, o.price)]
                         /\ b.cash + b.fees = a.cash + a.fees + Realized(a.pos[c], d, o.price)
<1> DEFINE d == FillSize(a.pos[c], o)
           f == Filled(a, c, o, d)
           r == executeOrder(a, c, o)
           over == Margin(f) > Equity(f)
           up == WouldIncrease(a.pos[c], o)
<1>1. r = CASE up -> [acct |-> a, ok |-> FALSE, filled |-> 0]
            [] ~up /\ d = 0 -> [acct |-> a, ok |-> TRUE, filled |-> 0]
            [] OTHER -> IF over THEN [acct |-> a, ok |-> FALSE, filled |-> 0]
                        ELSE [acct |-> [f EXCEPT !.mark[c] = o.price], ok |-> TRUE, filled |-> d]
  BY DEF executeOrder
<1>2. /\ f \in Accounts
      /\ f.pos[c] = [qty |-> a.pos[c].qty + d, entry |-> NextEntry(a.pos[c], d, o.price)]
      /\ f.cash + f.fees = a.cash + a.fees + Realized(a.pos[c], d, o.price)
  <2> HIDE DEF d
  <2>0. d \in Int
    BY DEF d
  <2>1. \A n \in Int : /\ Filled(a, c, o, n) \in Accounts
                       /\ Filled(a, c, o, n).pos[c] = [qty |-> a.pos[c].qty + n, entry |-> NextEntry(a.pos[c], n, o.price)]
                       /\ Filled(a, c, o, n).cash + Filled(a, c, o, n).fees = a.cash + a.fees + Realized(a.pos[c], n, o.price)
    BY FilledBooks
  <2> QED BY <2>0, <2>1, Zenon
<1>3. up \in BOOLEAN
  BY DEF WouldIncrease, OrderSet
<1>4. r.ok
  OBVIOUS
<1>5. o.price \in Int
  BY DEF OrderSet
<1> DEFINE m == [f EXCEPT !.mark[c] = o.price]
<1>6. m \in Accounts /\ m.pos = f.pos /\ m.cash = f.cash /\ m.fees = f.fees
  <2> HIDE DEF f
  <2> QED BY <1>2, <1>5 DEF Accounts
<1> HIDE DEF d, f, r, over, up, m
<1>7. CASE d = 0
  <2>1. ~up
    BY <1>1, <1>4
  <2>2. r.acct = a
    BY <1>1, <1>7, <2>1
  <2> QED BY <1>7, <2>2 DEF d, r
<1>8. CASE d # 0
  <2>1. ~up /\ ~over
    BY <1>1, <1>4, <1>8
  <2>2. r.acct = m
    BY <1>1, <1>8, <2>1 DEF m
  <2> QED BY <1>2, <1>6, <1>8, <2>2 DEF d, r
<1> QED BY <1>7, <1>8

(* An order that is not cut short fills the size it asks for.              *)
LEMMA FillSizes ==
  ASSUME NEW p \in PositionSet, NEW o \in OrderSet
  PROVE  /\ FillSize(p, o) \in Int
         /\ ~(o.reduce /\ AbsInt(FillSize(p, o)) # o.size) => FillSize(p, o) = Signed(o.buy, o.size)
<1>1. o.size \in Nat /\ o.buy \in BOOLEAN /\ o.reduce \in BOOLEAN /\ AbsInt(p.qty) \in Nat
  BY AbsFacts DEF PositionSet, OrderSet
<1> DEFINE m == Min({o.size, AbsInt(p.qty)})
           sz == IF o.reduce THEN m ELSE o.size
<1>2. m \in Nat
  BY <1>1, MinPair
<1>3. FillSize(p, o) = IF o.buy THEN sz ELSE -sz
  BY DEF FillSize
<1> HIDE DEF m
<1>4. sz \in Nat
  BY <1>1, <1>2
<1> HIDE DEF sz
<1>5. AbsInt(sz) = sz /\ AbsInt(-sz) = sz
  BY <1>4, AbsFacts
<1>6. AbsInt(FillSize(p, o)) = sz
  BY <1>3, <1>5
<1>7. ~o.reduce => sz = o.size
  BY <1>1 DEF sz
<1>8. ~(o.reduce /\ AbsInt(FillSize(p, o)) # o.size) => sz = o.size
  BY <1>6, <1>7
<1> QED BY <1>1, <1>3, <1>4, <1>8 DEF Signed

(* What the portfolio books is a portfolio.                                *)
LEMMA ApplyType ==
  ASSUME NEW pf \in Portfolios, NEW buy \in BOOLEAN, NEW px \in Nat, NEW size \in Nat
  PROVE  apply(pf, buy, px, size) \in Portfolios
<1>1. CASE px = 0 \/ size = 0
  BY <1>1, ApplyNothing
<1>2. CASE px # 0 /\ size # 0
  <2> DEFINE side == IF buy THEN 1 ELSE -1
             closeQty == Min({AbsInt(pf.pos), size})
             av == (pf.avg * AbsInt(pf.pos) + px * size) \div (AbsInt(pf.pos) + size)
             left == CASE size = AbsInt(pf.pos) -> 0
                       [] size > AbsInt(pf.pos) -> px
                       [] OTHER -> pf.avg
             gain == closeQty * (pf.avg - px) * side
  <2>1. pf.pos \in Int /\ pf.avg \in Int /\ pf.realized \in Int /\ AbsInt(pf.pos) \in Nat /\ side \in Int
    BY AbsFacts DEF Portfolios
  <2>2. closeQty \in Int
    BY <2>1, MinPair
  <2>3. av \in Int
    <3>1. (pf.avg * AbsInt(pf.pos) + px * size) \in Int /\ (AbsInt(pf.pos) + size) \in Nat \ {0}
      BY <1>2, <2>1
    <3> QED BY <3>1, QuotientType
  <2>4. left \in Int
    BY <2>1
  <2>5. gain \in Int /\ pf.pos + side * size \in Int
    <3> HIDE DEF closeQty, side
    <3> QED BY <2>1, <2>2
  <2>6. px * size # 0
    BY <1>2
  <2>7. CASE pf.pos * side >= 0
    <3>1. apply(pf, buy, px, size) = [pf EXCEPT !.pos = pf.pos + side * size, !.avg = av]
      BY <1>2, <2>6, <2>7 DEF apply
    <3> HIDE DEF side, av
    <3> QED BY <2>3, <2>5, <3>1 DEF Portfolios
  <2>8. CASE ~(pf.pos * side >= 0)
    <3>1. apply(pf, buy, px, size) = [pos |-> pf.pos + side * size, avg |-> left, realized |-> pf.realized + gain]
      BY <1>2, <2>6, <2>8 DEF apply
    <3> HIDE DEF side, left, gain
    <3> QED BY <2>1, <2>4, <2>5, <3>1 DEF Portfolios
  <2> QED BY <2>7, <2>8
<1> QED BY <1>1, <1>2

(* An order that the exchange fills as it was asked for leaves both books  *)
(* in agreement.                                                           *)
LEMMA FillAgrees ==
  ASSUME NEW pf \in Portfolios, NEW a \in Accounts, NEW c \in Markets, NEW o \in OrderSet,
         o.price # 0, a.pos[c] = [qty |-> pf.pos, entry |-> pf.avg],
         a.cash + a.fees = InitialCash + pf.realized,
         executeOrder(a, c, o).ok, ~(o.reduce /\ AbsInt(FillSize(a.pos[c], o)) # o.size)
  PROVE  LET b == executeOrder(a, c, o).acct
             f == apply(pf, o.buy, o.price, o.size)
         IN  /\ b.pos[c] = [qty |-> f.pos, entry |-> f.avg]
             /\ b.cash + b.fees = InitialCash + f.realized
<1> DEFINE b == executeOrder(a, c, o).acct
           f == apply(pf, o.buy, o.price, o.size)
           d == Signed(o.buy, o.size)
           p == a.pos[c]
<1>1. o.buy \in BOOLEAN /\ o.size \in Nat /\ o.price \in Nat \ {0}
  BY DEF OrderSet
<1>2. p \in PositionSet
  BY DEF Accounts
<1>3. FillSize(p, o) \in Int /\ FillSize(p, o) = d
  <2> HIDE DEF p
  <2>1. ~(o.reduce /\ AbsInt(FillSize(p, o)) # o.size)
    BY DEF p
  <2> QED BY <1>2, <2>1, FillSizes
<1>4. /\ d = 0 => b = a
      /\ d # 0 => /\ b.pos[c] = [qty |-> p.qty + d, entry |-> NextEntry(p, d, o.price)]
                  /\ b.cash + b.fees = a.cash + a.fees + Realized(p, d, o.price)
  <2>1. FillSize(a.pos[c], o) \in Int
    BY <1>3
  <2>2. LET n == FillSize(a.pos[c], o)
        IN  /\ n = 0 => b = a
            /\ n # 0 => /\ b.pos[c] = [qty |-> a.pos[c].qty + n, entry |-> NextEntry(a.pos[c], n, o.price)]
                        /\ b.cash + b.fees = a.cash + a.fees + Realized(a.pos[c], n, o.price)
    BY <2>1, Accepted
  <2> HIDE DEF b, d
  <2> QED BY <1>3, <2>2
<1>5. pf.pos \in Int /\ pf.avg \in Int /\ pf.realized \in Int /\ InitialCash \in Int
  BY SimAssumption DEF Portfolios
<1>6. p = [qty |-> pf.pos, entry |-> pf.avg]
  OBVIOUS
<1>7. CASE o.size = 0
  <2>1. d = 0
    <3>1. \A n \in Int : n + (-n) = 0
      OBVIOUS
    <3>2. -o.size = 0
      <4>1. o.size + (-o.size) = 0 /\ -o.size \in Int
        BY <1>1, <3>1
      <4> DEFINE m == -o.size
      <4>2. o.size + m = 0 /\ m \in Int
        BY <4>1
      <4> HIDE DEF m
      <4>3. m = 0
        BY <1>7, <4>2
      <4> QED BY <4>3 DEF m
    <3> QED BY <1>7, <3>2, Zenon DEF Signed
  <2>2. f = pf
    BY <1>1, <1>7, ApplyNothing
  <2> HIDE DEF b, f, d
  <2> QED BY <1>4, <2>1, <2>2 DEF b, f
<1>8. CASE o.size # 0
  <2>1. /\ f.pos = pf.pos + d /\ f.avg = NextEntry(p, d, o.price)
        /\ f.realized = pf.realized + Realized(p, d, o.price) /\ d # 0 /\ d \in Int
    <3>1. \A buy \in BOOLEAN, px, size \in Nat \ {0} :
            /\ apply(pf, buy, px, size).pos = pf.pos + Signed(buy, size)
            /\ apply(pf, buy, px, size).avg = NextEntry([qty |-> pf.pos, entry |-> pf.avg], Signed(buy, size), px)
            /\ apply(pf, buy, px, size).realized =
                 pf.realized + Realized([qty |-> pf.pos, entry |-> pf.avg], Signed(buy, size), px)
            /\ Signed(buy, size) # 0 /\ Signed(buy, size) \in Int
      BY ApplyAlike
    <3>2. o.size \in Nat \ {0}
      BY <1>1, <1>8
    <3> DEFINE q == [qty |-> pf.pos, entry |-> pf.avg]
    <3>3. /\ f.pos = pf.pos + d /\ f.avg = NextEntry(q, d, o.price)
          /\ f.realized = pf.realized + Realized(q, d, o.price) /\ d # 0 /\ d \in Int
      <4>1. o.buy \in BOOLEAN /\ o.price \in Nat \ {0}
        BY <1>1
      <4>2. CASE o.buy = TRUE
        BY <3>1, <3>2, <4>1, <4>2
      <4>3. CASE o.buy = FALSE
        BY <3>1, <3>2, <4>1, <4>3
      <4> QED BY <4>1, <4>2, <4>3
    <3>4. p = q
      BY <1>6
    <3> HIDE DEF p, q, d, f
    <3> QED BY <3>3, <3>4, Zenon
  <2>2. Realized(p, d, o.price) \in Int
    <3> HIDE DEF p, d
    <3> QED BY <1>1, <1>2, <2>1, FillTypes
  <2>3. p.qty = pf.pos
    BY <1>6
  <2> DEFINE g == Realized(p, d, o.price)
  <2>4. a.cash + a.fees = InitialCash + pf.realized
    OBVIOUS
  <2> HIDE DEF b, f, d, p, g
  <2>5. b.pos[c] = [qty |-> f.pos, entry |-> f.avg]
    BY <1>4, <2>1, <2>3, Zenon
  <2>6. b.cash + b.fees = (InitialCash + pf.realized) + g /\ f.realized = pf.realized + g /\ g \in Int
    BY <1>4, <2>1, <2>2, <2>4 DEF g
  <2>7. b.cash + b.fees = InitialCash + f.realized
    BY <1>5, <2>6
  <2> QED BY <2>5, <2>7 DEF b, f
<1> QED BY <1>7, <1>8

(* Prices are naturals.                                                    *)
LEMMA QuoteTypes == Quotes \subseteq Nat /\ Ticks \subseteq Nat \ {0}
  BY SimAssumption DEF Quotes

(* The orders of a journal record, and of the threshold strategy.          *)
LEMMA JournalTyped ==
  ASSUME NEW quote \in Quotes, NEW ds \in BoundedSeq(Decisions, MaxDecisions),
         NEW queue \in JournalOrders(ds, quote)
  PROVE  queue \in Seq(OrderSet) /\ (quote # 0 => \A j \in DOMAIN queue : queue[j].price = quote)
<1>1. PICK m \in 0..MaxDecisions : ds \in [1..m -> Decisions]
  BY DEF BoundedSeq, SeqOf
<1>2. m \in Nat
  BY BacktestAssumption
<1> DEFINE S == {i \in DOMAIN ds : Yields(ds[i], quote)}
<1>3. IsFiniteSet(S)
  <2>1. S \subseteq 1..m /\ IsFiniteSet(1..m)
    BY <1>1, <1>2, FS_Interval
  <2> QED BY <2>1, FS_Subset
<1>4. PICK f \in Ordered(ds, quote) : queue = [j \in DOMAIN f |-> decisionToOrder(ds[f[j]], quote)]
  BY DEF JournalOrders
<1>5. f \in SetToSeqs(S)
  BY <1>4 DEF Ordered
<1> DEFINE n == Cardinality(S)
<1>6. f \in [1..n -> S] /\ n \in Nat
  BY <1>3, <1>5, FS_CardinalityType DEF SetToSeqs
<1>7. \A i \in S : decisionToOrder(ds[i], quote) \in OrderSet
                   /\ (quote # 0 => decisionToOrder(ds[i], quote).price = quote)
  <2> SUFFICES ASSUME NEW i \in S
               PROVE  decisionToOrder(ds[i], quote) \in OrderSet
                      /\ (quote # 0 => decisionToOrder(ds[i], quote).price = quote)
    OBVIOUS
  <2> DEFINE d == ds[i]
             pr == PriceOf(d, quote)
             sz == d.usd \div pr
  <2>1. d \in Decisions /\ Yields(d, quote)
    BY <1>1
  <2>2. d.entry \in Nat /\ d.usd \in Nat /\ quote \in Nat
    BY <2>1, QuoteTypes, BacktestAssumption DEF Decisions
  <2>3. pr # 0 /\ pr \in Nat /\ (quote # 0 => pr = quote)
    BY <2>1, <2>2 DEF PriceOf, Yields
  <2>4. sz \in Nat
    <3> HIDE DEF pr, d
    <3> QED BY <2>2, <2>3, NatQuotient
  <2>5. decisionToOrder(d, quote) = [buy |-> d.action \in Buys, reduce |-> d.action \in Closes, size |-> sz, price |-> pr]
    BY DEF decisionToOrder
  <2> HIDE DEF d, pr, sz
  <2>6. (d.action \in Buys) \in BOOLEAN /\ (d.action \in Closes) \in BOOLEAN
    OBVIOUS
  <2>7. decisionToOrder(d, quote) \in OrderSet /\ decisionToOrder(d, quote).price = pr
    BY <2>3, <2>4, <2>5, <2>6 DEF OrderSet
  <2> QED BY <2>3, <2>7 DEF d
<1> HIDE DEF S, n
<1>8. queue = [j \in 1..n |-> decisionToOrder(ds[f[j]], quote)]
  BY <1>4, <1>6
<1>9. \A j \in 1..n : f[j] \in S
  BY <1>6
<1>10. queue \in [1..n -> OrderSet]
  BY <1>7, <1>8, <1>9
<1>11. queue \in Seq(OrderSet) /\ DOMAIN queue = 1..n
  BY <1>6, <1>10
<1>12. quote # 0 => \A j \in DOMAIN queue : queue[j].price = quote
  BY <1>7, <1>8, <1>9, <1>11
<1> QED BY <1>11, <1>12

(* The threshold strategy orders at the price of the step.                 *)
LEMMA ThresholdTyped ==
  ASSUME NEW last \in Quotes, NEW px \in Quotes
  PROVE  /\ ThresholdOrders(last, px) \in Seq(OrderSet)
         /\ \A j \in DOMAIN ThresholdOrders(last, px) : ThresholdOrders(last, px)[j].price = px
<1> DEFINE bid == [buy |-> TRUE, reduce |-> FALSE, size |-> LotSz, price |-> px]
           ask == [buy |-> FALSE, reduce |-> FALSE, size |-> LotSz, price |-> px]
           q == ThresholdOrders(last, px)
           up == (px - last) * 100 >= ThresholdP * last
           down == (px - last) * 100 <= -(ThresholdP * last)
<1>1. px \in Nat /\ LotSz \in Nat
  BY QuoteTypes, BacktestAssumption
<1>2. bid \in OrderSet /\ ask \in OrderSet /\ bid.price = px /\ ask.price = px
  BY <1>1 DEF OrderSet
<1>3. q = CASE last = 0 -> <<>>
            [] last # 0 /\ up -> <<bid>>
            [] last # 0 /\ down -> <<ask>>
            [] OTHER -> <<>>
  BY DEF ThresholdOrders
<1> HIDE DEF bid, ask, q, up, down
<1>4. q = <<>> \/ q = <<bid>> \/ q = <<ask>>
  BY <1>3
<1>5. \A o \in OrderSet : <<o>> \in Seq(OrderSet) /\ \A j \in DOMAIN <<o>> : <<o>>[j] = o
  OBVIOUS
<1>6. <<>> \in Seq(OrderSet) /\ DOMAIN <<>> = {}
  OBVIOUS
<1>7. q \in Seq(OrderSet) /\ \A j \in DOMAIN q : q[j].price = px
  <2>1. CASE q = <<>>
    BY <1>6, <2>1
  <2>2. CASE q = <<bid>>
    <3> DEFINE o == bid
    <3>1. o \in OrderSet /\ o.price = px /\ q = <<o>>
      BY <1>2, <2>2
    <3> HIDE DEF o
    <3> QED BY <1>5, <3>1
  <2>3. CASE q = <<ask>>
    <3> DEFINE o == ask
    <3>1. o \in OrderSet /\ o.price = px /\ q = <<o>>
      BY <1>2, <2>3
    <3> HIDE DEF o
    <3> QED BY <1>5, <3>1
  <2> QED BY <1>4, <2>1, <2>2, <2>3
<1> QED BY <1>7 DEF q

(* A run begins with nothing in either book.                               *)
LEMMA BacktestStarts == BacktestInit => BacktestInv
<1> SUFFICES ASSUME BacktestInit PROVE BacktestInv
  OBVIOUS
<1> DEFINE new == Listed(NewAccount, Replayed)
           pf == [pos |-> 0, avg |-> 0, realized |-> 0]
<1>1. PICK strategy \in {"threshold", "journal"} :
        bt = [strategy |-> strategy, st |-> "feeding", left |-> MaxSteps, last |-> 0, px |-> 0, queue |-> <<>>,
              pf |-> pf, sim |-> new, odd |-> FALSE]
  BY DEF BacktestInit
<1>2. NewAccount \in Accounts /\ Replayed \in Markets /\ InitialCash \in Int
  BY SimAssumption, BacktestAssumption DEF NewAccount, Accounts, PositionSet, Flat
<1>3. {d \in Markets : NewAccount.asset[d] # 0} = {}
  BY DEF NewAccount
<1>4. 1 + Cardinality({d \in Markets : NewAccount.asset[d] # 0}) = 1
  BY <1>3, FS_EmptySet
<1>5. new = [NewAccount EXCEPT !.asset[Replayed] = 1]
  <2>1. NewAccount.asset[Replayed] = 0
    BY <1>2 DEF NewAccount
  <2> QED BY <1>4, <2>1 DEF Listed
<1>6. new \in Accounts /\ new.pos = NewAccount.pos /\ new.cash = NewAccount.cash /\ new.fees = NewAccount.fees
  <2>1. ASSUME NEW a \in Accounts, NEW c \in Markets
        PROVE  LET b == [a EXCEPT !.asset[c] = 1]
               IN  b \in Accounts /\ b.pos = a.pos /\ b.cash = a.cash /\ b.fees = a.fees
    <3> DEFINE n == [a.asset EXCEPT ![c] = 1]
    <3>1. n \in [Markets -> Int]
      BY DEF Accounts
    <3>2. [a EXCEPT !.asset[c] = 1] = [a EXCEPT !.asset = n]
      OBVIOUS
    <3> HIDE DEF n
    <3> QED BY <3>1, <3>2 DEF Accounts
  <2> HIDE DEF new
  <2> QED BY <1>2, <1>5, <2>1
<1>7. new.pos[Replayed] = [qty |-> 0, entry |-> 0] /\ new.cash = InitialCash /\ new.fees = 0
  <2> HIDE DEF new
  <2> QED BY <1>2, <1>6 DEF NewAccount, Flat
<1>8. pf \in Portfolios
  BY DEF Portfolios
<1>9. pf.pos = 0 /\ pf.avg = 0 /\ pf.realized = 0
  OBVIOUS
<1>10. MaxSteps \in Nat /\ 0 \in Quotes /\ <<>> \in Seq(OrderSet)
  BY BacktestAssumption DEF Quotes
<1> HIDE DEF new, pf
<1>11. BacktestShape
  BY <1>1, <1>6, <1>8, <1>10 DEF BacktestShape
<1>12. StepPrice
  BY <1>1 DEF StepPrice
<1>13. BooksAgree
  <2>1. bt.sim = new /\ bt.pf = pf
    BY <1>1
  <2> QED BY <1>2, <1>7, <1>9, <2>1 DEF BooksAgree
<1> QED BY <1>11, <1>12, <1>13 DEF BacktestInv

(* A new step books nothing.                                               *)
LEMMA StepAgrees ==
  ASSUME BacktestInv, NEW px \in Quotes, NEW queue \in Seq(OrderSet), Step(px, queue),
         px # 0 => \A j \in DOMAIN queue : queue[j].price = px
  PROVE  BacktestInv'
<1>1. /\ bt.left \in Nat /\ bt.left > 0 /\ bt.st = "feeding" /\ BacktestShape
      /\ bt' = [bt EXCEPT !.left = @ - 1, !.st = "ordering", !.px = px, !.last = px, !.queue = queue]
  BY DEF BacktestInv, BacktestShape, Step
<1>2. bt.left - 1 \in Nat
  BY <1>1
<1>3. BacktestShape'
  BY <1>1, <1>2 DEF BacktestShape
<1>4. bt'.px = px /\ bt'.queue = queue /\ bt'.sim = bt.sim /\ bt'.pf = bt.pf /\ bt'.odd = bt.odd /\ bt.st # "failed"
  BY <1>1 DEF BacktestShape
<1>5. StepPrice'
  BY <1>4 DEF StepPrice
<1>6. BooksAgree'
  BY <1>4 DEF BacktestInv, BooksAgree
<1> QED BY <1>3, <1>5, <1>6 DEF BacktestInv

(* An order that was filled in full moves both books alike; one that was   *)
(* refused ends the run, and one that was cut short is odd.                *)
LEMMA SendAgrees == BacktestInv /\ SendOrder => BacktestInv'
<1> SUFFICES ASSUME BacktestInv, SendOrder PROVE BacktestInv'
  OBVIOUS
<1> DEFINE o == Head(bt.queue)
           r == executeOrder(bt.sim, Replayed, o)
           ok == o.price > 0 /\ r.ok
           pf == apply(bt.pf, o.buy, bt.px, o.size)
           sim == IF ok THEN r.acct ELSE bt.sim
           odd == bt.odd \/ Odd(o)
           st == IF ok THEN bt.st ELSE "failed"
<1>1. /\ bt.st = "ordering" /\ bt.queue # <<>> /\ BacktestShape /\ StepPrice /\ BooksAgree
      /\ bt' = [bt EXCEPT !.pf = pf, !.sim = sim, !.st = st, !.queue = Tail(bt.queue), !.odd = odd]
  BY DEF BacktestInv, SendOrder
<1>2. /\ bt.queue \in Seq(OrderSet) /\ bt.pf \in Portfolios /\ bt.sim \in Accounts /\ bt.px \in Nat
      /\ Replayed \in Markets /\ bt.odd \in BOOLEAN
  BY <1>1, QuoteTypes, BacktestAssumption DEF BacktestShape
<1>3. /\ o \in OrderSet /\ Tail(bt.queue) \in Seq(OrderSet) /\ 1 \in DOMAIN bt.queue /\ o = bt.queue[1]
      /\ \A j \in DOMAIN Tail(bt.queue) : j + 1 \in DOMAIN bt.queue /\ Tail(bt.queue)[j] = bt.queue[j + 1]
  <2> DEFINE q == bt.queue
  <2>1. q \in Seq(OrderSet) /\ q # <<>>
    BY <1>1, <1>2
  <2> HIDE DEF q
  <2>2. /\ Head(q) \in OrderSet /\ Tail(q) \in Seq(OrderSet) /\ 1 \in DOMAIN q /\ Head(q) = q[1]
        /\ \A j \in DOMAIN Tail(q) : j + 1 \in DOMAIN q /\ Tail(q)[j] = q[j + 1]
    BY <2>1
  <2> QED BY <2>2 DEF q
<1> HIDE DEF o
<1>4. o.buy \in BOOLEAN /\ o.size \in Nat /\ o.price \in Nat
  BY <1>3 DEF OrderSet
<1>5. pf \in Portfolios
  <2>1. \A f \in Portfolios, buy \in BOOLEAN, px, size \in Nat : apply(f, buy, px, size) \in Portfolios
    BY ApplyType
  <2> QED BY <1>2, <1>4, <2>1, Zenon
<1>6. ok => r.acct \in Accounts
  <2>1. bt.sim.pos[Replayed] \in PositionSet
    BY <1>2 DEF Accounts
  <2>2. FillSize(bt.sim.pos[Replayed], o) \in Int
    <3>1. \A p \in PositionSet : FillSize(p, o) \in Int
      BY <1>3, FillSizes
    <3> QED BY <2>1, <3>1
  <2>3. \A a \in Accounts, c \in Markets : FillSize(a.pos[c], o) \in Int /\ executeOrder(a, c, o).ok => executeOrder(a, c, o).acct \in Accounts
    BY <1>3, Accepted
  <2> QED BY <1>2, <2>2, <2>3, Zenon
<1>7. sim \in Accounts
  BY <1>2, <1>6
<1>8. st \in {"ordering", "failed"}
  BY <1>1
<1>9. odd \in BOOLEAN
  BY <1>2 DEF Odd, OrderSet
<1>10. /\ ok => o.price # 0 /\ r.ok
       /\ ok => sim = r.acct
       /\ ~ok => st = "failed"
  BY <1>4
<1>11. ~odd => ~bt.odd /\ bt.px # 0 /\ ~(o.reduce /\ AbsInt(FillSize(bt.sim.pos[Replayed], o)) # o.size)
  BY DEF Odd
<1>12. BooksAgree'
  <2> SUFFICES ASSUME bt'.st # "failed", ~bt'.odd
               PROVE  /\ bt'.sim.pos[Replayed] = [qty |-> bt'.pf.pos, entry |-> bt'.pf.avg]
                      /\ bt'.sim.cash + bt'.sim.fees = InitialCash + bt'.pf.realized
    BY DEF BooksAgree
  <2>1. bt'.st = st /\ bt'.odd = odd /\ bt'.sim = sim /\ bt'.pf = pf
    <3> HIDE DEF st, odd, sim, pf
    <3> QED BY <1>1 DEF BacktestShape
  <2>2. st # "failed" /\ ~odd
    BY <2>1
  <2>3. ok /\ ~bt.odd /\ bt.px # 0 /\ ~(o.reduce /\ AbsInt(FillSize(bt.sim.pos[Replayed], o)) # o.size)
    BY <1>10, <1>11, <2>2
  <2>4. /\ bt.sim.pos[Replayed] = [qty |-> bt.pf.pos, entry |-> bt.pf.avg]
        /\ bt.sim.cash + bt.sim.fees = InitialCash + bt.pf.realized
    BY <1>1, <2>3 DEF BooksAgree
  <2>5. o.price = bt.px
    BY <1>1, <1>3, <2>3 DEF StepPrice
  <2>6. pf = apply(bt.pf, o.buy, o.price, o.size)
    BY <2>5
  <2>7. \A f \in Portfolios, a \in Accounts, c \in Markets :
          /\ o.price # 0 /\ a.pos[c] = [qty |-> f.pos, entry |-> f.avg] /\ a.cash + a.fees = InitialCash + f.realized
          /\ executeOrder(a, c, o).ok /\ ~(o.reduce /\ AbsInt(FillSize(a.pos[c], o)) # o.size)
          => /\ executeOrder(a, c, o).acct.pos[c] = [qty |-> apply(f, o.buy, o.price, o.size).pos,
                                                     entry |-> apply(f, o.buy, o.price, o.size).avg]
             /\ executeOrder(a, c, o).acct.cash + executeOrder(a, c, o).acct.fees
                  = InitialCash + apply(f, o.buy, o.price, o.size).realized
    BY <1>3, FillAgrees
  <2>8. o.price # 0 /\ executeOrder(bt.sim, Replayed, o).ok
    BY <1>10, <2>3
  <2> DEFINE b == executeOrder(bt.sim, Replayed, o).acct
             f == apply(bt.pf, o.buy, o.price, o.size)
  <2>9. b.pos[Replayed] = [qty |-> f.pos, entry |-> f.avg] /\ b.cash + b.fees = InitialCash + f.realized
    BY <1>2, <2>3, <2>4, <2>7, <2>8
  <2>10. bt'.sim = b /\ bt'.pf = f
    BY <1>10, <2>1, <2>3, <2>6
  <2> HIDE DEF b, f
  <2> QED BY <2>9, <2>10
<1> HIDE DEF pf, sim, st, odd
<1>13. BacktestShape'
  BY <1>1, <1>3, <1>5, <1>7, <1>8, <1>9 DEF BacktestShape
<1>14. StepPrice'
  <2>1. bt'.px = bt.px /\ bt'.queue = Tail(bt.queue)
    BY <1>1 DEF BacktestShape
  <2> QED BY <1>1, <1>3, <2>1 DEF StepPrice
<1> QED BY <1>12, <1>13, <1>14 DEF BacktestInv

(* The agreement of the two books, with what it rests on.                  *)
THEOREM BacktestInvariant == BacktestSpec => []BacktestInv
<1>1. BacktestInit => BacktestInv
  BY BacktestStarts
<1>2. BacktestInv /\ [BacktestNext]_bt => BacktestInv'
  <2> SUFFICES ASSUME BacktestInv, [BacktestNext]_bt PROVE BacktestInv'
    OBVIOUS
  <2>1. ASSUME NEW px \in Quotes, StepThreshold(px) PROVE BacktestInv'
    <3>1. bt.last \in Quotes
      BY DEF BacktestInv, BacktestShape
    <3>2. \A last \in Quotes : /\ ThresholdOrders(last, px) \in Seq(OrderSet)
                               /\ \A j \in DOMAIN ThresholdOrders(last, px) : ThresholdOrders(last, px)[j].price = px
      BY ThresholdTyped
    <3>3. PICK queue \in Seq(OrderSet) : Step(px, queue) /\ \A j \in DOMAIN queue : queue[j].price = px
      BY <2>1, <3>1, <3>2 DEF StepThreshold
    <3> QED BY <3>3, StepAgrees
  <2>2. ASSUME NEW px \in Quotes, NEW ds \in BoundedSeq(Decisions, MaxDecisions), StepJournal(px, ds) PROVE BacktestInv'
    <3>1. PICK queue \in JournalOrders(ds, px) : Step(px, queue)
      BY <2>2 DEF StepJournal
    <3>2. queue \in Seq(OrderSet) /\ (px # 0 => \A j \in DOMAIN queue : queue[j].price = px)
      BY JournalTyped
    <3> QED BY <3>1, <3>2, StepAgrees
  <2>3. CASE StepFails
    <3>1. bt' = [bt EXCEPT !.st = "failed"] /\ BacktestShape
      BY <2>3 DEF StepFails, BacktestInv
    <3>2. BacktestShape'
      BY <3>1 DEF BacktestShape
    <3>3. bt'.st = "failed" /\ bt'.px = bt.px /\ bt'.queue = bt.queue
      BY <3>1 DEF BacktestShape
    <3> QED BY <3>2, <3>3 DEF BacktestInv, StepPrice, BooksAgree
  <2>4. CASE SendOrder
    BY <2>4, SendAgrees
  <2>5. CASE EndStep
    <3> DEFINE st == IF bt.left = 0 THEN "done" ELSE "feeding"
    <3>1. bt' = [bt EXCEPT !.st = st] /\ BacktestShape /\ bt.st = "ordering" /\ st \in {"done", "feeding"}
      BY <2>5 DEF EndStep, BacktestInv
    <3> HIDE DEF st
    <3>2. BacktestShape'
      BY <3>1 DEF BacktestShape
    <3>3. bt'.px = bt.px /\ bt'.queue = bt.queue /\ bt'.pf = bt.pf /\ bt'.sim = bt.sim /\ bt'.odd = bt.odd
      BY <3>1 DEF BacktestShape
    <3> QED BY <3>1, <3>2, <3>3 DEF BacktestInv, StepPrice, BooksAgree
  <2>6. CASE UNCHANGED bt
    BY <2>6 DEF BacktestInv, BacktestShape, StepPrice, BooksAgree
  <2> QED BY <2>1, <2>2, <2>3, <2>4, <2>5, <2>6 DEF BacktestNext
<1> QED BY <1>1, <1>2, PTL DEF BacktestSpec

(* A report tells what the exchange of the run did: for any prices,        *)
(* stakes, threshold and journal, while no order was cut short or without  *)
(* a price, the portfolio of pkg/backtest and the simulated exchange hold  *)
(* the same position, average price and realised profit, order by order.   *)
THEOREM ReportsAgree == BacktestSpec => []BooksAgree
<1>1. BacktestInv => BooksAgree
  BY DEF BacktestInv
<1> QED BY <1>1, BacktestInvariant, PTL

-------------------------------------------------------------------------------
(* Account totals.                                                         *)

SnapshotSet == [model : Models, id : Nat, marker : 0..MaxMarker]

PlanSet == [model : Models, at : 1..MaxPlans, opens : BOOLEAN]

TotalSet == [model : Models, kind : {"snapshot", "synthetic"}, marker : 0..MaxMarker, held : BOOLEAN, plan : Nat]

TotalsShape ==
  /\ snapshots \subseteq SnapshotSet /\ IsFiniteSet(snapshots)
  /\ plans \subseteq PlanSet /\ IsFiniteSet(plans)
  /\ open \subseteq Models
  /\ poll \in [st : {"idle", "positions", "plans", "answered"}, marker : 0..MaxMarker, rows : SUBSET SnapshotSet,
               held : SUBSET Models, had : SUBSET Models, stayed : SUBSET Models, known : SUBSET PlanSet,
               totals : SUBSET TotalSet, polls : Nat]

(* What the queries of a poll have seen, against what is there now.        *)
PollCurrent ==
  /\ poll.known \subseteq plans
  /\ poll.st # "idle" /\ poll.marker = 0 => poll.had = {r.model : r \in poll.rows}
  /\ poll.st = "positions" => poll.stayed \subseteq open
  /\ poll.st = "plans" => poll.stayed \subseteq poll.held

TotalsInv == TotalsShape /\ PollCurrent /\ TotalsComplete

(* A bounded set of numbers has a greatest one.                            *)
LEMMA MaxExists ==
  ASSUME NEW n \in Nat, NEW S, S \subseteq 0..n, S # {}
  PROVE  Max(S) \in S /\ \A y \in S : y <= Max(S)
<1> DEFINE T == {n - x : x \in S}
           R == OpToRel(<, Nat)
<1>1. T \subseteq Nat /\ T # {}
  <2>1. \A x \in S : n - x \in Nat
    <3>1. \A x \in 0..n : n - x \in Nat
      OBVIOUS
    <3> QED BY <3>1
  <2> QED BY <2>1
<1>2. \A x, y \in Nat : x < y => <<x, y>> \in R
  BY DEF OpToRel
<1>3. IsWellFoundedOn(R, Nat)
  BY NatLessThanWellFounded
<1> HIDE DEF R, T
<1>4. PICK x \in T : \A y \in T : ~(<<y, x>> \in R)
  BY <1>1, <1>3, WFMin
<1>5. \A y \in T : x <= y
  <2>1. x \in Nat /\ \A y \in T : y \in Nat /\ ~(y < x)
    BY <1>1, <1>2, <1>4
  <2> QED BY <2>1
<1>6. PICK z \in S : x = n - z
  BY DEF T
<1>7. \A y \in S : z >= y
  BY <1>5, <1>6 DEF T
<1>8. Max(S) \in S /\ \A y \in S : Max(S) >= y
  BY <1>7 DEF Max
<1> QED BY <1>8

(* Open p of model m is among the PlanCap newest commands of m.            *)
InWindow(p, m) ==
  p.model = m /\ p.opens /\ Cardinality({q \in plans : q.model = m /\ q.at > p.at}) < PlanCap

(* A plan n of model m is that of an open, or none.                        *)
PlanFits(m, n) ==
  /\ n \in Nat
  /\ n > 0 => \E p \in plans : p.model = m /\ p.opens /\ p.at = n

(* The newest plan read is newer than any other in the window.             *)
LEMMA LatestPlan ==
  ASSUME plans \subseteq PlanSet, NEW m
  PROVE  PlanFits(m, latestPlan(m)) /\ \A p \in plans : InWindow(p, m) => p.at <= latestPlan(m)
<1> DEFINE S == {0} \cup {p.at : p \in {q \in queryDecisionPlans(m) : q.opens}}
<1>1. MaxPlans \in Nat
  BY ReadAssumption
<1>2. queryDecisionPlans(m) \subseteq plans /\ \A p \in queryDecisionPlans(m) : p.model = m /\ p.at \in 1..MaxPlans
  BY DEF queryDecisionPlans, PlanSet
<1>3. S \subseteq 0..MaxPlans /\ S # {}
  BY <1>1, <1>2
<1>4. \A p \in plans : InWindow(p, m) => p.at \in S
  BY DEF InWindow, queryDecisionPlans
<1>5. \A n \in S : n > 0 => \E p \in plans : p.model = m /\ p.opens /\ p.at = n
  BY <1>2
<1>6. latestPlan(m) = Max(S)
  BY DEF latestPlan
<1> HIDE DEF S
<1>7. Max(S) \in S /\ \A y \in S : y <= Max(S)
  BY <1>1, <1>3, MaxExists
<1>8. Max(S) \in Nat
  <2>1. Max(S) \in 0..MaxPlans
    BY <1>3, <1>7
  <2> QED BY <1>1, <2>1
<1> QED BY <1>4, <1>5, <1>6, <1>7, <1>8 DEF PlanFits

(* Nothing is stored and no poll is under way.                             *)
LEMMA TotalsStarts == ReadInit => TotalsInv
<1> SUFFICES ASSUME ReadInit PROVE TotalsInv
  OBVIOUS
<1>1. snapshots = {} /\ plans = {} /\ open = {} /\ poll = IdlePoll
  BY DEF ReadInit
<1>2. TotalsShape
  BY <1>1, FS_EmptySet, ReadAssumption DEF TotalsShape, IdlePoll
<1>3. PollCurrent /\ TotalsComplete
  BY <1>1 DEF PollCurrent, TotalsComplete, IdlePoll
<1> QED BY <1>2, <1>3 DEF TotalsInv

(* The answer to a full pull.                                              *)
LEMMA AnswerComplete ==
  ASSUME TotalsInv, poll.st = "plans"
  PROVE  /\ accountTotals \subseteq TotalSet
         /\ poll.marker = 0 =>
              /\ poll.had \cup poll.stayed \subseteq {t.model : t \in accountTotals}
              /\ \A t \in accountTotals :
                   /\ t.kind = "synthetic" => t.held /\ t.model \notin poll.had
                   /\ PlanFits(t.model, t.plan)
                   /\ t.held => \A p \in poll.known : InWindow(p, t.model) => p.at <= t.plan
<1>1. /\ plans \subseteq PlanSet /\ poll.rows \subseteq SnapshotSet /\ poll.held \subseteq Models
      /\ poll.known \subseteq plans /\ poll.stayed \subseteq poll.held
      /\ poll.marker = 0 => poll.had = {r.model : r \in poll.rows}
      /\ poll.marker \in 0..MaxMarker /\ MaxMarker \in Nat
  BY ReadAssumption DEF TotalsInv, TotalsShape, PollCurrent
<1>2. ASSUME NEW m \in Models, NEW kind \in {"snapshot", "synthetic"}, NEW marker \in 0..MaxMarker
      PROVE  /\ Total(m, kind, marker) \in TotalSet
             /\ Total(m, kind, marker).model = m /\ Total(m, kind, marker).kind = kind
             /\ (Total(m, kind, marker).held <=> m \in poll.held)
             /\ PlanFits(m, Total(m, kind, marker).plan)
             /\ Total(m, kind, marker).held => \A p \in plans : InWindow(p, m) => p.at <= Total(m, kind, marker).plan
  <2> DEFINE held == m \in poll.held
             plan == IF held THEN latestPlan(m) ELSE 0
             t == Total(m, kind, marker)
  <2>1. PlanFits(m, latestPlan(m)) /\ \A p \in plans : InWindow(p, m) => p.at <= latestPlan(m)
    BY <1>1, LatestPlan
  <2>2. t = [model |-> m, kind |-> kind, marker |-> marker, held |-> held, plan |-> plan]
    BY DEF Total
  <2>3. plan \in Nat /\ PlanFits(m, plan) /\ (held => \A p \in plans : InWindow(p, m) => p.at <= plan) /\ held \in BOOLEAN
    BY <2>1 DEF PlanFits
  <2> HIDE DEF plan, held, t
  <2>4. t \in TotalSet /\ t.model = m /\ t.kind = kind /\ t.held = held /\ t.plan = plan
    BY <2>2, <2>3 DEF TotalSet
  <2> QED BY <2>3, <2>4 DEF t, held
<1> DEFINE stored == {Total(r.model, "snapshot", r.marker) : r \in poll.rows}
           made == {Total(m, "synthetic", 0) : m \in poll.held \ {r.model : r \in poll.rows}}
<1>3. 0 \in 0..MaxMarker /\ \A r \in poll.rows : r.model \in Models /\ r.marker \in 0..MaxMarker
  BY <1>1 DEF SnapshotSet
<1>4. accountTotals \subseteq stored \cup made /\ (poll.marker = 0 => accountTotals = stored \cup made)
  <2>1. poll.marker = 0 => ~(poll.marker > 0)
    BY <1>1
  <2> QED BY <2>1 DEF accountTotals
<1>5. ASSUME NEW t \in stored \cup made
      PROVE  /\ t \in TotalSet
             /\ t.kind = "synthetic" => t.held /\ t.model \notin {r.model : r \in poll.rows}
             /\ PlanFits(t.model, t.plan)
             /\ t.held => \A p \in plans : InWindow(p, t.model) => p.at <= t.plan
  <2>1. CASE t \in stored
    <3>1. PICK r \in poll.rows : t = Total(r.model, "snapshot", r.marker)
      BY <2>1
    <3> DEFINE m == r.model
               k == r.marker
    <3>2. m \in Models /\ k \in 0..MaxMarker /\ t = Total(m, "snapshot", k)
      BY <1>3, <3>1
    <3> HIDE DEF m, k
    <3> QED BY <1>2, <3>2
  <2>2. CASE t \in made
    <3>1. PICK m \in poll.held \ {r.model : r \in poll.rows} : t = Total(m, "synthetic", 0)
      BY <2>2
    <3>2. m \in Models
      BY <1>1
    <3> QED BY <1>2, <1>3, <3>1, <3>2
  <2> QED BY <2>1, <2>2
<1>6. ASSUME poll.marker = 0, NEW m \in poll.had \cup poll.stayed
      PROVE  \E t \in stored \cup made : t.model = m
  <2>1. CASE m \in {r.model : r \in poll.rows}
    <3>1. PICK r \in poll.rows : r.model = m
      BY <2>1
    <3>2. Total(m, "snapshot", r.marker) \in stored
      BY <3>1
    <3>3. m \in Models /\ r.marker \in 0..MaxMarker
      BY <1>3, <3>1
    <3>4. Total(m, "snapshot", r.marker).model = m
      <4> DEFINE k == r.marker
      <4>1. k \in 0..MaxMarker
        BY <3>3
      <4> HIDE DEF k
      <4>2. Total(m, "snapshot", k).model = m
        BY <1>2, <3>3, <4>1
      <4> QED BY <4>2 DEF k
    <3> HIDE DEF stored, made
    <3> QED BY <3>2, <3>4
  <2>2. CASE m \notin {r.model : r \in poll.rows}
    <3>1. m \in poll.held \ {r.model : r \in poll.rows} /\ m \in Models
      BY <1>1, <1>6, <2>2
    <3>2. Total(m, "synthetic", 0) \in made
      BY <3>1
    <3>3. Total(m, "synthetic", 0).model = m
      BY <1>2, <1>3, <3>1
    <3> HIDE DEF stored, made
    <3> QED BY <3>2, <3>3
  <2> QED BY <2>1, <2>2
<1> HIDE DEF stored, made
<1>7. accountTotals \subseteq TotalSet
  BY <1>4, <1>5
<1>8. ASSUME poll.marker = 0 PROVE poll.had \cup poll.stayed \subseteq {t.model : t \in accountTotals}
  BY <1>4, <1>6, <1>8
<1>9. ASSUME poll.marker = 0, NEW t \in accountTotals
      PROVE  /\ t.kind = "synthetic" => t.held /\ t.model \notin poll.had
             /\ PlanFits(t.model, t.plan)
             /\ t.held => \A p \in poll.known : InWindow(p, t.model) => p.at <= t.plan
  BY <1>1, <1>4, <1>5, <1>9
<1> QED BY <1>7, <1>8, <1>9

(* The steps of a poll.                                                    *)
LEMMA PollSteps ==
  ASSUME TotalsInv, queryAccountSnapshots \/ queryOpenPositions \/ AccountTotals \/ NextPoll \/ QueryFails
  PROVE  TotalsInv'
<1>1. UNCHANGED <<snapshots, open, plans>> /\ TotalsShape /\ PollCurrent /\ TotalsComplete
  BY DEF TotalsInv, queryAccountSnapshots, queryOpenPositions, AccountTotals, NextPoll, QueryFails
<1>2. CASE queryAccountSnapshots
  <2> DEFINE rows == {r \in snapshots : poll.marker > 0 => r.marker > poll.marker}
             had == {r.model : r \in snapshots}
  <2>1. poll' = [poll EXCEPT !.st = "positions", !.polls = poll.polls + 1, !.totals = {}, !.rows = rows,
                             !.had = had, !.stayed = open, !.known = plans]
    BY <1>2 DEF queryAccountSnapshots
  <2>2. rows \subseteq SnapshotSet /\ had \subseteq Models /\ open \subseteq Models /\ plans \subseteq PlanSet
    BY <1>1 DEF TotalsShape, SnapshotSet
  <2>3. poll.polls + 1 \in Nat /\ poll.marker \in 0..MaxMarker
    BY <1>1 DEF TotalsShape
  <2>4. poll.marker = 0 => rows = snapshots
    <3>1. poll.marker = 0 => ~(poll.marker > 0)
      BY <2>3
    <3> QED BY <3>1
  <2>5. poll.marker = 0 => had = {r.model : r \in rows}
    BY <2>4
  <2> HIDE DEF rows, had
  <2>6. TotalsShape'
    BY <1>1, <2>1, <2>2, <2>3 DEF TotalsShape
  <2>7. /\ poll'.st = "positions" /\ poll'.rows = rows /\ poll'.had = had /\ poll'.stayed = open
        /\ poll'.known = plans /\ poll'.marker = poll.marker
    BY <1>1, <2>1 DEF TotalsShape
  <2>8. PollCurrent'
    BY <1>1, <2>5, <2>7 DEF PollCurrent
  <2>9. TotalsComplete'
    BY <2>7 DEF TotalsComplete
  <2> QED BY <2>6, <2>8, <2>9 DEF TotalsInv
<1>3. CASE queryOpenPositions
  <2>1. poll' = [poll EXCEPT !.st = "plans", !.held = open] /\ poll.st = "positions"
    BY <1>3 DEF queryOpenPositions
  <2>2. TotalsShape'
    BY <1>1, <2>1 DEF TotalsShape
  <2>3. /\ poll'.st = "plans" /\ poll'.held = open /\ poll'.rows = poll.rows /\ poll'.had = poll.had
        /\ poll'.stayed = poll.stayed /\ poll'.known = poll.known /\ poll'.marker = poll.marker
    BY <1>1, <2>1 DEF TotalsShape
  <2>4. PollCurrent' /\ TotalsComplete'
    BY <1>1, <2>1, <2>3 DEF PollCurrent, TotalsComplete
  <2> QED BY <2>2, <2>4 DEF TotalsInv
<1>4. CASE AccountTotals
  <2> DEFINE all == accountTotals
  <2>1. poll' = [poll EXCEPT !.st = "answered", !.totals = all] /\ poll.st = "plans"
    BY <1>4 DEF AccountTotals
  <2>2. /\ all \subseteq TotalSet
        /\ poll.marker = 0 =>
             /\ poll.had \cup poll.stayed \subseteq {t.model : t \in all}
             /\ \A t \in all : /\ t.kind = "synthetic" => t.held /\ t.model \notin poll.had
                               /\ PlanFits(t.model, t.plan)
                               /\ t.held => \A p \in poll.known : InWindow(p, t.model) => p.at <= t.plan
    BY <2>1, AnswerComplete
  <2> HIDE DEF all
  <2>3. TotalsShape'
    BY <1>1, <2>1, <2>2 DEF TotalsShape
  <2>4. /\ poll'.st = "answered" /\ poll'.totals = all /\ poll'.rows = poll.rows /\ poll'.had = poll.had
        /\ poll'.stayed = poll.stayed /\ poll'.known = poll.known /\ poll'.marker = poll.marker
    BY <1>1, <2>1 DEF TotalsShape
  <2>5. PollCurrent'
    BY <1>1, <2>1, <2>4 DEF PollCurrent
  <2>6. TotalsComplete'
    <3>1. plans' = plans
      BY <1>1
    <3> QED BY <2>2, <2>4, <3>1 DEF TotalsComplete, PlanFits, InWindow
  <2> QED BY <2>3, <2>5, <2>6 DEF TotalsInv
<1>5. ASSUME NEW marker \in 0..MaxMarker, poll' = [IdlePoll EXCEPT !.marker = marker, !.polls = poll.polls]
      PROVE  TotalsInv'
  <2>1. poll.polls \in Nat
    BY <1>1 DEF TotalsShape
  <2>2. TotalsShape'
    BY <1>1, <1>5, <2>1 DEF TotalsShape, IdlePoll
  <2>3. poll'.st = "idle" /\ poll'.known = {}
    BY <1>5 DEF IdlePoll
  <2>4. PollCurrent' /\ TotalsComplete'
    BY <2>3 DEF PollCurrent, TotalsComplete
  <2> QED BY <2>2, <2>4 DEF TotalsInv
<1>6. CASE NextPoll
  <2> DEFINE S == {0} \cup {t.marker : t \in poll.totals}
  <2>1. poll' = [IdlePoll EXCEPT !.marker = Max(S), !.polls = poll.polls]
    BY <1>6 DEF NextPoll
  <2>2. MaxMarker \in Nat
    BY ReadAssumption
  <2>3. S \subseteq 0..MaxMarker /\ S # {}
    BY <1>1, <2>2 DEF TotalsShape, TotalSet
  <2> HIDE DEF S
  <2>4. Max(S) \in S
    BY <2>2, <2>3, MaxExists
  <2> QED BY <1>5, <2>1, <2>3, <2>4
<1>7. CASE QueryFails
  <2>1. poll' = [IdlePoll EXCEPT !.marker = poll.marker, !.polls = poll.polls]
    BY <1>7 DEF QueryFails
  <2>2. poll.marker \in 0..MaxMarker
    BY <1>1 DEF TotalsShape
  <2> QED BY <1>5, <2>1, <2>2
<1> QED BY <1>2, <1>3, <1>4, <1>6, <1>7

(* What the trading process writes between the queries.                    *)
LEMMA WritesBetween ==
  ASSUME TotalsInv, NEW m \in Models,
         \/ \E marker \in 0..MaxMarker : RecordAccountSnapshot(m, marker)
         \/ PositionOpens(m) \/ PositionCloses(m)
         \/ \E at \in 1..MaxPlans, opens \in BOOLEAN : DecisionCompletes(m, at, opens)
  PROVE  TotalsInv'
<1>1. TotalsShape /\ PollCurrent /\ TotalsComplete
  BY DEF TotalsInv
<1>2. ASSUME NEW marker \in 0..MaxMarker, RecordAccountSnapshot(m, marker) PROVE TotalsInv'
  <2> DEFINE n == Cardinality(snapshots) + 1
             r == [model |-> m, id |-> n, marker |-> marker]
  <2>1. n \in Nat
    BY <1>1, FS_CardinalityType DEF TotalsShape
  <2>2. snapshots' = snapshots \cup {r} /\ UNCHANGED <<open, plans, poll>>
    BY <1>2 DEF RecordAccountSnapshot
  <2> HIDE DEF n
  <2>3. r \in SnapshotSet
    BY <2>1 DEF SnapshotSet
  <2> HIDE DEF r
  <2>4. snapshots' \subseteq SnapshotSet /\ IsFiniteSet(snapshots')
    BY <1>1, <2>2, <2>3, FS_AddElement DEF TotalsShape
  <2> QED BY <1>1, <2>2, <2>4 DEF TotalsInv, TotalsShape, PollCurrent, TotalsComplete
<1>3. CASE PositionOpens(m)
  <2>1. open' = open \cup {m} /\ UNCHANGED <<snapshots, plans, poll>>
    BY <1>3 DEF PositionOpens
  <2> QED BY <1>1, <2>1 DEF TotalsInv, TotalsShape, PollCurrent, TotalsComplete
<1>4. CASE PositionCloses(m)
  <2>1. open' = open \ {m} /\ poll' = [poll EXCEPT !.stayed = poll.stayed \ {m}] /\ UNCHANGED <<snapshots, plans>>
    BY <1>4 DEF PositionCloses
  <2>2. TotalsShape'
    BY <1>1, <2>1 DEF TotalsShape
  <2>3. /\ poll'.st = poll.st /\ poll'.held = poll.held /\ poll'.rows = poll.rows /\ poll'.had = poll.had
        /\ poll'.stayed = poll.stayed \ {m} /\ poll'.known = poll.known /\ poll'.marker = poll.marker
        /\ poll'.totals = poll.totals
    BY <1>1, <2>1 DEF TotalsShape
  <2>4. PollCurrent' /\ TotalsComplete'
    BY <1>1, <2>1, <2>3 DEF PollCurrent, TotalsComplete
  <2> QED BY <2>2, <2>4 DEF TotalsInv
<1>5. ASSUME NEW at \in 1..MaxPlans, NEW opens \in BOOLEAN, DecisionCompletes(m, at, opens) PROVE TotalsInv'
  <2> DEFINE c == [model |-> m, at |-> at, opens |-> opens]
  <2>1. plans' = plans \cup {c} /\ UNCHANGED <<snapshots, open, poll>>
    BY <1>5 DEF DecisionCompletes
  <2>2. c \in PlanSet
    BY <1>5 DEF PlanSet
  <2> HIDE DEF c
  <2>3. plans' \subseteq PlanSet /\ IsFiniteSet(plans')
    BY <1>1, <2>1, <2>2, FS_AddElement DEF TotalsShape
  <2>4. TotalsShape' /\ PollCurrent'
    BY <1>1, <2>1, <2>3 DEF TotalsShape, PollCurrent
  <2>5. ASSUME NEW k, NEW p, InWindow(p, k)' PROVE InWindow(p, k)
    <3> DEFINE Old == {q \in plans : q.model = k /\ q.at > p.at}
               New == {q \in plans' : q.model = k /\ q.at > p.at}
    <3>1. Old \subseteq New /\ New \subseteq plans'
      BY <2>1
    <3>2. p.model = k /\ p.opens /\ Cardinality(New) < PlanCap
      BY <2>5 DEF InWindow
    <3> HIDE DEF Old, New
    <3>3. IsFiniteSet(New)
      BY <2>3, <3>1, FS_Subset
    <3>4. Cardinality(Old) <= Cardinality(New) /\ Cardinality(Old) \in Nat /\ Cardinality(New) \in Nat
      BY <3>1, <3>3, FS_Subset, FS_CardinalityType
    <3>5. Cardinality(Old) < PlanCap
      BY <3>2, <3>4, ReadAssumption
    <3> QED BY <3>2, <3>5 DEF InWindow, Old
  <2>6. TotalsComplete'
    <3> SUFFICES ASSUME poll.st = "answered", poll.marker = 0
                 PROVE  /\ poll.had \cup poll.stayed \subseteq {t.model : t \in poll.totals}
                        /\ \A t \in poll.totals :
                             /\ t.kind = "synthetic" => t.held /\ t.model \notin poll.had
                             /\ t.plan > 0 => \E p \in plans' : p.model = t.model /\ p.opens /\ p.at = t.plan
                             /\ t.held => \A p \in poll.known : InWindow(p, t.model)' => p.at <= t.plan
      BY <2>1 DEF TotalsComplete, InWindow
    <3>1. /\ poll.had \cup poll.stayed \subseteq {t.model : t \in poll.totals}
          /\ \A t \in poll.totals :
               /\ t.kind = "synthetic" => t.held /\ t.model \notin poll.had
               /\ t.plan > 0 => \E p \in plans : p.model = t.model /\ p.opens /\ p.at = t.plan
               /\ t.held => \A p \in poll.known : InWindow(p, t.model) => p.at <= t.plan
      BY <1>1 DEF TotalsComplete, InWindow
    <3>2. ASSUME NEW t \in poll.totals, t.held, NEW p \in poll.known, InWindow(p, t.model)' PROVE p.at <= t.plan
      <4>1. PICK k : k = t.model
        OBVIOUS
      <4>2. InWindow(p, k)'
        BY <2>1, <3>2, <4>1 DEF InWindow
      <4>3. InWindow(p, t.model)
        BY <2>5, <4>1, <4>2
      <4> QED BY <3>1, <3>2, <4>3
    <3> QED BY <2>1, <3>1, <3>2
  <2> QED BY <2>4, <2>6 DEF TotalsInv
<1> QED BY <1>2, <1>3, <1>4, <1>5

(* The completeness of the totals, with what the queries of a poll have    *)
(* seen.                                                                   *)
THEOREM TotalsInvariant == TotalsSpec => []TotalsInv
<1>1. ReadInit => TotalsInv
  BY TotalsStarts
<1>2. TotalsInv /\ [TotalsNext]_readVars => TotalsInv'
  <2> SUFFICES ASSUME TotalsInv, [TotalsNext]_readVars PROVE TotalsInv'
    OBVIOUS
  <2>1. CASE TotalsNext
    <3>1. \/ \E m \in Models : \/ \E marker \in 0..MaxMarker : RecordAccountSnapshot(m, marker)
                               \/ PositionOpens(m) \/ PositionCloses(m)
                               \/ \E at \in 1..MaxPlans, opens \in BOOLEAN : DecisionCompletes(m, at, opens)
          \/ queryAccountSnapshots \/ queryOpenPositions \/ AccountTotals \/ NextPoll \/ QueryFails
      BY <2>1 DEF TotalsNext
    <3> QED BY <3>1, PollSteps, WritesBetween
  <2>2. CASE UNCHANGED readVars
    BY <2>2 DEF readVars, TotalsInv, TotalsShape, PollCurrent, TotalsComplete
  <2> QED BY <2>1, <2>2
<1> QED BY <1>1, <1>2, PTL DEF TotalsSpec

(* A full pull of the account totals is complete: for any traders,         *)
(* snapshots and decisions, whatever is written between its three queries, *)
(* it lists every trader that had a snapshot when it began or held a       *)
(* position throughout, makes up none that had a snapshot, and shows no    *)
(* exit plan but that of an open of the trader, the newest of those that   *)
(* had completed when it began: as long as that one is among the PlanCap   *)
(* newest commands of the trader.                                          *)
THEOREM TotalsStayComplete == TotalsSpec => []TotalsComplete
<1>1. TotalsInv => TotalsComplete
  BY DEF TotalsInv
<1> QED BY <1>1, TotalsInvariant, PTL

-------------------------------------------------------------------------------
(* Trades.                                                                 *)

(* A trade that is shown again as it was, from whatever is stored of it.   *)
LEMMA TradeShown ==
  ASSUME NEW side, NEW move \in Int, NEW entryFee \in Nat, NEW exitFee \in Nat, entryFee = 0 <=> exitFee = 0, NEW keep
  PROVE  LET t == tradeFromRow(StoredTrade(side, move, entryFee, exitFee, keep))
         IN  /\ t.entryFee + t.exitFee = t.total
             /\ t.gross - t.total = t.net
             /\ t.entryClosed + t.exitClosed = t.net
<1> DEFINE gross == IF side = "short" THEN -move ELSE move
           kept(group, n) == IF group \in keep THEN n ELSE 0
           row == StoredTrade(side, move, entryFee, exitFee, keep)
           t == tradeFromRow(row)
<1>1. /\ row.side = side /\ row.quantity = 1 /\ row.entry = 10 /\ row.exit = 10 + move
      /\ row.net = gross - entryFee - exitFee /\ row.gross \in {gross, 0} /\ row.total \in {entryFee + exitFee, 0}
      /\ \/ row.entryFee = entryFee /\ row.exitFee = exitFee /\ row.entryClosed = -entryFee /\ row.exitClosed = gross - exitFee
         \/ row.entryFee = 0 /\ row.exitFee = 0 /\ row.entryClosed = 0 /\ row.exitClosed = 0
  BY DEF StoredTrade
<1>2. gross \in Int /\ tradeGrossPnl(side, 1, 10, 10 + move) = gross
  BY DEF tradeGrossPnl
<1> DEFINE g == firstPositiveFloat(row.gross, tradeGrossPnl(row.side, row.quantity, row.entry, row.exit))
           all == firstPositiveFloat(row.total, firstPositiveFloat(g - row.net, row.entryFee + row.exitFee))
           in == firstPositiveFloat(row.entryFee, all \div 2)
           out == firstPositiveFloat(row.exitFee, all - in)
           inClosed == firstPositiveFloat(row.entryClosed, -in)
           outClosed == firstPositiveFloat(row.exitClosed, g - out)
<1>3. t.gross = g /\ t.net = row.net /\ t.total = all /\ t.entryFee = in /\ t.exitFee = out
      /\ t.entryClosed = inClosed /\ t.exitClosed = outClosed
  BY DEF tradeFromRow
<1> HIDE DEF row, t, gross
<1>4. g = gross
  BY <1>1, <1>2 DEF firstPositiveFloat
<1> HIDE DEF g
<1>5. all = entryFee + exitFee
  BY <1>1, <1>2, <1>4 DEF firstPositiveFloat
<1> HIDE DEF all
<1>6. (all \div 2) \in Int
  <2>1. all \in Int /\ 2 \in Nat \ {0}
    BY <1>5
  <2> QED BY <2>1, QuotientType
<1> DEFINE half == all \div 2
<1>7. half \in Int /\ in = firstPositiveFloat(row.entryFee, half) /\ (all = 0 => half = 0)
  BY <1>6
<1> HIDE DEF half, in
<1>8. in \in Int /\ in + out = all
  <2>1. CASE row.entryFee = entryFee /\ row.exitFee = exitFee
    BY <1>5, <1>7, <2>1 DEF firstPositiveFloat
  <2>2. CASE row.entryFee = 0 /\ row.exitFee = 0
    BY <1>5, <1>7, <2>2 DEF firstPositiveFloat
  <2> QED BY <1>1, <2>1, <2>2
<1>9. inClosed = -in /\ outClosed = g - out
  <2>1. CASE row.entryFee = entryFee /\ row.exitFee = exitFee /\ row.entryClosed = -entryFee /\ row.exitClosed = gross - exitFee
    <3>1. in = entryFee /\ out = exitFee
      BY <1>5, <1>7, <2>1 DEF firstPositiveFloat
    <3> HIDE DEF out
    <3> QED BY <1>2, <1>4, <2>1, <3>1 DEF firstPositiveFloat
  <2>2. CASE row.entryClosed = 0 /\ row.exitClosed = 0
    BY <2>2 DEF firstPositiveFloat
  <2> QED BY <1>1, <2>1, <2>2
<1> HIDE DEF out, inClosed, outClosed
<1>10. out \in Int
  BY <1>1, <1>5, <1>7, <1>8 DEF firstPositiveFloat, out
<1>11. /\ in + out = all /\ g - all = row.net /\ inClosed + outClosed = row.net
  BY <1>1, <1>2, <1>4, <1>5, <1>8, <1>9, <1>10
<1> QED BY <1>3, <1>11 DEF t, row

(* The trades of the API add up: for any price move and any commissions    *)
(* that both legs or none paid, whatever figures a stored row keeps, the   *)
(* trade that tradeFromRow rebuilds has legs that sum to its commission    *)
(* and its net profit, and a net that is its gross less the commission.    *)
THEOREM TradesAddUp == TradesSpec => []TradeAddsUp
<1>1. ReadInit => TradeAddsUp
  BY DEF ReadInit, TradeAddsUp
<1>2. TradeAddsUp /\ [TradesNext]_readVars => TradeAddsUp'
  <2> SUFFICES ASSUME TradeAddsUp, [TradesNext]_readVars PROVE TradeAddsUp'
    OBVIOUS
  <2>1. CASE TradesNext
    <3>1. PICK side \in {"long", "short"}, move \in -MaxMove..MaxMove, entryFee \in 0..MaxFee, exitFee \in 0..MaxFee,
               keep \in SUBSET {"gross", "total", "legs"} :
            /\ entryFee = 0 <=> exitFee = 0
            /\ ShowTrade(StoredTrade(side, move, entryFee, exitFee, keep))
      BY <2>1 DEF TradesNext
    <3>2. move \in Int /\ entryFee \in Nat /\ exitFee \in Nat
      BY ReadAssumption
    <3> DEFINE t == tradeFromRow(StoredTrade(side, move, entryFee, exitFee, keep))
    <3>3. t.entryFee + t.exitFee = t.total /\ t.gross - t.total = t.net /\ t.entryClosed + t.exitClosed = t.net
      BY <3>1, <3>2, TradeShown
    <3>4. shown' = t
      BY <3>1 DEF ShowTrade
    <3> HIDE DEF t
    <3> QED BY <3>3, <3>4 DEF TradeAddsUp
  <2>2. CASE UNCHANGED readVars
    BY <2>2 DEF readVars, TradeAddsUp
  <2> QED BY <2>1, <2>2
<1> QED BY <1>1, <1>2, PTL DEF TradesSpec

-------------------------------------------------------------------------------
(* Order and audit pages.                                                  *)

EventSet == [id : Nat, at : Nat, type : OrderTypes, coin : OrderCoins]

(* A finite set of events with an id each, as the audit table is.          *)
Rows(S) == S \subseteq EventSet /\ IsFiniteSet(S) /\ \A e, f \in S : e.id = f.id => e = f

Above(S, e) == {f \in S : Newer(f, e)}

(* Newest first is a strict order, total on rows with different ids.       *)
LEMMA NewerOrder ==
  /\ \A e \in EventSet : ~Newer(e, e)
  /\ \A e, f, g \in EventSet : Newer(e, f) /\ Newer(f, g) => Newer(e, g)
  /\ \A e, f \in EventSet : e.id # f.id => Newer(e, f) \/ Newer(f, e)
  BY DEF EventSet, Newer

(* The rank of an event is the number of newer ones.                       *)
LEMMA AboveFinite ==
  ASSUME NEW S, IsFiniteSet(S), NEW e
  PROVE  IsFiniteSet(Above(S, e)) /\ Rank(S, e) = Cardinality(Above(S, e)) /\ Rank(S, e) \in Nat
<1>1. Above(S, e) \in SUBSET S
  BY DEF Above
<1>2. IsFiniteSet(Above(S, e))
  BY <1>1, FS_Subset
<1>3. Rank(S, e) = Cardinality(Above(S, e))
  BY DEF Rank, Above
<1> QED BY <1>2, <1>3, FS_CardinalityType

(* A subset is not larger.                                                 *)
LEMMA Smaller ==
  ASSUME NEW S, IsFiniteSet(S), NEW T, T \subseteq S
  PROVE  IsFiniteSet(T) /\ Cardinality(T) \in Nat /\ Cardinality(S) \in Nat /\ Cardinality(T) <= Cardinality(S)
<1>1. T \in SUBSET S
  OBVIOUS
<1> QED BY <1>1, FS_Subset, FS_CardinalityType

(* A subset that lacks a member is smaller.                                *)
LEMMA Fewer ==
  ASSUME NEW S, IsFiniteSet(S), NEW x \in S, NEW T, T \subseteq S \ {x}
  PROVE  Cardinality(T) \in Nat /\ Cardinality(S) \in Nat /\ Cardinality(T) < Cardinality(S)
<1>1. IsFiniteSet(S \ {x}) /\ Cardinality(S \ {x}) = Cardinality(S) - 1
  BY FS_RemoveElement
<1>2. Cardinality(T) \in Nat /\ Cardinality(T) <= Cardinality(S \ {x})
  BY <1>1, Smaller
<1>3. Cardinality(S) \in Nat
  BY FS_CardinalityType
<1> QED BY <1>1, <1>2, <1>3

(* What is newer ranks before; what ranks before is newer.                 *)
LEMMA RankOrder ==
  ASSUME NEW U, Rows(U), NEW S, S \subseteq U, NEW e \in U, NEW f \in S
  PROVE  /\ Newer(f, e) => Rank(S, f) < Rank(S, e)
         /\ Rank(S, f) < Rank(S, e) => Newer(f, e)
         /\ e \in S /\ Rank(S, f) = Rank(S, e) => e = f
<1>1. /\ IsFiniteSet(S) /\ U \subseteq EventSet /\ e \in EventSet /\ f \in EventSet /\ f \in U
      /\ e.id = f.id => e = f
  BY Smaller DEF Rows
<1>2. /\ IsFiniteSet(Above(S, e)) /\ Rank(S, e) = Cardinality(Above(S, e)) /\ Rank(S, e) \in Nat
      /\ IsFiniteSet(Above(S, f)) /\ Rank(S, f) = Cardinality(Above(S, f)) /\ Rank(S, f) \in Nat
  BY <1>1, AboveFinite
<1>3. \A x, y \in EventSet : Newer(x, y) => Above(S, x) \subseteq Above(S, y) \ {x}
  BY <1>1, NewerOrder DEF Above
<1>4. ASSUME Newer(f, e) PROVE Rank(S, f) < Rank(S, e)
  <2>1. f \in Above(S, e) /\ Above(S, f) \subseteq Above(S, e) \ {f}
    BY <1>1, <1>3, <1>4 DEF Above
  <2> QED BY <1>2, <2>1, Fewer
<1>5. ASSUME e \in S, Newer(e, f) PROVE Rank(S, e) < Rank(S, f)
  <2>1. e \in Above(S, f) /\ Above(S, e) \subseteq Above(S, f) \ {e}
    BY <1>1, <1>3, <1>5 DEF Above
  <2> QED BY <1>2, <2>1, Fewer
<1>6. ASSUME ~Newer(f, e) PROVE Rank(S, e) <= Rank(S, f)
  <2>1. e = f \/ Newer(e, f)
    BY <1>1, <1>6, NewerOrder
  <2>2. Above(S, e) \subseteq Above(S, f)
    BY <1>1, <1>3, <2>1
  <2> QED BY <1>2, <2>2, Smaller
<1>7. Rank(S, f) < Rank(S, e) => Newer(f, e)
  BY <1>2, <1>6
<1>8. e \in S /\ Rank(S, f) = Rank(S, e) => e = f
  BY <1>1, <1>2, <1>4, <1>5, NewerOrder
<1> QED BY <1>4, <1>7, <1>8

(* Every place up to the number of rows is taken.                          *)
LEMMA RankHit ==
  ASSUME NEW S, Rows(S), NEW k \in Nat, k < Cardinality(S)
  PROVE  \E e \in S : Rank(S, e) = k
<1> DEFINE n == Cardinality(S)
           T == 0..(n - 1)
           r == [e \in S |-> Rank(S, e)]
<1>1. IsFiniteSet(S) /\ n \in Nat
  BY FS_CardinalityType DEF Rows
<1>2. IsFiniteSet(T) /\ Cardinality(T) = n
  <2> HIDE DEF n
  <2> QED BY <1>1, FS_Interval
<1>3. \A e \in S : Rank(S, e) \in T
  <2> SUFFICES ASSUME NEW e \in S PROVE Rank(S, e) \in T
    OBVIOUS
  <2>1. Rank(S, e) = Cardinality(Above(S, e)) /\ Rank(S, e) \in Nat
    BY <1>1, AboveFinite
  <2>2. Above(S, e) \subseteq S \ {e}
    BY NewerOrder DEF Above, Rows
  <2>3. Cardinality(Above(S, e)) < n
    BY <1>1, <2>2, Fewer
  <2> HIDE DEF n
  <2> QED BY <1>1, <2>1, <2>3
<1>4. \A e, f \in S : Rank(S, f) = Rank(S, e) => e = f
  BY RankOrder
<1> HIDE DEF n, T
<1>5. r \in [S -> T] /\ \A a, b \in S : r[a] = r[b] => a = b
  BY <1>3, <1>4
<1>6. r \in Injection(S, T)
  <2> HIDE DEF r
  <2> QED BY <1>5 DEF Injection, IsInjective
<1>7. r \in Surjection(S, T)
  <2> HIDE DEF r
  <2> QED BY <1>2, <1>6, FS_Injection DEF n
<1>8. k \in T
  BY <1>1 DEF T, n
<1>9. \E e \in S : r[e] = k
  BY <1>7, <1>8 DEF Surjection
<1> QED BY <1>9

(* A page is not longer than its limit ...                                 *)
LEMMA CutSize ==
  ASSUME NEW S, Rows(S), NEW limit \in Nat, NEW offset \in Nat
  PROVE  /\ IsFiniteSet(Cut(S, limit, offset)) /\ Cardinality(Cut(S, limit, offset)) \in Nat
         /\ Cardinality(Cut(S, limit, offset)) <= limit
<1> DEFINE C == Cut(S, limit, offset)
           T == offset..(offset + limit - 1)
           r == [e \in C |-> Rank(S, e)]
<1>1. IsFiniteSet(T) /\ Cardinality(T) = limit
  BY FS_Interval
<1>2. C \subseteq S /\ \A e \in C : Rank(S, e) >= offset /\ Rank(S, e) < offset + limit
  BY DEF Cut
<1>3. IsFiniteSet(C) /\ Cardinality(C) \in Nat /\ IsFiniteSet(S)
  BY <1>2, Smaller DEF Rows
<1>4. \A e \in C : Rank(S, e) \in T
  <2>1. \A e \in C : Rank(S, e) \in Nat
    BY <1>3, AboveFinite
  <2> QED BY <1>2, <2>1
<1>5. \A e, f \in C : Rank(S, f) = Rank(S, e) => e = f
  BY <1>2, RankOrder
<1> HIDE DEF C, T
<1>6. r \in [C -> T] /\ \A a, b \in C : r[a] = r[b] => a = b
  BY <1>4, <1>5
<1> HIDE DEF r
<1>7. r \in Injection(C, T)
  BY <1>6 DEF Injection, IsInjective
<1>8. Cardinality(C) <= Cardinality(T)
  BY <1>1, <1>7, FS_Injection
<1> QED BY <1>1, <1>3, <1>8 DEF C

(* ... and only empty when there is no row at its offset.                  *)
LEMMA CutEmpty ==
  ASSUME NEW S, Rows(S), NEW limit \in Nat \ {0}, NEW offset \in Nat, Cut(S, limit, offset) = {}
  PROVE  Cardinality(S) \in Nat /\ Cardinality(S) <= offset
<1>1. Cardinality(S) \in Nat
  BY FS_CardinalityType DEF Rows
<1>2. ASSUME offset < Cardinality(S) PROVE FALSE
  <2>1. PICK e \in S : Rank(S, e) = offset
    BY <1>2, RankHit
  <2>2. e \in Cut(S, limit, offset)
    BY <2>1 DEF Cut
  <2> QED BY <2>2
<1> QED BY <1>1, <1>2

(* A scan from the top has everything that is newer than an event, and the *)
(* event, unless as many rows as it may return are newer.                  *)
LEMMA ScanReaches ==
  ASSUME NEW U, Rows(U), NEW S, S \subseteq U, NEW e \in U, NEW limit \in Nat
  PROVE  LET P == Cut(S, limit, 0)
         IN  \/ Cardinality(Above(S, e)) < limit /\ Above(S, e) \subseteq P /\ (e \in S => e \in P)
             \/ Cardinality(Above(S, e)) >= limit /\ P \subseteq Above(P, e) /\ Cardinality(P) >= limit
<1> DEFINE P == Cut(S, limit, 0)
<1>1. IsFiniteSet(S) /\ Rows(S)
  BY Smaller DEF Rows
<1>2. \A f \in U : Rank(S, f) = Cardinality(Above(S, f)) /\ Rank(S, f) \in Nat
  BY <1>1, AboveFinite
<1>3. \A f \in S : f \in P <=> Rank(S, f) < limit
  BY <1>2 DEF Cut
<1>4. P \subseteq S
  BY DEF Cut
<1>5. CASE Cardinality(Above(S, e)) < limit
  <2>1. ASSUME NEW f \in Above(S, e) PROVE f \in P
    <3>1. f \in S /\ f \in U /\ Newer(f, e)
      BY <2>1 DEF Above
    <3>2. Rank(S, f) < Rank(S, e)
      BY <3>1, RankOrder
    <3> QED BY <1>2, <1>3, <1>5, <3>1, <3>2
  <2>2. e \in S => e \in P
    BY <1>2, <1>3, <1>5
  <2> QED BY <1>5, <2>1, <2>2
<1>6. CASE Cardinality(Above(S, e)) >= limit
  <2>1. ASSUME NEW f \in P PROVE f \in Above(P, e)
    <3>1. Rank(S, f) < limit /\ f \in S /\ f \in U
      BY <1>3, <1>4, <2>1
    <3>2. Rank(S, f) < Rank(S, e)
      BY <1>2, <1>6, <3>1
    <3>3. Newer(f, e)
      BY <3>1, <3>2, RankOrder
    <3> QED BY <2>1, <3>3 DEF Above
  <2>2. Cardinality(P) >= limit
    <3>1. limit <= Cardinality(S) /\ Cardinality(S) \in Nat
      <4>1. Above(S, e) \subseteq S
        BY DEF Above
      <4>2. Cardinality(Above(S, e)) <= Cardinality(S) /\ Cardinality(S) \in Nat /\ Cardinality(Above(S, e)) \in Nat
        BY <1>1, <4>1, Smaller
      <4> QED BY <1>6, <4>2
    <3> DEFINE T == 0..(limit - 1)
               r == [f \in P |-> Rank(S, f)]
    <3>2. IsFiniteSet(T) /\ Cardinality(T) = limit
      BY FS_Interval
    <3>3. \A f \in P : Rank(S, f) \in T
      BY <1>2, <1>3, <1>4
    <3>4. \A k \in T : \E f \in P : Rank(S, f) = k
      <4> SUFFICES ASSUME NEW k \in T PROVE \E f \in P : Rank(S, f) = k
        OBVIOUS
      <4>1. k \in Nat /\ k < limit /\ k < Cardinality(S)
        BY <3>1
      <4>2. PICK f \in S : Rank(S, f) = k
        BY <1>1, <4>1, RankHit
      <4>3. f \in P
        BY <1>3, <4>1, <4>2
      <4> QED BY <4>2, <4>3
    <3> HIDE DEF T, P
    <3>5. r \in [P -> T] /\ \A k \in T : \E f \in P : r[f] = k
      BY <3>3, <3>4
    <3> HIDE DEF r
    <3>6. r \in Surjection(P, T)
      BY <3>5 DEF Surjection
    <3>7. IsFiniteSet(P)
      BY <1>1, <1>4, Smaller
    <3> QED BY <3>2, <3>6, <3>7, FS_Surjection
  <2> HIDE DEF P
  <2>3. P \subseteq Above(P, e)
    BY <2>1
  <2> QED BY <1>6, <2>2, <2>3 DEF P
<1>7. Cardinality(Above(S, e)) \in Nat
  BY <1>2
<1> QED BY <1>5, <1>6, <1>7

MatchSet(rows, filter) == {e \in rows : Matches(e, filter)}

FilterSet == [types : SUBSET OrderTypes, coin : OrderCoins \cup {AnyCoin}]

PagingShape ==
  /\ Rows(audit) /\ \A e \in audit : e.id <= Cardinality(audit)
  /\ page \in [st : {"idle", "asking", "done"}, kind : {"orders", "events"}, filter : FilterSet, todo : SUBSET OrderTypes,
               rows : SUBSET EventSet, offset : Nat, next : Nat, base : SUBSET EventSet, got : SUBSET EventSet]
  /\ page.base \subseteq MatchSet(audit, page.filter)
  /\ page.todo \subseteq page.filter.types
  /\ page.kind = "events" => page.filter.coin = AnyCoin
  /\ page.rows \subseteq {e \in audit : e.type \in page.filter.types}

(* A request for the page at n cannot pass by the event e: it has read a   *)
(* full page of newer rows beyond n, or e and n newer ones will be in what *)
(* it reads, and are in what it read of the types that it has scanned.     *)
Reached(rows, todo, M, n, e) ==
  \/ Cardinality(Above(rows, e)) >= n + PageLimit
  \/ \E W \in SUBSET Above(M, e) :
       Cardinality(W) >= n /\ \A f \in W \cup {e} : f.type \notin todo => f \in rows

(* The rows that match fit under the scan cap of Orders.                   *)
Fits(kind, M) == kind = "orders" => Cardinality(M) <= ScanCap

PagesReach ==
  page.st = "asking" /\ page.filter.coin = AnyCoin /\ Fits(page.kind, MatchSet(audit, page.filter)) =>
    \A e \in page.base \ page.got :
      Reached(page.rows, page.todo, MatchSet(audit, page.filter), page.offset, e)

PagingInv == PagingShape /\ PagesReach /\ PagingComplete

(* No row and no client.                                                   *)
LEMMA PagingStarts == ReadInit => PagingInv
<1> SUFFICES ASSUME ReadInit PROVE PagingInv
  OBVIOUS
<1>1. audit = {} /\ page = NoPage
  BY DEF ReadInit
<1>2. Rows(audit)
  BY <1>1, FS_EmptySet DEF Rows
<1>3. page \in [st : {"idle", "asking", "done"}, kind : {"orders", "events"}, filter : FilterSet, todo : SUBSET OrderTypes,
                rows : SUBSET EventSet, offset : Nat, next : Nat, base : SUBSET EventSet, got : SUBSET EventSet]
  BY <1>1 DEF NoPage, FilterSet
<1>4. page.base = {} /\ page.todo = {} /\ page.rows = {} /\ page.st = "idle" /\ page.kind = "orders"
  BY <1>1 DEF NoPage
<1>5. PagingShape
  BY <1>1, <1>2, <1>3, <1>4 DEF PagingShape
<1>6. PagesReach /\ PagingComplete
  BY <1>4 DEF PagesReach, PagingComplete
<1> QED BY <1>5, <1>6 DEF PagingInv

(* What PagingComplete says, with the names of the proof.                  *)
LEMMA CompleteMeans ==
  PagingComplete <=> (page.st = "done" /\ page.filter.coin = AnyCoin /\ Fits(page.kind, MatchSet(audit, page.filter))
                        => page.base \subseteq page.got)
  BY DEF PagingComplete, Fits, MatchSet

(* A row that is recorded can only push others back.                       *)
LEMMA RecordKeeps ==
  ASSUME PagingInv, NEW type \in OrderTypes, NEW coin \in OrderCoins, NEW at \in 1..MaxAudit, RecordOrder(type, coin, at)
  PROVE  PagingInv'
<1> DEFINE n == Cardinality(audit)
           r == [id |-> n + 1, at |-> at, type |-> type, coin |-> coin]
           M == MatchSet(audit, page.filter)
           N == MatchSet(audit', page.filter)
<1>1. PagingShape /\ PagesReach /\ PagingComplete /\ Rows(audit) /\ \A e \in audit : e.id <= n
  BY DEF PagingInv, PagingShape
<1>2. audit' = audit \cup {r} /\ page' = page
  BY DEF RecordOrder
<1>3. n \in Nat /\ IsFiniteSet(audit) /\ audit \subseteq EventSet
  BY <1>1, FS_CardinalityType DEF Rows
<1>4. r \in EventSet /\ r.id = n + 1
  <2> HIDE DEF n
  <2> QED BY <1>3 DEF EventSet
<1> HIDE DEF r
<1>5. \A e \in audit : e.id # r.id /\ e.id <= n + 1
  <2>1. \A e \in audit : e.id \in Nat
    BY <1>3 DEF EventSet
  <2> HIDE DEF n
  <2> QED BY <1>1, <1>3, <1>4, <2>1
<1>6. r \notin audit
  BY <1>5
<1>7. IsFiniteSet(audit') /\ Cardinality(audit') = n + 1
  BY <1>2, <1>3, <1>6, FS_AddElement
<1> HIDE DEF n
<1>8. Rows(audit') /\ \A e \in audit' : e.id <= Cardinality(audit')
  <2>1. \A e, f \in audit' : e.id = f.id => e = f
    BY <1>1, <1>2, <1>5 DEF Rows
  <2>2. \A e \in audit' : e.id <= n + 1
    BY <1>2, <1>3, <1>4, <1>5
  <2> QED BY <1>2, <1>3, <1>4, <1>7, <2>1, <2>2 DEF Rows
<1>9. M \subseteq N /\ N \subseteq audit'
  BY <1>2 DEF MatchSet
<1>10. IsFiniteSet(N) /\ IsFiniteSet(M) /\ Cardinality(M) \in Nat /\ Cardinality(N) \in Nat /\ Cardinality(M) <= Cardinality(N)
  BY <1>7, <1>9, Smaller
<1>11. MatchSet(audit, page.filter)' = N
  BY <1>2 DEF MatchSet
<1> HIDE DEF M, N
<1>12. PagingShape'
  <2>1. page.base \subseteq N
    BY <1>1, <1>9 DEF PagingShape, M
  <2>2. page.rows \subseteq {e \in audit' : e.type \in page.filter.types}
    BY <1>1, <1>2 DEF PagingShape
  <2> QED BY <1>1, <1>2, <1>8, <1>11, <2>1, <2>2 DEF PagingShape
<1>13. ScanCap \in Nat /\ (Fits(page.kind, N) => Fits(page.kind, M))
  BY <1>10, ReadAssumption DEF Fits
<1>14. \A rows, todo, k, e : Reached(rows, todo, M, k, e) => Reached(rows, todo, N, k, e)
  <2>1. \A e : Above(M, e) \subseteq Above(N, e)
    BY <1>9 DEF Above
  <2> QED BY <2>1 DEF Reached
<1>15. PagesReach'
  <2>1. page.st = "asking" /\ page.filter.coin = AnyCoin /\ Fits(page.kind, N)
        => \A e \in page.base \ page.got : Reached(page.rows, page.todo, N, page.offset, e)
    BY <1>1, <1>13, <1>14 DEF PagesReach, M
  <2> QED BY <1>2, <1>11, <2>1 DEF PagesReach
<1>16. PagingComplete'
  <2>1. page.st = "done" /\ page.filter.coin = AnyCoin /\ Fits(page.kind, M) => page.base \subseteq page.got
    BY <1>1, CompleteMeans DEF M
  <2>2. page'.st = "done" /\ page'.filter.coin = AnyCoin /\ Fits(page'.kind, N) => page'.base \subseteq page'.got
    BY <1>2, <1>13, <2>1
  <2>3. N = {e \in audit' : Matches(e, page'.filter)}
    BY <1>2 DEF N, MatchSet
  <2> QED BY <2>2, <2>3 DEF PagingComplete, Fits, Matches
<1> QED BY <1>12, <1>15, <1>16 DEF PagingInv

(* A client that begins has nothing behind it.                             *)
LEMMA BeginReaches ==
  ASSUME PagingInv, NEW kind \in {"orders", "events"}, NEW filter \in FilterSet, PageThrough(kind, filter),
         kind = "events" => filter.coin = AnyCoin
  PROVE  PagingInv'
<1> DEFINE M == MatchSet(audit, filter)
<1>1. PagingShape /\ Rows(audit) /\ audit \subseteq EventSet
  BY DEF PagingInv, PagingShape, Rows
<1>2. /\ audit' = audit
      /\ page' = [NoPage EXCEPT !.st = "asking", !.kind = kind, !.filter = filter, !.todo = filter.types, !.base = M]
  BY DEF PageThrough, MatchSet
<1>3. M \subseteq EventSet /\ filter.types \subseteq OrderTypes
  BY <1>1 DEF MatchSet, FilterSet
<1>4. \A e \in M : e.type \in filter.types
  BY DEF MatchSet, Matches
<1> HIDE DEF M
<1>5. /\ page'.st = "asking" /\ page'.kind = kind /\ page'.filter = filter /\ page'.todo = filter.types
      /\ page'.base = M /\ page'.rows = {} /\ page'.offset = 0 /\ page'.got = {}
  BY <1>2 DEF NoPage
<1>6. page' \in [st : {"idle", "asking", "done"}, kind : {"orders", "events"}, filter : FilterSet, todo : SUBSET OrderTypes,
                 rows : SUBSET EventSet, offset : Nat, next : Nat, base : SUBSET EventSet, got : SUBSET EventSet]
  BY <1>2, <1>3 DEF NoPage
<1>7. MatchSet(audit, page.filter)' = M
  BY <1>2, <1>5 DEF M, MatchSet, Matches
<1>8. PagingShape'
  BY <1>1, <1>2, <1>5, <1>6, <1>7 DEF PagingShape
<1>9. \A e \in M : Reached({}, filter.types, M, 0, e)
  <2> SUFFICES ASSUME NEW e \in M PROVE Reached({}, filter.types, M, 0, e)
    OBVIOUS
  <2>1. {} \in SUBSET Above(M, e) /\ Cardinality({}) >= 0
    BY FS_EmptySet
  <2> QED BY <1>4, <2>1 DEF Reached
<1>10. PagesReach'
  BY <1>5, <1>7, <1>9 DEF PagesReach
<1>11. PagingComplete'
  BY <1>5 DEF PagingComplete
<1> QED BY <1>8, <1>10, <1>11 DEF PagingInv

(* One more scan: what is newer than an event was read with it, or a full  *)
(* page beyond the offset is newer.                                        *)
LEMMA ScanKeepsReach ==
  ASSUME NEW U, Rows(U), NEW types, NEW type \in types, NEW todo, NEW n \in Nat,
         NEW M, M = {f \in U : f.type \in types}, Cardinality(M) <= ScanCap,
         NEW rows, rows \subseteq U, NEW e \in M, Reached(rows, todo, M, n, e)
  PROVE  Reached(rows \cup Cut({f \in U : f.type \in {type}}, scanLimit(n), 0), todo \ {type}, M, n, e)
<1> DEFINE S == {f \in U : f.type \in {type}}
           L == scanLimit(n)
           P == Cut(S, L, 0)
           all == rows \cup P
<1>1. IsFiniteSet(U) /\ e \in U /\ S \subseteq U /\ S \subseteq M
  BY DEF Rows
<1>2. PageLimit \in Nat \ {0} /\ ScanCap \in Nat
  BY ReadAssumption
<1>3. L = n + PageLimit \/ L = ScanCap
  <2>1. L = IF PageLimit + n <= ScanCap THEN PageLimit + n ELSE ScanCap
    BY <1>2, MinPair DEF scanLimit
  <2> QED BY <1>2, <2>1
<1>4. L \in Nat
  BY <1>2, <1>3
<1>5. P \subseteq S
  BY DEF Cut
<1> HIDE DEF L
<1>6. \/ Above(S, e) \subseteq P /\ (e \in S => e \in P)
      \/ Cardinality(Above(S, e)) >= L /\ P \subseteq Above(P, e) /\ Cardinality(P) >= L
  BY <1>1, <1>4, ScanReaches
<1>7. S = {f \in U : f.type = type}
  OBVIOUS
<1> HIDE DEF P, S
<1>8. IsFiniteSet(all) /\ all \subseteq U
  BY <1>1, <1>5, Smaller
<1>9. IsFiniteSet(Above(all, e)) /\ Cardinality(Above(all, e)) \in Nat
  BY <1>8, AboveFinite
<1>10. CASE Cardinality(Above(rows, e)) >= n + PageLimit
  <2>1. Above(rows, e) \subseteq Above(all, e)
    BY DEF Above
  <2>2. Cardinality(Above(rows, e)) <= Cardinality(Above(all, e)) /\ Cardinality(Above(rows, e)) \in Nat
    BY <1>9, <2>1, Smaller
  <2>3. Cardinality(Above(all, e)) >= n + PageLimit
    BY <1>2, <1>9, <1>10, <2>2
  <2> QED BY <2>3 DEF Reached, P, S, L
<1>11. CASE \E W \in SUBSET Above(M, e) :
              Cardinality(W) >= n /\ \A f \in W \cup {e} : f.type \notin todo => f \in rows
  <2>1. PICK W \in SUBSET Above(M, e) :
              Cardinality(W) >= n /\ \A f \in W \cup {e} : f.type \notin todo => f \in rows
    BY <1>11
  <2>2. CASE Above(S, e) \subseteq P /\ (e \in S => e \in P)
    <3>1. ASSUME NEW f \in W \cup {e}, f.type \notin todo \ {type} PROVE f \in all
      <4>1. CASE f.type \notin todo
        BY <2>1, <3>1, <4>1
      <4>2. CASE f.type = type
        <5>1. f \in U /\ f \in S
          BY <1>1, <1>7, <4>2 DEF Above
        <5>2. f = e \/ f \in Above(S, e)
          BY <5>1 DEF Above
        <5> QED BY <2>2, <5>1, <5>2
      <4> QED BY <3>1, <4>1, <4>2
    <3> HIDE DEF all
    <3>2. Reached(all, todo \ {type}, M, n, e)
      BY <2>1, <3>1 DEF Reached
    <3> QED BY <3>2 DEF all, P, S, L
  <2>3. CASE Cardinality(Above(S, e)) >= L /\ P \subseteq Above(P, e) /\ Cardinality(P) >= L
    <3>1. CASE L = n + PageLimit
      <4>1. P \subseteq Above(all, e)
        BY <2>3 DEF Above
      <4>2. Cardinality(P) <= Cardinality(Above(all, e)) /\ Cardinality(P) \in Nat
        BY <1>9, <4>1, Smaller
      <4>3. Cardinality(Above(all, e)) >= n + PageLimit
        BY <1>2, <1>9, <2>3, <3>1, <4>2
      <4> QED BY <4>3 DEF Reached, P, S, L
    <3>2. CASE L = ScanCap
      <4>1. IsFiniteSet(M) /\ e \in EventSet
        BY <1>1, Smaller DEF Rows
      <4>2. Above(S, e) \subseteq M \ {e}
        BY <1>1, <4>1, NewerOrder DEF Above
      <4>3. Cardinality(Above(S, e)) < Cardinality(M) /\ Cardinality(M) \in Nat /\ Cardinality(Above(S, e)) \in Nat
        BY <4>1, <4>2, Fewer
      <4> QED BY <1>2, <2>3, <3>2, <4>3
    <3> QED BY <1>3, <3>1, <3>2
  <2> QED BY <1>6, <2>2, <2>3
<1> QED BY <1>10, <1>11 DEF Reached

(* A page takes in the events it passes, and an empty one has passed all.  *)
LEMMA PageAdvances ==
  ASSUME NEW M, Rows(M), NEW R, R \subseteq M, NEW e \in M, NEW n \in Nat,
         \/ Cardinality(Above(R, e)) >= n + PageLimit
         \/ e \in R /\ Cardinality(Above(R, e)) >= n
  PROVE  LET I == Cut(R, PageLimit, n)
         IN  I # {} /\ (e \notin I => Cardinality(Above(M, e)) >= n + Cardinality(I))
<1> DEFINE I == Cut(R, PageLimit, n)
<1>1. PageLimit \in Nat \ {0}
  BY ReadAssumption
<1>2. Rows(R) /\ IsFiniteSet(R) /\ IsFiniteSet(M) /\ e \in EventSet
  BY Smaller DEF Rows
<1>3. Cardinality(I) \in Nat /\ Cardinality(I) <= PageLimit
  BY <1>1, <1>2, CutSize
<1>4. Rank(R, e) = Cardinality(Above(R, e)) /\ Cardinality(Above(R, e)) \in Nat
  BY <1>2, AboveFinite
<1>5. Cardinality(Above(R, e)) <= Cardinality(Above(M, e)) /\ Cardinality(Above(M, e)) \in Nat
  <2>1. Above(R, e) \subseteq Above(M, e)
    BY DEF Above
  <2>2. IsFiniteSet(Above(M, e))
    BY <1>2, AboveFinite
  <2> QED BY <2>1, <2>2, Smaller
<1>6. I # {}
  <2> SUFFICES ASSUME I = {} PROVE FALSE
    OBVIOUS
  <2>1. Cardinality(R) \in Nat /\ Cardinality(R) <= n
    BY <1>1, <1>2, CutEmpty
  <2>2. Cardinality(Above(R, e)) <= Cardinality(R)
    <3>1. Above(R, e) \subseteq R
      BY DEF Above
    <3> QED BY <1>2, <3>1, Smaller
  <2>3. e \in R => Cardinality(Above(R, e)) < Cardinality(R)
    <3>1. Above(R, e) \subseteq R \ {e}
      BY <1>2, NewerOrder DEF Above
    <3> QED BY <1>2, <3>1, Fewer
  <2> QED BY <1>1, <1>4, <2>1, <2>2, <2>3
<1>7. ASSUME e \notin I PROVE Cardinality(Above(R, e)) >= n + PageLimit
  <2>1. CASE e \in R /\ Cardinality(Above(R, e)) >= n
    BY <1>1, <1>4, <1>7, <2>1 DEF Cut
  <2> QED BY <2>1
<1> HIDE DEF I
<1>8. e \notin I => Cardinality(Above(M, e)) >= n + Cardinality(I)
  BY <1>1, <1>3, <1>4, <1>5, <1>7
<1> QED BY <1>6, <1>8 DEF I

(* The answer to a request, made from the rows R it read.                  *)
LEMMA AnswerKeepsReach ==
  ASSUME PagingInv, page.st = "asking", NEW R, R \subseteq MatchSet(audit, page.filter), NEW seen,
         Received(Cut(R, PageLimit, page.offset), seen), audit' = audit,
         page.filter.coin = AnyCoin /\ Fits(page.kind, MatchSet(audit, page.filter)) =>
           \A e \in page.base \ page.got :
             \/ Cardinality(Above(R, e)) >= page.offset + PageLimit
             \/ e \in R /\ Cardinality(Above(R, e)) >= page.offset
  PROVE  PagingInv'
<1> DEFINE M == MatchSet(audit, page.filter)
           n == page.offset
           I == Cut(R, PageLimit, n)
           size == Cardinality(I)
           next == listMeta(n, size, seen)
           st == IF I = {} THEN "done" ELSE "asking"
<1>1. PagingShape /\ Rows(audit) /\ n \in Nat /\ PageLimit \in Nat \ {0}
  BY ReadAssumption DEF PagingInv, PagingShape
<1>2. M \subseteq audit /\ I \subseteq R /\ audit \subseteq EventSet /\ IsFiniteSet(audit)
  BY <1>1 DEF MatchSet, Cut, Rows
<1>3. Rows(M) /\ Rows(R)
  <2>1. M \subseteq audit /\ R \subseteq audit
    BY <1>2
  <2>2. IsFiniteSet(M) /\ IsFiniteSet(R)
    BY <1>2, <2>1, Smaller
  <2> HIDE DEF M
  <2> QED BY <1>1, <2>1, <2>2 DEF Rows
<1>4. size \in Nat
  <2> HIDE DEF n
  <2> QED BY <1>1, <1>3, CutSize
<1>5. page' = [page EXCEPT !.st = st, !.todo = page.filter.types, !.rows = {}, !.offset = n + size,
                           !.got = page.got \cup I, !.next = next]
  BY DEF Received
<1>6. next \in Nat /\ n + size \in Nat /\ st \in {"done", "asking"}
  <2> HIDE DEF size, n
  <2> QED BY <1>1, <1>4 DEF listMeta
<1>7. I \subseteq EventSet
  BY <1>2
<1>8. \A e \in M : e.type \in page.filter.types
  BY DEF MatchSet, Matches
<1>9. ASSUME page.filter.coin = AnyCoin, Fits(page.kind, M), NEW e \in page.base \ page.got
      PROVE  I # {} /\ (e \notin I => Cardinality(Above(M, e)) >= n + size)
  <2>1. e \in M
    BY <1>1 DEF PagingShape
  <2>2. \/ Cardinality(Above(R, e)) >= n + PageLimit
        \/ e \in R /\ Cardinality(Above(R, e)) >= n
    BY <1>9
  <2>3. R \subseteq M
    OBVIOUS
  <2> HIDE DEF M, n
  <2> QED BY <1>1, <1>3, <2>1, <2>2, <2>3, PageAdvances
<1> HIDE DEF size, next, st, I, n
<1>10. /\ page'.st = st /\ page'.kind = page.kind /\ page'.filter = page.filter /\ page'.todo = page.filter.types
       /\ page'.base = page.base /\ page'.rows = {} /\ page'.offset = n + size /\ page'.got = page.got \cup I
  BY <1>1, <1>5 DEF PagingShape
<1>11. page' \in [st : {"idle", "asking", "done"}, kind : {"orders", "events"}, filter : FilterSet, todo : SUBSET OrderTypes,
                  rows : SUBSET EventSet, offset : Nat, next : Nat, base : SUBSET EventSet, got : SUBSET EventSet]
  <2>1. page.filter.types \subseteq OrderTypes /\ page.got \cup I \subseteq EventSet
    BY <1>1, <1>7 DEF PagingShape, FilterSet
  <2> QED BY <1>1, <1>5, <1>6, <2>1 DEF PagingShape
<1>12. MatchSet(audit, page.filter)' = M
  BY <1>10 DEF MatchSet, Matches
<1>13. PagingShape'
  BY <1>1, <1>10, <1>11, <1>12 DEF PagingShape
<1>14. \A k, e : e \in M /\ Cardinality(Above(M, e)) >= k => Reached({}, page.filter.types, M, k, e)
  <2> SUFFICES ASSUME NEW k, NEW e \in M, Cardinality(Above(M, e)) >= k
               PROVE  Reached({}, page.filter.types, M, k, e)
    OBVIOUS
  <2>1. Above(M, e) \in SUBSET Above(M, e) /\ \A f \in Above(M, e) \cup {e} : f.type \in page.filter.types
    BY <1>8 DEF Above
  <2> QED BY <2>1 DEF Reached
<1>15. page.base \subseteq M
  BY <1>1 DEF PagingShape
<1> HIDE DEF M
<1>16. PagesReach'
  <2> SUFFICES ASSUME page.filter.coin = AnyCoin, Fits(page.kind, M), NEW e \in page.base \ (page.got \cup I)
               PROVE  Reached({}, page.filter.types, M, n + size, e)
    BY <1>10, <1>12 DEF PagesReach
  <2> QED BY <1>9, <1>14, <1>15
<1>17. PagingComplete'
  <2>1. page.filter.coin = AnyCoin /\ Fits(page.kind, M) /\ I = {} => page.base \subseteq page.got
    BY <1>9
  <2>2. page'.st = "done" => I = {}
    BY <1>10 DEF st
  <2>3. page'.st = "done" /\ page'.filter.coin = AnyCoin /\ Fits(page'.kind, M) => page'.base \subseteq page'.got
    BY <1>10, <2>1, <2>2
  <2>4. M = {e \in audit' : Matches(e, page'.filter)}
    BY <1>10 DEF M, MatchSet
  <2> QED BY <2>3, <2>4 DEF PagingComplete, Fits, Matches
<1> QED BY <1>13, <1>16, <1>17 DEF PagingInv

(* Without a symbol filter the event type decides.                         *)
LEMMA AnyCoinMatches ==
  ASSUME NEW S, NEW filter, filter.coin = AnyCoin
  PROVE  MatchSet(S, filter) = {f \in S : f.type \in filter.types}
  BY DEF MatchSet, Matches

(* A scan of one event type by Orders.                                     *)
LEMMA ScanReadsOn ==
  ASSUME PagingInv, NEW type \in OrderTypes, ScanType(type)
  PROVE  PagingInv'
<1> DEFINE S == {f \in audit : f.type \in {type}}
           P == Cut(S, scanLimit(page.offset), 0)
           M == MatchSet(audit, page.filter)
<1>1. PagingShape /\ PagesReach /\ Rows(audit) /\ audit \subseteq EventSet
  BY DEF PagingInv, PagingShape, Rows
<1>2. /\ page.st = "asking" /\ page.kind = "orders" /\ type \in page.todo /\ audit' = audit
      /\ page' = [page EXCEPT !.todo = page.todo \ {type}, !.rows = page.rows \cup P]
  BY DEF ScanType, List
<1>3. P \subseteq S /\ S \subseteq audit /\ \A f \in S : f.type = type
  BY DEF Cut
<1>4. type \in page.filter.types /\ page.offset \in Nat /\ page.base \subseteq M /\ page.rows \subseteq audit
  BY <1>1, <1>2 DEF PagingShape
<1>5. ASSUME page.filter.coin = AnyCoin, Fits(page.kind, M), NEW e \in page.base \ page.got
      PROVE  Reached(page.rows \cup P, page.todo \ {type}, M, page.offset, e)
  <2>1. Reached(page.rows, page.todo, M, page.offset, e)
    BY <1>1, <1>2, <1>5 DEF PagesReach
  <2>2. M = {f \in audit : f.type \in page.filter.types}
    BY <1>5, AnyCoinMatches
  <2>3. Cardinality(M) <= ScanCap
    BY <1>2, <1>5 DEF Fits
  <2>4. \A types, todo, rows, N, n : type \in types /\ n \in Nat /\ N = {f \in audit : f.type \in types}
          /\ Cardinality(N) <= ScanCap /\ rows \subseteq audit =>
          \A x \in N : Reached(rows, todo, N, n, x) =>
            Reached(rows \cup Cut({f \in audit : f.type \in {type}}, scanLimit(n), 0), todo \ {type}, N, n, x)
    BY <1>1, ScanKeepsReach
  <2>5. e \in M
    BY <1>4
  <2> HIDE DEF M
  <2> QED BY <1>4, <2>1, <2>2, <2>3, <2>4, <2>5
<1> HIDE DEF P, S
<1>6. /\ page'.st = page.st /\ page'.kind = page.kind /\ page'.filter = page.filter /\ page'.todo = page.todo \ {type}
      /\ page'.base = page.base /\ page'.rows = page.rows \cup P /\ page'.offset = page.offset /\ page'.got = page.got
  BY <1>1, <1>2 DEF PagingShape
<1>7. MatchSet(audit, page.filter)' = M
  BY <1>2, <1>6 DEF MatchSet, Matches
<1>8. PagingShape'
  <2>1. page.rows \cup P \subseteq {e \in audit : e.type \in page.filter.types}
    BY <1>1, <1>3, <1>4 DEF PagingShape
  <2>2. page.rows \cup P \subseteq EventSet
    BY <1>1, <2>1
  <2>3. page' \in [st : {"idle", "asking", "done"}, kind : {"orders", "events"}, filter : FilterSet, todo : SUBSET OrderTypes,
                   rows : SUBSET EventSet, offset : Nat, next : Nat, base : SUBSET EventSet, got : SUBSET EventSet]
    BY <1>1, <1>2, <2>2 DEF PagingShape
  <2>4. page.todo \ {type} \subseteq page.filter.types
    BY <1>1 DEF PagingShape
  <2> HIDE DEF M
  <2> QED BY <1>1, <1>2, <1>4, <1>6, <1>7, <2>1, <2>3, <2>4 DEF PagingShape
<1> HIDE DEF M
<1>9. PagesReach'
  BY <1>5, <1>6, <1>7 DEF PagesReach
<1>10. PagingComplete'
  BY <1>2, <1>6 DEF PagingComplete
<1> QED BY <1>8, <1>9, <1>10 DEF PagingInv

(* The merged page of Orders ...                                           *)
LEMMA OrdersAnswer == PagingInv /\ Orders => PagingInv'
<1> SUFFICES ASSUME PagingInv, Orders PROVE PagingInv'
  OBVIOUS
<1> DEFINE R == MatchSet(page.rows, page.filter)
           M == MatchSet(audit, page.filter)
<1>1. PagingShape /\ PagesReach /\ Rows(audit)
  BY DEF PagingInv, PagingShape
<1>2. /\ page.st = "asking" /\ page.todo = {} /\ audit' = audit
      /\ Received(Cut(R, PageLimit, page.offset), Cardinality(R))
  BY DEF Orders, ordersFromAuditEvents, MatchSet
<1>3. R \subseteq M /\ page.rows \subseteq {e \in audit : e.type \in page.filter.types}
  BY <1>1 DEF PagingShape, MatchSet
<1>4. ASSUME page.filter.coin = AnyCoin, Fits(page.kind, M), NEW e \in page.base \ page.got
      PROVE  \/ Cardinality(Above(R, e)) >= page.offset + PageLimit
             \/ e \in R /\ Cardinality(Above(R, e)) >= page.offset
  <2>1. R = page.rows
    <3>1. R = {f \in page.rows : f.type \in page.filter.types}
      BY <1>4, AnyCoinMatches
    <3> QED BY <1>3, <3>1
  <2>2. Reached(page.rows, page.todo, M, page.offset, e)
    BY <1>1, <1>2, <1>4 DEF PagesReach
  <2>3. CASE \E W \in SUBSET Above(M, e) :
               Cardinality(W) >= page.offset /\ \A f \in W \cup {e} : f.type \notin page.todo => f \in page.rows
    <3>1. PICK W \in SUBSET Above(M, e) :
               Cardinality(W) >= page.offset /\ \A f \in W \cup {e} : f.type \notin page.todo => f \in page.rows
      BY <2>3
    <3>2. W \subseteq Above(R, e) /\ e \in R
      BY <1>2, <2>1, <3>1 DEF Above
    <3>3. IsFiniteSet(Above(R, e))
      <4>1. IsFiniteSet(R)
        BY <1>1, <1>3, <2>1, Smaller DEF Rows
      <4> QED BY <4>1, AboveFinite
    <3>4. Cardinality(W) <= Cardinality(Above(R, e)) /\ Cardinality(W) \in Nat /\ Cardinality(Above(R, e)) \in Nat
      BY <3>2, <3>3, Smaller
    <3>5. page.offset \in Nat
      BY <1>1 DEF PagingShape
    <3> QED BY <3>1, <3>2, <3>4, <3>5
  <2> QED BY <2>1, <2>2, <2>3 DEF Reached
<1> HIDE DEF R
<1> QED BY <1>2, <1>3, <1>4, AnswerKeepsReach

(* ... and the page of AuditEvents, one query, pass by nothing.            *)
LEMMA EventsAnswer == PagingInv /\ AuditEvents => PagingInv'
<1> SUFFICES ASSUME PagingInv, AuditEvents PROVE PagingInv'
  OBVIOUS
<1> DEFINE R == {e \in audit : e.type \in page.filter.types}
           M == MatchSet(audit, page.filter)
<1>1. PagingShape /\ PagesReach /\ Rows(audit) /\ page.offset \in Nat /\ PageLimit \in Nat
  BY ReadAssumption DEF PagingInv, PagingShape
<1>2. /\ page.st = "asking" /\ page.kind = "events" /\ audit' = audit
      /\ Received(Cut(R, PageLimit, page.offset), page.offset + Cardinality(Cut(R, PageLimit, page.offset)))
  BY DEF AuditEvents, List
<1>3. page.filter.coin = AnyCoin
  BY <1>1, <1>2 DEF PagingShape
<1>4. R = M
  BY <1>3, AnyCoinMatches
<1>5. ASSUME NEW e \in page.base \ page.got PROVE e \in R /\ Cardinality(Above(R, e)) >= page.offset
  <2>1. Reached(page.rows, page.todo, M, page.offset, e)
    BY <1>1, <1>2, <1>3 DEF PagesReach, Fits
  <2>2. e \in R
    BY <1>1, <1>4 DEF PagingShape
  <2>3. IsFiniteSet(Above(R, e)) /\ page.rows \subseteq R
    <3>1. IsFiniteSet(R)
      BY <1>1, Smaller DEF Rows
    <3> QED BY <1>1, <3>1, AboveFinite DEF PagingShape
  <2> HIDE DEF M, R
  <2>4. CASE Cardinality(Above(page.rows, e)) >= page.offset + PageLimit
    <3>1. Above(page.rows, e) \subseteq Above(R, e)
      BY <2>3 DEF Above
    <3>2. Cardinality(Above(page.rows, e)) <= Cardinality(Above(R, e)) /\ Cardinality(Above(page.rows, e)) \in Nat
          /\ Cardinality(Above(R, e)) \in Nat
      BY <2>3, <3>1, Smaller
    <3> QED BY <1>1, <2>2, <2>4, <3>2
  <2>5. CASE \E W \in SUBSET Above(M, e) : Cardinality(W) >= page.offset
    <3>1. PICK W \in SUBSET Above(M, e) : Cardinality(W) >= page.offset
      BY <2>5
    <3>2. Cardinality(W) <= Cardinality(Above(R, e)) /\ Cardinality(W) \in Nat /\ Cardinality(Above(R, e)) \in Nat
      BY <1>4, <2>3, <3>1, Smaller
    <3> QED BY <1>1, <2>2, <3>1, <3>2
  <2> QED BY <2>1, <2>4, <2>5 DEF Reached
<1> HIDE DEF R
<1> QED BY <1>2, <1>4, <1>5, AnswerKeepsReach

(* The completeness of paging, with what a request has read so far.        *)
THEOREM PagingInvariant == PagingSpec => []PagingInv
<1>1. ReadInit => PagingInv
  BY PagingStarts
<1>2. PagingInv /\ [PagingNext]_readVars => PagingInv'
  <2> SUFFICES ASSUME PagingInv, [PagingNext]_readVars PROVE PagingInv'
    OBVIOUS
  <2>1. ASSUME NEW type \in OrderTypes, NEW coin \in OrderCoins, NEW at \in 1..MaxAudit, RecordOrder(type, coin, at)
        PROVE  PagingInv'
    BY <2>1, RecordKeeps
  <2>2. ASSUME NEW kind \in {"orders", "events"}, NEW types \in {OrderTypes, {"order_failed"}},
               NEW coin \in OrderCoins \cup {AnyCoin}, PageThrough(kind, [types |-> types, coin |-> coin]),
               kind = "events" => coin = AnyCoin
        PROVE  PagingInv'
    <3> DEFINE filter == [types |-> types, coin |-> coin]
    <3>1. filter \in FilterSet /\ (kind = "events" => filter.coin = AnyCoin)
      BY <2>2 DEF FilterSet, OrderTypes
    <3> HIDE DEF filter
    <3>2. PageThrough(kind, filter)
      BY <2>2 DEF filter
    <3> QED BY <3>1, <3>2, BeginReaches
  <2>3. ASSUME NEW type \in OrderTypes, ScanType(type) PROVE PagingInv'
    BY <2>3, ScanReadsOn
  <2>4. CASE Orders
    BY <2>4, OrdersAnswer
  <2>5. CASE AuditEvents
    BY <2>5, EventsAnswer
  <2>6. CASE PageFails
    <3>1. page' = NoPage /\ audit' = audit /\ Rows(audit) /\ \A e \in audit : e.id <= Cardinality(audit)
      BY <2>6 DEF PageFails, PagingInv, PagingShape
    <3>2. page' \in [st : {"idle", "asking", "done"}, kind : {"orders", "events"}, filter : FilterSet, todo : SUBSET OrderTypes,
                     rows : SUBSET EventSet, offset : Nat, next : Nat, base : SUBSET EventSet, got : SUBSET EventSet]
      BY <3>1 DEF NoPage, FilterSet
    <3>3. page'.base = {} /\ page'.todo = {} /\ page'.rows = {} /\ page'.st = "idle" /\ page'.kind = "orders"
      BY <3>1 DEF NoPage
    <3>4. PagingShape'
      BY <3>1, <3>2, <3>3 DEF PagingShape
    <3> QED BY <3>3, <3>4 DEF PagingInv, PagesReach, PagingComplete
  <2>7. CASE UNCHANGED readVars
    <3>1. audit' = audit /\ page' = page
      BY <2>7 DEF readVars
    <3> QED BY <3>1 DEF PagingInv, PagingShape, PagesReach, PagingComplete, MatchSet, Matches
  <2> QED BY <2>1, <2>2, <2>3, <2>4, <2>5, <2>6, <2>7 DEF PagingNext
<1> QED BY <1>1, <1>2, PTL DEF PagingSpec

(* Paging by count misses nothing: for any page size, scan cap and number  *)
(* of rows, a client that asks for page after page until one is empty has  *)
(* seen every order or audit event that was there when it began, although  *)
(* rows are recorded, also behind the ones it has read, between its        *)
(* requests and between the scans of one (for orders, as long as the rows  *)
(* that match fit under the scan cap).                                     *)
THEOREM PagingMissesNothing == PagingSpec => []PagingComplete
<1>1. PagingInv => PagingComplete
  BY DEF PagingInv
<1> QED BY <1>1, PagingInvariant, PTL

-------------------------------------------------------------------------------
(* Sums over the markets.  SumFunction folds over subsets; that the fold   *)
(* meets its own equation is proved by taking the least size at which it   *)
(* would not.                                                              *)

Pick(s) == CHOOSE x \in s : TRUE

(* One round of the fold.                                                  *)
Round(S, f, g) == [s \in SUBSET S |-> IF s = {} THEN 0 ELSE f[Pick(s)] + g[s \ {Pick(s)}]]

(* The sum is the fold at the whole domain.                                *)
LEMMA SumIsFold == \A f : SumFunction(f) = (CHOOSE g : g = Round(DOMAIN f, f, g))[DOMAIN f]
  BY Zenon DEF SumFunction, SumFunctionOnSet, FoldFunctionOnSet, MapThenFoldSet, Round, Pick

(* A set of naturals has a least member.                                   *)
LEMMA LeastMember ==
  ASSUME NEW T, T \subseteq Nat, T # {}
  PROVE  \E n \in T : \A m \in Nat : m < n => m \notin T
<1>1. \E x \in T : \A y \in T : ~(<<y, x>> \in OpToRel(<, Nat))
  BY NatLessThanWellFounded, WFMin
<1> QED BY <1>1 DEF OpToRel

(* Taking out the element that is picked.                                  *)
LEMMA PickOut ==
  ASSUME NEW S, IsFiniteSet(S), NEW s \in SUBSET S, s # {}
  PROVE  /\ Pick(s) \in s /\ Pick(s) \in S /\ s \ {Pick(s)} \in SUBSET S
         /\ Cardinality(s) \in Nat \ {0} /\ Cardinality(s \ {Pick(s)}) = Cardinality(s) - 1
<1>1. Pick(s) \in s
  BY DEF Pick
<1>2. IsFiniteSet(s)
  BY FS_Subset
<1>3. Cardinality(s \ {Pick(s)}) = Cardinality(s) - 1 /\ Cardinality(s) \in Nat
  BY <1>1, <1>2, FS_RemoveElement, FS_CardinalityType
<1>4. Cardinality(s) # 0
  BY <1>2, FS_EmptySet
<1> QED BY <1>1, <1>3, <1>4

(* A round of a fold of numbers is one.                                    *)
LEMMA RoundType ==
  ASSUME NEW S, IsFiniteSet(S), NEW f \in [S -> Int], NEW g \in [SUBSET S -> Int]
  PROVE  Round(S, f, g) \in [SUBSET S -> Int]
<1>1. ASSUME NEW s \in SUBSET S PROVE (IF s = {} THEN 0 ELSE f[Pick(s)] + g[s \ {Pick(s)}]) \in Int
  <2>1. CASE s = {}
    BY <2>1
  <2>2. CASE s # {}
    <3> DEFINE x == Pick(s)
               t == s \ {x}
    <3>1. x \in S /\ t \in SUBSET S
      BY <2>2, PickOut
    <3> HIDE DEF x, t
    <3>2. f[x] \in Int
      BY <3>1
    <3>3. g[t] \in Int
      BY <3>1
    <3>4. f[x] + g[t] \in Int
      BY <3>2, <3>3
    <3> QED BY <2>2, <3>4 DEF x, t
  <2> QED BY <2>1, <2>2
<1> QED BY <1>1 DEF Round

(* A fold that is right for subsets up to size n.                          *)
RightUpTo(S, f, n) ==
  \E g \in [SUBSET S -> Int] : \A s \in SUBSET S : Cardinality(s) <= n => g[s] = Round(S, f, g)[s]

(* One round more makes it right for the next size.                        *)
LEMMA OneRoundMore ==
  ASSUME NEW S, IsFiniteSet(S), NEW f \in [S -> Int], NEW n \in Nat, RightUpTo(S, f, n)
  PROVE  RightUpTo(S, f, n + 1)
<1>1. PICK g \in [SUBSET S -> Int] : \A s \in SUBSET S : Cardinality(s) <= n => g[s] = Round(S, f, g)[s]
  BY DEF RightUpTo
<1> DEFINE h == Round(S, f, g)
<1>2. h \in [SUBSET S -> Int]
  BY RoundType
<1>3. ASSUME NEW s \in SUBSET S, Cardinality(s) <= n + 1 PROVE h[s] = Round(S, f, h)[s]
  <2>1. CASE s = {}
    BY <2>1 DEF Round
  <2>2. CASE s # {}
    <3> DEFINE t == s \ {Pick(s)}
    <3>1. t \in SUBSET S /\ Cardinality(s) \in Nat /\ Cardinality(t) = Cardinality(s) - 1
      BY <2>2, PickOut
    <3>2. Cardinality(t) <= n
      BY <1>3, <3>1
    <3>3. g[t] = h[t]
      BY <1>1, <3>1, <3>2
    <3>4. h[s] = f[Pick(s)] + g[t]
      BY <2>2 DEF Round
    <3>5. Round(S, f, h)[s] = f[Pick(s)] + h[t]
      BY <2>2 DEF Round
    <3> QED BY <3>3, <3>4, <3>5
  <2> QED BY <2>1, <2>2
<1> HIDE DEF h
<1> QED BY <1>2, <1>3 DEF RightUpTo

(* So there is a fold that is right for every subset.                      *)
LEMMA FoldExists ==
  ASSUME NEW S, IsFiniteSet(S), NEW f \in [S -> Int]
  PROVE  \E g \in [SUBSET S -> Int] : g = Round(S, f, g)
<1> DEFINE T == {n \in Nat : ~RightUpTo(S, f, n)}
<1>1. RightUpTo(S, f, 0)
  <2> DEFINE z == [s \in SUBSET S |-> 0]
  <2>1. z \in [SUBSET S -> Int]
    OBVIOUS
  <2>2. ASSUME NEW s \in SUBSET S, Cardinality(s) <= 0 PROVE s = {}
    <3>1. s # {} => Cardinality(s) \in Nat \ {0}
      BY PickOut
    <3> QED BY <2>2, <3>1
  <2>3. ASSUME NEW s \in SUBSET S, Cardinality(s) <= 0 PROVE z[s] = Round(S, f, z)[s]
    <3>1. s = {}
      BY <2>2, <2>3
    <3> QED BY <3>1 DEF Round
  <2> HIDE DEF z
  <2> QED BY <2>1, <2>3 DEF RightUpTo
<1>2. T = {}
  <2> SUFFICES ASSUME T # {} PROVE FALSE
    OBVIOUS
  <2>1. PICK n \in T : \A m \in Nat : m < n => m \notin T
    <3>1. T \subseteq Nat
      OBVIOUS
    <3> HIDE DEF T
    <3> QED BY <3>1, LeastMember
  <2>2. n \in Nat /\ n # 0
    BY <1>1, <2>1
  <2>3. n - 1 \in Nat /\ n - 1 < n /\ (n - 1) + 1 = n
    BY <2>2
  <2>4. RightUpTo(S, f, n - 1)
    BY <2>1, <2>3
  <2>5. RightUpTo(S, f, (n - 1) + 1)
    BY <2>3, <2>4, OneRoundMore
  <2>6. RightUpTo(S, f, n)
    BY <2>3, <2>5
  <2> QED BY <2>1, <2>6
<1>3. Cardinality(S) \in Nat
  BY FS_CardinalityType
<1>4. RightUpTo(S, f, Cardinality(S))
  BY <1>2, <1>3
<1>5. PICK g \in [SUBSET S -> Int] : \A s \in SUBSET S : Cardinality(s) <= Cardinality(S) => g[s] = Round(S, f, g)[s]
  BY <1>4 DEF RightUpTo
<1>6. \A s \in SUBSET S : g[s] = Round(S, f, g)[s]
  BY <1>5, FS_Subset
<1>7. Round(S, f, g) \in [SUBSET S -> Int]
  BY RoundType
<1> DEFINE h == Round(S, f, g)
<1>8. h \in [SUBSET S -> Int] /\ \A s \in SUBSET S : g[s] = h[s]
  BY <1>6, <1>7
<1> HIDE DEF h
<1>9. g = h
  BY <1>8
<1> QED BY <1>9 DEF h

(* The fold of a function on a finite set, with its equation.              *)
Folds(S, f, g) ==
  /\ g \in [SUBSET S -> Int] /\ g[{}] = 0
  /\ \A s \in SUBSET S : s # {} => g[s] = f[Pick(s)] + g[s \ {Pick(s)}]

(* The sum is a fold that meets its equation.                              *)
LEMMA SumUnfolds ==
  ASSUME NEW S, IsFiniteSet(S), NEW f \in [S -> Int]
  PROVE  \E g : Folds(S, f, g) /\ SumFunction(f) = g[S]
<1> DEFINE g == CHOOSE g : g = Round(S, f, g)
<1>1. PICK r \in [SUBSET S -> Int] : r = Round(S, f, r)
  BY FoldExists
<1>2. g = Round(S, f, g)
  BY <1>1
<1>3. DOMAIN f = S
  OBVIOUS
<1>4. SumFunction(f) = g[S]
  BY <1>3, SumIsFold
<1> HIDE DEF g
<1>5. g[{}] = 0 /\ \A s \in SUBSET S : s # {} => g[s] = f[Pick(s)] + g[s \ {Pick(s)}]
  BY <1>2 DEF Round
<1> DEFINE T == {n \in Nat : \E s \in SUBSET S : Cardinality(s) = n /\ g[s] \notin Int}
<1>6. T = {}
  <2> SUFFICES ASSUME T # {} PROVE FALSE
    OBVIOUS
  <2>1. PICK n \in T : \A m \in Nat : m < n => m \notin T
    <3>1. T \subseteq Nat
      OBVIOUS
    <3> HIDE DEF T
    <3> QED BY <3>1, LeastMember
  <2>2. PICK s \in SUBSET S : Cardinality(s) = n /\ g[s] \notin Int
    BY <2>1
  <2>3. s # {}
    <3>1. g[{}] \in Int
      BY <1>5
    <3> QED BY <2>2, <3>1
  <2> DEFINE t == s \ {Pick(s)}
  <2>4. t \in SUBSET S /\ Pick(s) \in S /\ n \in Nat /\ Cardinality(t) = n - 1 /\ n - 1 \in Nat
    BY <2>1, <2>2, <2>3, PickOut
  <2>5. g[t] \in Int
    BY <2>1, <2>4
  <2>6. g[s] = f[Pick(s)] + g[t]
    BY <1>5, <2>3
  <2> HIDE DEF t
  <2> QED BY <2>2, <2>4, <2>5, <2>6
<1>7. \A s \in SUBSET S : g[s] \in Int
  <2> SUFFICES ASSUME NEW s \in SUBSET S, g[s] \notin Int PROVE FALSE
    OBVIOUS
  <2>1. Cardinality(s) \in Nat
    BY FS_Subset, FS_CardinalityType
  <2> QED BY <1>6, <2>1
<1>8. g \in [SUBSET S -> Int]
  <2>1. g = [s \in SUBSET S |-> g[s]]
    BY <1>2 DEF Round
  <2> QED BY <1>7, <2>1
<1> QED BY <1>4, <1>5, <1>8 DEF Folds

(* A sum of numbers is a number.                                           *)
LEMMA SumType == ASSUME NEW S, IsFiniteSet(S), NEW f \in [S -> Int] PROVE SumFunction(f) \in Int
<1>1. PICK g : Folds(S, f, g) /\ SumFunction(f) = g[S]
  BY SumUnfolds
<1>2. S \in SUBSET S
  OBVIOUS
<1> QED BY <1>1, <1>2 DEF Folds

(* A sum moves with one of its terms.                                      *)
LEMMA SumMoves ==
  ASSUME NEW S, IsFiniteSet(S), NEW f \in [S -> Int], NEW h \in [S -> Int], NEW c \in S,
         \A x \in S : x # c => h[x] = f[x]
  PROVE  SumFunction(h) = SumFunction(f) + (h[c] - f[c])
<1>1. PICK g : Folds(S, f, g) /\ SumFunction(f) = g[S]
  BY SumUnfolds
<1>2. PICK k : Folds(S, h, k) /\ SumFunction(h) = k[S]
  BY SumUnfolds
<1> DEFINE Off(s) == k[s] # g[s] + (IF c \in s THEN h[c] - f[c] ELSE 0)
           T == {n \in Nat : \E s \in SUBSET S : Cardinality(s) = n /\ Off(s)}
<1>3. T = {}
  <2> SUFFICES ASSUME T # {} PROVE FALSE
    OBVIOUS
  <2>1. PICK n \in T : \A m \in Nat : m < n => m \notin T
    <3>1. T \subseteq Nat
      OBVIOUS
    <3> HIDE DEF T
    <3> QED BY <3>1, LeastMember
  <2>2. PICK s \in SUBSET S : Cardinality(s) = n /\ Off(s)
    BY <2>1
  <2>3. s # {}
    <3>1. k[{}] = 0 /\ g[{}] = 0 /\ c \notin {}
      BY <1>1, <1>2 DEF Folds
    <3>2. ~Off({})
      BY <3>1
    <3> HIDE DEF Off
    <3> QED BY <2>2, <3>2
  <2> DEFINE x == Pick(s)
             t == s \ {x}
  <2>4. t \in SUBSET S /\ x \in S /\ x \in s /\ n \in Nat /\ Cardinality(t) = n - 1 /\ n - 1 \in Nat
    BY <2>1, <2>2, <2>3, PickOut
  <2>5. ~Off(t)
    BY <2>1, <2>4
  <2>6. g[s] = f[x] + g[t] /\ k[s] = h[x] + k[t]
    BY <1>1, <1>2, <2>3 DEF Folds
  <2>7. g[t] \in Int /\ f[x] \in Int /\ f[c] \in Int /\ h[c] \in Int
    BY <1>1, <2>4 DEF Folds
  <2>8. (c \in s <=> c = x \/ c \in t) /\ ~(c = x /\ c \in t)
    BY <2>4
  <2>9. Off(s)
    BY <2>2
  <2> HIDE DEF t, x
  <2>10. CASE x = c
    BY <2>5, <2>6, <2>7, <2>8, <2>9, <2>10
  <2>11. CASE x # c
    <3>1. h[x] = f[x]
      BY <2>4, <2>11
    <3> QED BY <2>5, <2>6, <2>7, <2>8, <2>9, <2>11, <3>1
  <2> QED BY <2>10, <2>11
<1>4. Cardinality(S) \in Nat /\ S \in SUBSET S
  BY FS_CardinalityType
<1>5. ~Off(S)
  BY <1>3, <1>4
<1> QED BY <1>1, <1>2, <1>5

(* A sum of zeros is zero.                                                 *)
LEMMA SumOfNothing ==
  ASSUME NEW S, IsFiniteSet(S), NEW f \in [S -> Int], \A x \in S : f[x] = 0
  PROVE  SumFunction(f) = 0
<1>1. PICK g : Folds(S, f, g) /\ SumFunction(f) = g[S]
  BY SumUnfolds
<1> DEFINE T == {n \in Nat : \E s \in SUBSET S : Cardinality(s) = n /\ g[s] # 0}
<1>2. T = {}
  <2> SUFFICES ASSUME T # {} PROVE FALSE
    OBVIOUS
  <2>1. PICK n \in T : \A m \in Nat : m < n => m \notin T
    <3>1. T \subseteq Nat
      OBVIOUS
    <3> HIDE DEF T
    <3> QED BY <3>1, LeastMember
  <2>2. PICK s \in SUBSET S : Cardinality(s) = n /\ g[s] # 0
    BY <2>1
  <2>3. s # {}
    BY <1>1, <2>2 DEF Folds
  <2> DEFINE x == Pick(s)
             t == s \ {x}
  <2>4. t \in SUBSET S /\ x \in S /\ n \in Nat /\ Cardinality(t) = n - 1 /\ n - 1 \in Nat
    BY <2>1, <2>2, <2>3, PickOut
  <2>5. g[t] = 0
    BY <2>1, <2>4
  <2>6. g[s] = f[x] + g[t]
    BY <1>1, <2>3 DEF Folds
  <2>7. f[x] = 0
    BY <2>4
  <2> HIDE DEF t, x
  <2> QED BY <2>2, <2>5, <2>6, <2>7
<1>3. Cardinality(S) \in Nat /\ S \in SUBSET S
  BY FS_CardinalityType
<1> QED BY <1>1, <1>2, <1>3

-------------------------------------------------------------------------------
(* The simulated exchange.                                                 *)

(* The margin check of a fill, and what the account is when it passes.     *)
LEMMA Executed ==
  ASSUME NEW a \in Accounts, NEW c \in Markets, NEW o \in OrderSet
  PROVE  LET d == FillSize(a.pos[c], o)
             r == executeOrder(a, c, o)
             fee == (AbsInt(d) * o.price) \div FeeDen
         IN  /\ d \in Int /\ fee \in Int /\ r.acct \in Accounts
             /\ \/ r.acct = a /\ r.filled = 0
                \/ /\ d # 0 /\ r.filled = d
                   /\ r.acct.pos = [a.pos EXCEPT ![c] = [qty |-> a.pos[c].qty + d, entry |-> NextEntry(a.pos[c], d, o.price)]]
                   /\ r.acct.cash = a.cash + Realized(a.pos[c], d, o.price) - fee
                   /\ r.acct.fees = a.fees + fee
                   /\ r.acct.mark = [a.mark EXCEPT ![c] = o.price]
                   /\ r.acct.asset = a.asset /\ r.acct.lever = a.lever
<1> DEFINE p == a.pos[c]
           d == FillSize(p, o)
           f == Filled(a, c, o, d)
           r == executeOrder(a, c, o)
           fee == (AbsInt(d) * o.price) \div FeeDen
           m == [f EXCEPT !.mark[c] = o.price]
<1>1. p \in PositionSet /\ o.price \in Int
  BY DEF Accounts, OrderSet
<1>2. d \in Int
  <2> HIDE DEF p
  <2> QED BY <1>1, FillSizes
<1>3. fee \in Int
  <2>1. AbsInt(d) \in Nat /\ o.price \in Nat /\ FeeDen \in Nat \ {0}
    BY <1>2, AbsFacts, SimAssumption DEF OrderSet
  <2>2. AbsInt(d) * o.price \in Int
    BY <2>1
  <2> QED BY <2>1, <2>2, QuotientType
<1>4. f \in Accounts
  <2> HIDE DEF d
  <2> QED BY <1>2, FilledBooks
<1>5. m \in Accounts
  <2> HIDE DEF f
  <2> QED BY <1>1, <1>4 DEF Accounts
<1>6. \/ r.acct = a /\ r.filled = 0
      \/ d # 0 /\ r.acct = m /\ r.filled = d
  <2> DEFINE up == WouldIncrease(p, o)
             over == Margin(f) > Equity(f)
  <2>1. r = CASE up -> [acct |-> a, ok |-> FALSE, filled |-> 0]
              [] ~up /\ d = 0 -> [acct |-> a, ok |-> TRUE, filled |-> 0]
              [] OTHER -> IF over THEN [acct |-> a, ok |-> FALSE, filled |-> 0]
                          ELSE [acct |-> m, ok |-> TRUE, filled |-> d]
    BY DEF executeOrder
  <2>2. up \in BOOLEAN
    BY DEF WouldIncrease, OrderSet
  <2> HIDE DEF p, d, f, r, m, up, over
  <2> QED BY <2>1, <2>2
<1> DEFINE n == [qty |-> p.qty + d, entry |-> NextEntry(p, d, o.price)]
           e == Realized(p, d, o.price)
<1>7. f = [a EXCEPT !.pos[c] = n, !.cash = @ + e - fee, !.fees = @ + fee]
  BY DEF Filled
<1> HIDE DEF p, d, r, fee, n, e
<1>8. /\ m.pos = [a.pos EXCEPT ![c] = n] /\ m.cash = a.cash + e - fee /\ m.fees = a.fees + fee
      /\ m.mark = [a.mark EXCEPT ![c] = o.price] /\ m.asset = a.asset /\ m.lever = a.lever
  <2> HIDE DEF f
  <2>1. /\ f.pos = [a.pos EXCEPT ![c] = n] /\ f.cash = a.cash + e - fee /\ f.fees = a.fees + fee
        /\ f.mark = a.mark /\ f.asset = a.asset /\ f.lever = a.lever
    BY <1>7 DEF Accounts
  <2>2. /\ m.pos = f.pos /\ m.cash = f.cash /\ m.fees = f.fees /\ m.asset = f.asset /\ m.lever = f.lever
        /\ m.mark = [f.mark EXCEPT ![c] = o.price]
    BY <1>4 DEF Accounts
  <2> QED BY <2>1, <2>2
<1> HIDE DEF f, m
<1>9. r.acct \in Accounts
  BY <1>5, <1>6
<1> QED BY <1>2, <1>3, <1>6, <1>8, <1>9 DEF p, d, r, fee, n, e

(* A fill moves the cost of a position by what it realizes and what it     *)
(* pays, when the average is exact.                                        *)
LEMMA CostMoves ==
  ASSUME NEW p \in PositionSet, NEW d \in Int, d # 0, NEW px \in Nat,
         p.qty * d > 0 => (AbsInt(p.qty) * p.entry + AbsInt(d) * px) % AbsInt(p.qty + d) = 0
  PROVE  (p.qty + d) * NextEntry(p, d, px) = p.qty * p.entry + Realized(p, d, px) + d * px
<1> DEFINE q == p.qty
           e == p.entry
           lesser == Min({AbsInt(q), AbsInt(d)})
           v == NextEntry(p, d, px)
           g == Realized(p, d, px)
           total == AbsInt(q) * e + AbsInt(d) * px
<1>1. q \in Int /\ e \in Int /\ AbsInt(q) \in Nat /\ AbsInt(d) \in Nat
  BY AbsFacts DEF PositionSet
<1>2. lesser = IF AbsInt(q) <= AbsInt(d) THEN AbsInt(q) ELSE AbsInt(d)
  BY <1>1, MinPair
<1>3. g = IF q * d >= 0 THEN 0 ELSE lesser * (px - e) * (IF q < 0 THEN -1 ELSE 1)
  BY DEF Realized
<1>4. v = CASE q + d = 0 -> 0
            [] q + d # 0 /\ q * d > 0 -> total \div AbsInt(q + d)
            [] q + d # 0 /\ (q = 0 \/ q * (q + d) < 0) -> px
            [] OTHER -> e
  BY DEF NextEntry
<1>5. q * d > 0 => total % AbsInt(q + d) = 0
  OBVIOUS
<1>6. total \in Int
  BY <1>1
<1> HIDE DEF q, e, lesser, v, g, total
<1>7. CASE q = 0
  <2>1. q * d = 0 /\ q + d # 0
    BY <1>1, <1>7
  <2>2. v = px /\ g = 0
    BY <1>3, <1>4, <1>7, <2>1
  <2>3. (q + d) * px = d * px /\ q * e = 0
    BY <1>1, <1>7
  <2> QED BY <1>1, <2>2, <2>3 DEF q, e, v, g
<1>8. CASE q > 0 /\ d > 0
  <2>1. q * d > 0 /\ q + d # 0 /\ AbsInt(q + d) = q + d /\ AbsInt(q) = q /\ AbsInt(d) = d /\ q + d \in Nat \ {0}
    BY <1>1, <1>8 DEF AbsInt
  <2>2. v = total \div (q + d) /\ g = 0 /\ total % (q + d) = 0
    BY <1>1, <1>3, <1>4, <1>5, <2>1
  <2>3. (q + d) * (total \div (q + d)) = total
    BY <1>6, <2>1, <2>2
  <2>4. total = q * e + d * px
    BY <2>1 DEF total
  <2>5. (q + d) * v = q * e + d * px
    BY <2>2, <2>3, <2>4
  <2> QED BY <1>1, <2>2, <2>5 DEF q, e, v, g
<1>9. CASE q < 0 /\ d < 0
  <2> DEFINE n == -q - d
  <2>1. q * d > 0 /\ q + d # 0 /\ AbsInt(q + d) = n /\ AbsInt(q) = -q /\ AbsInt(d) = -d /\ n \in Nat \ {0}
    BY <1>1, <1>9 DEF AbsInt
  <2>2. q + d = -n
    BY <1>1
  <2> HIDE DEF n
  <2>3. v = total \div n /\ g = 0 /\ total % n = 0
    BY <1>1, <1>3, <1>4, <1>5, <2>1
  <2>4. n * (total \div n) = total /\ v \in Int
    BY <1>6, <2>1, <2>3
  <2>5. total = -(q * e) - (d * px)
    <3>1. total = (-q) * e + (-d) * px
      BY <2>1 DEF total
    <3> QED BY <1>1, <3>1
  <2>6. (-n) * v = -(n * v)
    BY <2>1, <2>4
  <2>7. (q + d) * v = -total
    BY <2>2, <2>3, <2>4, <2>6
  <2>8. q * e \in Int /\ d * px \in Int
    BY <1>1
  <2>9. (q + d) * v = q * e + d * px
    BY <2>5, <2>7, <2>8
  <2> QED BY <1>1, <2>3, <2>8, <2>9 DEF q, e, v, g
<1>10. CASE q > 0 /\ d < 0
  <2>1. q * d < 0 /\ AbsInt(q) = q /\ AbsInt(d) = -d
    BY <1>1, <1>10 DEF AbsInt
  <2>2. g = lesser * (px - e) * 1
    BY <1>1, <1>3, <1>10, <2>1
  <2>3. CASE q + d = 0
    <3>1. v = 0 /\ lesser = q /\ d = -q
      BY <1>1, <1>2, <1>4, <2>1, <2>3
    <3>2. q * (px - e) * 1 + q * e + (-q) * px = 0
      BY <1>1
    <3>3. (q + d) * v = 0 /\ g \in Int /\ q * e \in Int
      BY <1>1, <2>2, <3>1
    <3> QED BY <2>2, <3>1, <3>2, <3>3 DEF q, e, v, g
  <2>4. CASE q + d > 0
    <3>1. ~(q * d > 0) /\ ~(q = 0) /\ ~(q * (q + d) < 0) /\ q + d # 0
      BY <1>1, <1>10, <2>1, <2>4
    <3>2. v = e
      BY <1>4, <3>1
    <3>3. lesser = -d
      BY <1>1, <1>2, <2>1, <2>4
    <3>4. (q + d) * e = q * e + (-d) * (px - e) * 1 + d * px
      BY <1>1
    <3> QED BY <2>2, <3>2, <3>3, <3>4 DEF q, e, v, g
  <2>5. CASE q + d < 0
    <3>1. ~(q * d > 0) /\ q * (q + d) < 0 /\ q + d # 0
      BY <1>1, <1>10, <2>1, <2>5
    <3>2. v = px
      BY <1>4, <3>1
    <3>3. lesser = q
      BY <1>1, <1>2, <2>1, <2>5
    <3>4. (q + d) * px = q * e + q * (px - e) * 1 + d * px
      BY <1>1
    <3> QED BY <2>2, <3>2, <3>3, <3>4 DEF q, e, v, g
  <2> QED BY <1>1, <2>3, <2>4, <2>5
<1>11. CASE q < 0 /\ d > 0
  <2>1. q * d < 0 /\ AbsInt(q) = -q /\ AbsInt(d) = d
    BY <1>1, <1>11 DEF AbsInt
  <2>2. g = lesser * (px - e) * (-1)
    BY <1>1, <1>3, <1>11, <2>1
  <2>3. CASE q + d = 0
    <3>1. v = 0 /\ lesser = d /\ q = -d
      BY <1>1, <1>2, <1>4, <2>1, <2>3
    <3>2. d * (px - e) * (-1) + (-d) * e + d * px = 0
      BY <1>1
    <3>3. (q + d) * v = 0 /\ g \in Int /\ q * e \in Int
      BY <1>1, <2>2, <3>1
    <3> QED BY <2>2, <3>1, <3>2, <3>3 DEF q, e, v, g
  <2>4. CASE q + d < 0
    <3>1. ~(q * d > 0) /\ ~(q = 0) /\ ~(q * (q + d) < 0) /\ q + d # 0
      BY <1>1, <1>11, <2>1, <2>4
    <3>2. v = e
      BY <1>4, <3>1
    <3>3. lesser = d
      BY <1>1, <1>2, <2>1, <2>4
    <3>4. (q + d) * e = q * e + d * (px - e) * (-1) + d * px
      BY <1>1
    <3> QED BY <2>2, <3>2, <3>3, <3>4 DEF q, e, v, g
  <2>5. CASE q + d > 0
    <3>1. ~(q * d > 0) /\ q * (q + d) < 0 /\ q + d # 0
      BY <1>1, <1>11, <2>1, <2>5
    <3>2. v = px
      BY <1>4, <3>1
    <3>3. lesser = -q
      BY <1>1, <1>2, <2>1, <2>5
    <3>4. (q + d) * px = q * e + (-q) * (px - e) * (-1) + d * px
      BY <1>1
    <3> QED BY <2>2, <3>2, <3>3, <3>4 DEF q, e, v, g
  <2> QED BY <1>1, <2>3, <2>4, <2>5
<1> QED BY <1>1, <1>7, <1>8, <1>9, <1>10, <1>11

(* The order that waits between the two locks of IOCMarket.                *)
IocSet == [coin : Markets, buy : BOOLEAN, reduce : BOOLEAN, size : Nat, price : Nat]

(* Assets have a number of their own, leverages are settings.              *)
Numbered(a) ==
  a.asset \in [Markets -> 0..Cardinality(Markets)] /\ a.lever \in [1..Cardinality(Markets) -> Levers \cup {0}]

(* A position that is closed leaves no entry price behind.                 *)
Settled(a) == \A c \in Markets : a.pos[c].qty = 0 => a.pos[c] = Flat

SimShape ==
  acct \in Accounts /\ Numbered(acct) /\ Settled(acct) /\ ioc \in IocSet \cup {NoOrder} /\ told \in Int

(* What the account was worth in trades: cash and fees less the cost of    *)
(* the open positions.                                                     *)
Cost(a) == [c \in Markets |-> a.pos[c].qty * a.pos[c].entry]

LedgerOf(a) == a.cash + a.fees - SumFunction(Cost(a))

(* A price is there for every market, and slippage leaves it one.          *)
LEMMA PricesPositive ==
  ASSUME NEW a \in Accounts, NEW c \in Markets, NEW buy \in BOOLEAN
  PROVE  /\ resolveMarkPrice(a, c) \in Nat \ {0}
         /\ applySlippage(resolveMarkPrice(a, c), buy) \in Nat
<1> DEFINE m == resolveMarkPrice(a, c)
           k == m \div SlipDen
<1>1. a.mark[c] \in Int /\ a.pos[c].entry \in Int
  BY DEF Accounts, PositionSet
<1>2. m \in Nat \ {0}
  BY <1>1, SimAssumption DEF resolveMarkPrice
<1> HIDE DEF m
<1>3. k \in Nat /\ k <= m
  <2>1. SlipDen \in Nat \ {0}
    BY SimAssumption
  <2>2. k \in Nat /\ SlipDen * k <= m
    BY <1>2, <2>1
  <2> HIDE DEF k
  <2> QED BY <1>2, <2>1, <2>2
<1>4. applySlippage(m, buy) = IF buy THEN m + k ELSE m - k
  BY DEF applySlippage
<1> HIDE DEF k
<1>5. applySlippage(m, buy) \in Nat
  BY <1>2, <1>3, <1>4
<1> QED BY <1>2, <1>5 DEF m

(* An order is executed by its four fields.                                *)
LEMMA PlainOrder ==
  ASSUME NEW a, NEW c, NEW o \in IocSet
  PROVE  LET n == [buy |-> o.buy, reduce |-> o.reduce, size |-> o.size, price |-> o.price]
         IN  n \in OrderSet /\ n.price = o.price /\ executeOrder(a, c, o) = executeOrder(a, c, n)
<1> DEFINE n == [buy |-> o.buy, reduce |-> o.reduce, size |-> o.size, price |-> o.price]
<1>1. n \in OrderSet /\ n.buy = o.buy /\ n.reduce = o.reduce /\ n.size = o.size /\ n.price = o.price
  BY DEF IocSet, OrderSet
<1> HIDE DEF n
<1>2. FillSize(a.pos[c], o) = FillSize(a.pos[c], n)
  BY <1>1 DEF FillSize
<1>3. WouldIncrease(a.pos[c], o) = WouldIncrease(a.pos[c], n)
  BY <1>1 DEF WouldIncrease
<1>4. \A d : Filled(a, c, o, d) = Filled(a, c, n, d)
  BY <1>1 DEF Filled
<1>5. executeOrder(a, c, o) = executeOrder(a, c, n)
  BY <1>1, <1>2, <1>3, <1>4, Zenon DEF executeOrder
<1> QED BY <1>1, <1>5 DEF n

(* The order that closes a position.                                       *)
LEMMA ClosingTyped ==
  ASSUME NEW a \in Accounts, NEW c \in Markets
  PROVE  ClosingOrder(a, c) \in OrderSet
<1> DEFINE buy == a.pos[c].qty < 0
           n == AbsInt(a.pos[c].qty)
           px == applySlippage(resolveMarkPrice(a, c), buy)
<1>1. a.pos[c].qty \in Int
  BY DEF Accounts, PositionSet
<1>2. buy \in BOOLEAN /\ n \in Nat
  BY <1>1, AbsFacts
<1>3. px \in Nat
  <2> HIDE DEF buy
  <2> QED BY <1>2, PricesPositive
<1>4. ClosingOrder(a, c) = [buy |-> buy, reduce |-> TRUE, size |-> n, price |-> px]
  BY DEF ClosingOrder
<1> HIDE DEF buy, n, px
<1> QED BY <1>2, <1>3, <1>4 DEF OrderSet

(* A listed coin has a number; nothing else of the account moves.          *)
LEMMA ListedTyped ==
  ASSUME NEW a \in Accounts, Numbered(a), NEW c \in Markets
  PROVE  LET b == Listed(a, c)
         IN  /\ b \in Accounts /\ Numbered(b)
             /\ b.pos = a.pos /\ b.cash = a.cash /\ b.fees = a.fees /\ b.mark = a.mark /\ b.lever = a.lever
<1> DEFINE M == Cardinality(Markets)
           T == {d \in Markets : a.asset[d] # 0}
           n == 1 + Cardinality(T)
<1>1. Listed(a, c) = IF a.asset[c] # 0 THEN a ELSE [a EXCEPT !.asset[c] = n]
  BY DEF Listed
<1>2. CASE a.asset[c] # 0
  BY <1>1, <1>2
<1>3. CASE a.asset[c] = 0
  <2>1. IsFiniteSet(Markets \ {c}) /\ Cardinality(Markets \ {c}) = M - 1 /\ M \in Nat
    BY SimAssumption, FS_RemoveElement, FS_CardinalityType
  <2>2. T \subseteq Markets \ {c}
    BY <1>3
  <2> HIDE DEF T
  <2>3. Cardinality(T) \in Nat /\ Cardinality(T) <= M - 1
    BY <2>1, <2>2, FS_Subset, FS_CardinalityType
  <2>4. n \in 0..M
    BY <2>1, <2>3
  <2> HIDE DEF n
  <2> DEFINE b == [a EXCEPT !.asset[c] = n]
  <2>5. b.asset = [a.asset EXCEPT ![c] = n] /\ b.pos = a.pos /\ b.cash = a.cash /\ b.fees = a.fees /\ b.mark = a.mark /\ b.lever = a.lever
    BY DEF Accounts
  <2>6. b \in Accounts
    <3>1. n \in Int
      BY <2>1, <2>4
    <3> QED BY <3>1 DEF Accounts
  <2> HIDE DEF b
  <2>7. Numbered(b)
    BY <2>4, <2>5 DEF Numbered
  <2>8. Listed(a, c) = b
    BY <1>1, <1>3 DEF b
  <2> QED BY <2>5, <2>6, <2>7, <2>8
<1> QED BY <1>2, <1>3

(* Every step of the exchange leaves the books alone or executes an order. *)
Untouched == /\ acct' \in Accounts /\ Numbered(acct') /\ told' = told
             /\ acct'.pos = acct.pos /\ acct'.cash = acct.cash /\ acct'.fees = acct.fees

Executes ==
  \E c \in Markets, o \in OrderSet : \E a \in {acct, Listed(acct, c)} :
    /\ acct' = executeOrder(a, c, o).acct
    /\ told' = told + executeOrder(a, c, o).filled * o.price

(* A step is one or the other, and the waiting order stays one.            *)
LEMMA ExchangeSteps ==
  ASSUME SimShape, SimNext
  PROVE  (Untouched \/ Executes) /\ ioc' \in IocSet \cup {NoOrder}
<1> USE DEF SimShape
<1>1. ASSUME NEW c \in Markets, GetAssetIndex(c)
      PROVE  Untouched /\ ioc' \in IocSet \cup {NoOrder}
  <2>1. acct' = Listed(acct, c) /\ ioc' = ioc /\ told' = told
    BY <1>1 DEF GetAssetIndex
  <2> QED BY <2>1, ListedTyped DEF Untouched
<1>2. ASSUME NEW c \in Markets, ClosePosition(c)
      PROVE  Executes /\ ioc' \in IocSet \cup {NoOrder}
  <2> DEFINE o == ClosingOrder(acct, c)
  <2>1. o \in OrderSet
    BY ClosingTyped
  <2>2. acct' = executeOrder(acct, c, o).acct /\ told' = told + executeOrder(acct, c, o).filled * o.price /\ ioc' = ioc
    BY <1>2 DEF ClosePosition, Answered
  <2> HIDE DEF o
  <2> QED BY <2>1, <2>2, Zenon DEF Executes
<1>3. ASSUME NEW c \in Markets, NEW px \in Ticks, SetMarkPrice(c, px)
      PROVE  Untouched /\ ioc' \in IocSet \cup {NoOrder}
  <2>1. acct' = [acct EXCEPT !.mark[c] = px] /\ ioc' = ioc /\ told' = told /\ px \in Int
    BY <1>3, SimAssumption DEF SetMarkPrice
  <2> QED BY <2>1 DEF Untouched, Accounts, Numbered
<1>4. ASSUME NEW i \in 1..Cardinality(Markets), NEW v \in Levers, UpdateLeverage(i, v)
      PROVE  Untouched /\ ioc' \in IocSet \cup {NoOrder}
  <2>1. acct' = [acct EXCEPT !.lever[i] = v] /\ ioc' = ioc /\ told' = told /\ v \in Int
    BY <1>4, SimAssumption DEF UpdateLeverage
  <2>2. acct' \in Accounts /\ acct'.lever = [acct.lever EXCEPT ![i] = v] /\ acct'.asset = acct.asset
    BY <2>1 DEF Accounts
  <2>3. Numbered(acct')
    BY <2>2 DEF Numbered
  <2>4. acct'.pos = acct.pos /\ acct'.cash = acct.cash /\ acct'.fees = acct.fees
    BY <2>1 DEF Accounts
  <2> QED BY <2>1, <2>2, <2>3, <2>4 DEF Untouched
<1>5. ASSUME NEW c \in Markets, NEW buy \in BOOLEAN, NEW reduce \in BOOLEAN, NEW sz \in Sizes, NEW px \in Ticks,
             PlaceOrder(c, [buy |-> buy, reduce |-> reduce, size |-> sz, price |-> px])
      PROVE  Executes /\ ioc' \in IocSet \cup {NoOrder}
  <2> DEFINE o == [buy |-> buy, reduce |-> reduce, size |-> sz, price |-> px]
  <2>1. o \in OrderSet
    BY SimAssumption DEF OrderSet
  <2>2. acct' = executeOrder(acct, c, o).acct /\ told' = told + executeOrder(acct, c, o).filled * o.price /\ ioc' = ioc
    <3>1. PlaceOrder(c, o)
      BY <1>5
    <3> HIDE DEF o
    <3> QED BY <3>1 DEF PlaceOrder, Answered
  <2> HIDE DEF o
  <2> QED BY <2>1, <2>2, Zenon DEF Executes
<1>6. ASSUME NEW c \in Markets, NEW buy \in BOOLEAN, NEW reduce \in BOOLEAN, NEW sz \in Sizes, IOCMarket(c, buy, sz, reduce)
      PROVE  Untouched /\ ioc' \in IocSet \cup {NoOrder}
  <2> DEFINE px == applySlippage(resolveMarkPrice(acct, c), buy)
  <2>1. px \in Nat /\ sz \in Nat
    BY PricesPositive, SimAssumption
  <2>2. ioc' = [coin |-> c, buy |-> buy, reduce |-> reduce, size |-> sz, price |-> px] /\ acct' = acct /\ told' = told
    BY <1>6 DEF IOCMarket
  <2> HIDE DEF px
  <2>3. ioc' \in IocSet
    BY <2>1, <2>2 DEF IocSet
  <2> QED BY <2>2, <2>3 DEF Untouched
<1>7. ASSUME IOCPlaced
      PROVE  Executes /\ ioc' \in IocSet \cup {NoOrder}
  <2>1. ioc \in IocSet
    BY <1>7 DEF IOCPlaced
  <2> DEFINE c == ioc.coin
             a == Listed(acct, c)
             n == [buy |-> ioc.buy, reduce |-> ioc.reduce, size |-> ioc.size, price |-> ioc.price]
  <2>2. c \in Markets
    BY <2>1 DEF IocSet
  <2>3. acct' = executeOrder(a, c, ioc).acct /\ told' = told + executeOrder(a, c, ioc).filled * ioc.price /\ ioc' = NoOrder
    BY <1>7 DEF IOCPlaced, Answered
  <2>4. n \in OrderSet /\ n.price = ioc.price /\ executeOrder(a, c, ioc) = executeOrder(a, c, n)
    <3> HIDE DEF a, c
    <3> QED BY <2>1, PlainOrder
  <2>5. a \in {acct, Listed(acct, c)}
    OBVIOUS
  <2> HIDE DEF a, n
  <2>6. acct' = executeOrder(a, c, n).acct /\ told' = told + executeOrder(a, c, n).filled * n.price
    BY <2>3, <2>4
  <2> HIDE DEF c
  <2> QED BY <2>2, <2>3, <2>4, <2>5, <2>6, Zenon DEF Executes
<1> QED BY <1>1, <1>2, <1>3, <1>4, <1>5, <1>6, <1>7 DEF SimNext

(* An order keeps the numbers of the assets and settles what it closes.    *)
LEMMA OrderKeeps ==
  ASSUME NEW a \in Accounts, Numbered(a), Settled(a), NEW c \in Markets, NEW o \in OrderSet
  PROVE  Numbered(executeOrder(a, c, o).acct) /\ Settled(executeOrder(a, c, o).acct)
<1> DEFINE p == a.pos[c]
           d == FillSize(p, o)
           b == executeOrder(a, c, o).acct
           v == NextEntry(p, d, o.price)
           n == [qty |-> p.qty + d, entry |-> v]
<1>1. b = a \/ (b.pos = [a.pos EXCEPT ![c] = n] /\ b.asset = a.asset /\ b.lever = a.lever)
  <2> DEFINE r == executeOrder(a, c, o)
             fee == (AbsInt(d) * o.price) \div FeeDen
             g == Realized(p, d, o.price)
  <2>1. /\ d \in Int /\ fee \in Int /\ r.acct \in Accounts
        /\ \/ r.acct = a /\ r.filled = 0
           \/ /\ d # 0 /\ r.filled = d
              /\ r.acct.pos = [a.pos EXCEPT ![c] = n] /\ r.acct.cash = a.cash + g - fee /\ r.acct.fees = a.fees + fee
              /\ r.acct.mark = [a.mark EXCEPT ![c] = o.price] /\ r.acct.asset = a.asset /\ r.acct.lever = a.lever
    BY Executed
  <2> HIDE DEF d, n, fee, g
  <2> QED BY <2>1
<1>2. n.qty = 0 => n = Flat
  <2>1. p.qty + d = 0 => v = 0
    BY DEF NextEntry
  <2> QED BY <2>1 DEF Flat
<1>3. a.pos \in [Markets -> PositionSet]
  BY DEF Accounts
<1> HIDE DEF n, b
<1>4. Settled(b)
  <2>1. CASE b = a
    BY <2>1
  <2>2. CASE b.pos = [a.pos EXCEPT ![c] = n]
    BY <1>2, <1>3, <2>2 DEF Settled
  <2> QED BY <1>1, <2>1, <2>2
<1>5. Numbered(b)
  BY <1>1 DEF Numbered
<1> QED BY <1>4, <1>5 DEF b

(* The account stays one.                                                  *)
LEMMA ShapeKept == SimShape /\ [SimNext]_simVars => SimShape'
<1> SUFFICES ASSUME SimShape, [SimNext]_simVars PROVE SimShape'
  OBVIOUS
<1>1. CASE UNCHANGED simVars
  BY <1>1 DEF SimShape, simVars
<1>2. CASE SimNext
  <2>1. (Untouched \/ Executes) /\ ioc' \in IocSet \cup {NoOrder}
    BY <1>2, ExchangeSteps
  <2>2. CASE Untouched
    BY <2>1, <2>2 DEF Untouched, SimShape, Settled
  <2>3. CASE Executes
    <3>1. PICK c \in Markets, o \in OrderSet : \E a \in {acct, Listed(acct, c)} :
             /\ acct' = executeOrder(a, c, o).acct
             /\ told' = told + executeOrder(a, c, o).filled * o.price
      BY <2>3, Zenon DEF Executes
    <3>2. PICK a \in {acct, Listed(acct, c)} :
             acct' = executeOrder(a, c, o).acct /\ told' = told + executeOrder(a, c, o).filled * o.price
      BY <3>1, Zenon
    <3>3. a \in Accounts /\ Numbered(a) /\ a.pos = acct.pos
      BY <3>2, ListedTyped DEF SimShape
    <3> DEFINE d == FillSize(a.pos[c], o)
               r == executeOrder(a, c, o)
    <3>4. r.acct \in Accounts /\ d \in Int /\ (r.filled = 0 \/ r.filled = d)
      BY <3>3, Executed, Zenon
    <3>6. Numbered(r.acct) /\ Settled(r.acct)
      BY <3>3, OrderKeeps DEF SimShape, Settled
    <3> HIDE DEF d
    <3>5. told' \in Int
      <4>1. r.filled \in Int /\ o.price \in Int /\ told \in Int
        BY <3>4 DEF SimShape, OrderSet
      <4> QED BY <3>2, <4>1
    <3> QED BY <2>1, <3>2, <3>4, <3>5, <3>6 DEF SimShape
  <2> QED BY <2>1, <2>2, <2>3
<1> QED BY <1>1, <1>2

(* The entry price of a position that a fill at px made grow is the exact  *)
(* average.  The code averages in floating point; the model in ticks.      *)
ExactAverage(p, q, px) ==
  p.qty * (q.qty - p.qty) > 0 => (AbsInt(p.qty) * p.entry + AbsInt(q.qty - p.qty) * px) % AbsInt(q.qty) = 0

AveragesExact == \A c \in Markets : ExactAverage(acct.pos[c], acct'.pos[c], acct'.mark[c])

(* The costs are numbers.                                                  *)
LEMMA CostTyped == \A a \in Accounts : Cost(a) \in [Markets -> Int] /\ SumFunction(Cost(a)) \in Int
<1> SUFFICES ASSUME NEW a \in Accounts PROVE Cost(a) \in [Markets -> Int] /\ SumFunction(Cost(a)) \in Int
  OBVIOUS
<1>1. ASSUME NEW c \in Markets PROVE a.pos[c].qty * a.pos[c].entry \in Int
  <2>1. a.pos[c].qty \in Int /\ a.pos[c].entry \in Int
    BY DEF Accounts, PositionSet
  <2> QED BY <2>1
<1>2. Cost(a) \in [Markets -> Int]
  BY <1>1 DEF Cost
<1> QED BY <1>2, SumType, SimAssumption

(* An order moves the ledger by what it is answered with.                  *)
LEMMA LedgerMoves ==
  ASSUME NEW a \in Accounts, NEW c \in Markets, NEW o \in OrderSet,
         LET b == executeOrder(a, c, o).acct IN ExactAverage(a.pos[c], b.pos[c], b.mark[c])
  PROVE  LedgerOf(executeOrder(a, c, o).acct) = LedgerOf(a) - executeOrder(a, c, o).filled * o.price
<1> DEFINE p == a.pos[c]
           d == FillSize(p, o)
           r == executeOrder(a, c, o)
           b == r.acct
           px == o.price
           fee == (AbsInt(d) * px) \div FeeDen
           v == NextEntry(p, d, px)
           g == Realized(p, d, px)
           n == [qty |-> p.qty + d, entry |-> v]
<1>1. /\ d \in Int /\ fee \in Int /\ b \in Accounts
      /\ \/ b = a /\ r.filled = 0
         \/ /\ d # 0 /\ r.filled = d
            /\ b.pos = [a.pos EXCEPT ![c] = n] /\ b.cash = a.cash + g - fee /\ b.fees = a.fees + fee
            /\ b.mark = [a.mark EXCEPT ![c] = px]
  BY Executed
<1>2. p \in PositionSet /\ px \in Nat /\ a.cash \in Int /\ a.fees \in Int
  BY DEF Accounts, OrderSet
<1>3. ExactAverage(p, b.pos[c], b.mark[c])
  OBVIOUS
<1> HIDE DEF r
<1>4. CASE b = a /\ r.filled = 0
  <2>1. LedgerOf(a) \in Int
    BY <1>2, CostTyped DEF LedgerOf
  <2>2. r.filled * px = 0
    BY <1>2, <1>4
  <2> QED BY <1>4, <2>1, <2>2 DEF r
<1>5. CASE /\ d # 0 /\ r.filled = d
           /\ b.pos = [a.pos EXCEPT ![c] = n] /\ b.cash = a.cash + g - fee /\ b.fees = a.fees + fee
           /\ b.mark = [a.mark EXCEPT ![c] = px]
  <2> DEFINE k == Cost(a)
             h == Cost(b)
  <2>1. k \in [Markets -> Int] /\ h \in [Markets -> Int] /\ SumFunction(k) \in Int
    BY <1>1, CostTyped
  <2>2. a.pos \in [Markets -> PositionSet] /\ a.mark \in [Markets -> Int]
    BY DEF Accounts
  <2>3. b.pos[c] = n /\ b.mark[c] = px /\ \A x \in Markets : x # c => b.pos[x] = a.pos[x]
    <3> HIDE DEF n, b, px
    <3> QED BY <1>5, <2>2
  <2>4. v \in Int /\ g \in Int /\ p.qty \in Int /\ p.entry \in Int
    <3> HIDE DEF p, d
    <3> QED BY <1>1, <1>2, FillTypes DEF PositionSet
  <2>5. n.qty = p.qty + d /\ n.entry = v
    OBVIOUS
  <2>6. p.qty * d > 0 => (AbsInt(p.qty) * p.entry + AbsInt(d) * px) % AbsInt(p.qty + d) = 0
    <3>1. ExactAverage(p, n, px)
      BY <1>3, <2>3
    <3> HIDE DEF p, d, n, px
    <3>2. n.qty - p.qty = d
      BY <1>1, <2>4, <2>5
    <3> QED BY <2>5, <3>1, <3>2 DEF ExactAverage
  <2>7. (p.qty + d) * v = p.qty * p.entry + g + d * px
    <3> HIDE DEF p, d, px
    <3> QED BY <1>1, <1>2, <1>5, <2>6, CostMoves
  <2>8. h[c] = (p.qty + d) * v
    <3> HIDE DEF n, b
    <3> QED BY <2>3, <2>5 DEF Cost
  <2>9. k[c] = p.qty * p.entry
    BY DEF Cost
  <2>10. \A x \in Markets : x # c => h[x] = k[x]
    <3> HIDE DEF n, b
    <3> QED BY <2>3 DEF Cost
  <2> HIDE DEF p, d, b, px, fee, v, g, n, k, h
  <2>11. SumFunction(h) = SumFunction(k) + (h[c] - k[c])
    BY <2>1, <2>10, SumMoves, SimAssumption
  <2>12. d * px \in Int /\ h[c] - k[c] = g + d * px
    <3>1. p.qty * p.entry \in Int /\ d * px \in Int
      BY <1>1, <1>2, <2>4
    <3> QED BY <2>4, <2>7, <2>8, <2>9, <3>1
  <2>13. b.cash + b.fees = a.cash + a.fees + g
    BY <1>1, <1>2, <1>5, <2>4
  <2>14. LedgerOf(b) = b.cash + b.fees - SumFunction(h) /\ LedgerOf(a) = a.cash + a.fees - SumFunction(k)
    BY DEF LedgerOf, h, k
  <2>15. LedgerOf(b) = LedgerOf(a) - d * px
    <3> DEFINE x == d * px
               s == SumFunction(k)
               t == SumFunction(h)
               u == a.cash + a.fees
               w == b.cash + b.fees
    <3>1. x \in Int /\ s \in Int /\ u \in Int /\ g \in Int /\ w = u + g /\ t = s + (g + x)
      BY <1>2, <2>1, <2>4, <2>11, <2>12, <2>13
    <3>2. LedgerOf(b) = w - t /\ LedgerOf(a) = u - s
      <4>1. a.cash \in Int /\ a.fees \in Int /\ b.cash \in Int /\ b.fees \in Int /\ s \in Int /\ t \in Int
        <5>1. b.cash \in Int /\ b.fees \in Int
          BY <1>1 DEF Accounts
        <5>2. t \in Int
          BY <1>1, CostTyped DEF h
        <5> QED BY <1>2, <2>1, <5>1, <5>2
      <4> HIDE DEF s, t
      <4> QED BY <2>14, <4>1 DEF s, t
    <3> HIDE DEF x, s, t, u, w
    <3>3. LedgerOf(b) = LedgerOf(a) - x
      BY <3>1, <3>2
    <3> QED BY <3>3 DEF x
  <2> QED BY <1>5, <2>15 DEF r, b, px, d
<1> QED BY <1>1, <1>4, <1>5

(* The ledger balances when there are no trades.                           *)
LEMMA LedgerStarts == SimInit => SimShape /\ LedgerBalances
<1> SUFFICES ASSUME SimInit PROVE SimShape /\ LedgerBalances
  OBVIOUS
<1>1. acct = NewAccount /\ ioc = NoOrder /\ told = 0
  BY DEF SimInit
<1>2. Flat \in PositionSet /\ Flat.qty = 0 /\ Flat.entry = 0
  BY DEF Flat, PositionSet
<1>3. NewAccount \in Accounts
  BY <1>2, SimAssumption DEF NewAccount, Accounts
<1>8. Numbered(NewAccount) /\ Settled(NewAccount)
  <2>1. Cardinality(Markets) \in Nat
    BY SimAssumption, FS_CardinalityType
  <2> QED BY <2>1 DEF NewAccount, Numbered, Settled
<1>4. \A c \in Markets : Cost(NewAccount)[c] = 0
  BY <1>2 DEF Cost, NewAccount
<1>5. SumFunction(Cost(NewAccount)) = 0
  BY <1>3, <1>4, CostTyped, SumOfNothing, SimAssumption
<1>6. acct.cash = InitialCash /\ acct.fees = 0
  BY <1>1 DEF NewAccount
<1>7. acct.cash + acct.fees - SumFunction(Cost(acct)) = InitialCash - told
  BY <1>1, <1>5, <1>6, SimAssumption
<1> QED BY <1>1, <1>3, <1>7, <1>8 DEF SimShape, LedgerBalances, Cost

(* No step unbalances it.                                                  *)
LEMMA LedgerKept ==
  SimShape /\ LedgerBalances /\ [SimNext]_simVars /\ [AveragesExact]_simVars => LedgerBalances'
<1> SUFFICES ASSUME SimShape, LedgerBalances, [SimNext]_simVars, [AveragesExact]_simVars PROVE LedgerBalances'
  OBVIOUS
<1>1. LedgerOf(acct) = InitialCash - told
  BY DEF LedgerBalances, LedgerOf, Cost
<1>2. SUFFICES LedgerOf(acct') = InitialCash - told'
  BY <1>2 DEF LedgerBalances, LedgerOf, Cost
<1>3. CASE UNCHANGED simVars
  BY <1>1, <1>3 DEF simVars
<1>4. CASE SimNext /\ AveragesExact
  <2>1. Untouched \/ Executes
    BY <1>4, ExchangeSteps
  <2>2. CASE Untouched
    <3>1. LedgerOf(acct') = LedgerOf(acct) /\ told' = told
      BY <2>2 DEF Untouched, LedgerOf, Cost
    <3> QED BY <1>1, <3>1
  <2>3. CASE Executes
    <3>1. PICK c \in Markets, o \in OrderSet : \E a \in {acct, Listed(acct, c)} :
             /\ acct' = executeOrder(a, c, o).acct
             /\ told' = told + executeOrder(a, c, o).filled * o.price
      BY <2>3, Zenon DEF Executes
    <3>2. PICK a \in {acct, Listed(acct, c)} :
             acct' = executeOrder(a, c, o).acct /\ told' = told + executeOrder(a, c, o).filled * o.price
      BY <3>1, Zenon
    <3>3. a \in Accounts /\ a.pos = acct.pos /\ a.cash = acct.cash /\ a.fees = acct.fees
      BY <3>2, ListedTyped DEF SimShape
    <3> DEFINE r == executeOrder(a, c, o)
    <3>4. ExactAverage(a.pos[c], r.acct.pos[c], r.acct.mark[c])
      <4>1. ExactAverage(acct.pos[c], acct'.pos[c], acct'.mark[c])
        BY <1>4 DEF AveragesExact
      <4> QED BY <3>2, <3>3, <4>1
    <3>5. LedgerOf(r.acct) = LedgerOf(a) - r.filled * o.price
      BY <3>3, <3>4, LedgerMoves
    <3>6. LedgerOf(a) = LedgerOf(acct)
      BY <3>3 DEF LedgerOf, Cost
    <3>7. r.filled * o.price \in Int /\ told \in Int /\ InitialCash \in Int
      <4>1. FillSize(a.pos[c], o) \in Int /\ (r.filled = 0 \/ r.filled = FillSize(a.pos[c], o))
        BY <3>3, Executed, Zenon
      <4>2. r.filled \in Int /\ o.price \in Int
        BY <4>1 DEF OrderSet
      <4> QED BY <4>2, SimAssumption DEF SimShape
    <3> QED BY <1>1, <3>2, <3>5, <3>6, <3>7
  <2> QED BY <2>1, <2>2, <2>3
<1>5. AveragesExact \/ UNCHANGED simVars
  OBVIOUS
<1> QED BY <1>3, <1>4, <1>5

(* The fills the exchange answered explain the account for ever, however   *)
(* orders open, grow, reduce, close or flip positions in however many      *)
(* markets, are refused, or are placed at a price of before: provided the  *)
(* entry price of a grown position is the exact average.  Fees, refusals,  *)
(* reductions and flips need no such proviso.                              *)
THEOREM LedgerStaysBalanced == SimSpec /\ [][AveragesExact]_simVars => []LedgerBalances
<1>1. SimInit => SimShape /\ LedgerBalances
  BY LedgerStarts
<1>2. SimShape /\ [SimNext]_simVars => SimShape'
  BY ShapeKept
<1>3. SimShape /\ LedgerBalances /\ [SimNext]_simVars /\ [AveragesExact]_simVars => LedgerBalances'
  BY LedgerKept
<1> QED BY <1>1, <1>2, <1>3, PTL DEF SimSpec

(* The margin rate of every leverage covers a slippage and a fee.          *)
LeveragesCover == \A n \in Levers \cup {1} : n * (FeeDen + SlipDen + 1) <= SlipDen * FeeDen

(* A quotient is as large as any number it is asked to reach.              *)
LEMMA QuotientReaches ==
  ASSUME NEW x \in Int, NEW n \in Nat, NEW k \in Nat \ {0}, x * k <= n
  PROVE  x <= n \div k
<1> DEFINE y == n \div k
<1>1. y \in Nat /\ n < k * y + k
  OBVIOUS
<1> HIDE DEF y
<1>2. ASSUME x >= y + 1 PROVE FALSE
  <2>1. (x - (y + 1)) * k >= 0
    BY <1>1, <1>2
  <2>2. (x - (y + 1)) * k = x * k - (k * y + k)
    BY <1>1
  <2> QED BY <1>1, <2>1, <2>2
<1> QED BY <1>1, <1>2 DEF y

(* The margin of a position covers what closing it costs.                  *)
LEMMA MarginCovers ==
  ASSUME NEW Q \in Nat, NEW m \in Nat, NEW px \in Nat, NEW S \in Nat \ {0}, NEW F \in Nat \ {0}, NEW L \in Nat \ {0},
         px <= m + (m \div S), L * (F + S + 1) <= S * F
  PROVE  Q * (m \div S) + ((Q * px) \div F) <= (Q * m) \div L
<1> DEFINE k == m \div S
           N == Q * px
           fee == N \div F
<1>1. k \in Nat /\ S * k <= m
  OBVIOUS
<1>2. N \in Nat
  OBVIOUS
<1>3. fee \in Nat /\ F * fee <= N
  <2> HIDE DEF N
  <2> QED BY <1>2
<1>4. N <= Q * (m + k)
  <2>1. px <= m + k
    OBVIOUS
  <2> HIDE DEF k
  <2>2. Q * ((m + k) - px) >= 0
    BY <1>1, <2>1
  <2> QED BY <1>1, <2>2
<1> HIDE DEF k, N, fee
<1> DEFINE x == Q * k + fee
           A == Q * m
           B == Q * k
<1>5. A \in Nat /\ B \in Nat
  BY <1>1
<1>6. S * B <= A
  <2>1. Q * (m - S * k) >= 0
    BY <1>1
  <2> QED BY <1>1, <2>1
<1>7. F * fee <= A + B
  <2>1. Q * (m + k) = A + B
    BY <1>1
  <2> HIDE DEF A, B
  <2> QED BY <1>2, <1>3, <1>4, <1>5, <2>1
<1>8. x = B + fee
  OBVIOUS
<1> HIDE DEF x, A, B
<1>9. (S * F) * x <= A * (F + S + 1)
  <2>1. F * (A - S * B) >= 0
    BY <1>5, <1>6
  <2>2. S * (A + B - F * fee) >= 0
    BY <1>3, <1>5, <1>7
  <2>3. (S * F) * x = F * (S * B) + S * (F * fee)
    BY <1>3, <1>5, <1>8
  <2>4. F * (A - S * B) = F * A - F * (S * B)
    BY <1>5
  <2>5. S * (A + B - F * fee) = S * A + S * B - S * (F * fee)
    BY <1>3, <1>5
  <2>6. A * (F + S + 1) = F * A + S * A + A
    BY <1>5
  <2> DEFINE t1 == F * (S * B)
             t2 == S * (F * fee)
             t3 == F * A
             t4 == S * A
             t5 == S * B
  <2>7. t1 \in Int /\ t2 \in Int /\ t3 \in Int /\ t4 \in Int /\ t5 \in Int
    BY <1>3, <1>5
  <2>8. t3 - t1 >= 0 /\ t4 + t5 - t2 >= 0 /\ t5 <= A
    BY <1>6, <2>1, <2>2, <2>4, <2>5
  <2>9. (S * F) * x = t1 + t2 /\ A * (F + S + 1) = t3 + t4 + A
    BY <2>3, <2>6
  <2> HIDE DEF t1, t2, t3, t4, t5
  <2> QED BY <1>5, <2>7, <2>8, <2>9
<1>10. x \in Nat
  BY <1>3, <1>5, <1>8
<1>11. x * L <= A
  <2> DEFINE G == S * F
             H == F + S + 1
  <2>1. G \in Nat \ {0} /\ H \in Nat /\ L * H <= G /\ G * x <= A * H
    BY <1>9
  <2> HIDE DEF G, H
  <2>2. A * (G - L * H) >= 0
    BY <1>5, <2>1
  <2>3. L * (A * H - G * x) >= 0
    BY <1>5, <1>10, <2>1
  <2>4. A * (G - L * H) + L * (A * H - G * x) = G * (A - x * L)
    BY <1>5, <1>10, <2>1
  <2>5. G * (A - x * L) >= 0
    <3> DEFINE u == A * (G - L * H)
               w == L * (A * H - G * x)
    <3>1. u \in Int /\ w \in Int /\ u >= 0 /\ w >= 0 /\ u + w = G * (A - x * L)
      BY <1>5, <1>10, <2>1, <2>2, <2>3, <2>4
    <3> HIDE DEF u, w
    <3> QED BY <3>1
  <2> DEFINE z == A - x * L
  <2>6. z \in Int /\ G * z >= 0
    BY <1>5, <1>10, <2>5
  <2> HIDE DEF z
  <2>7. z >= 0
    BY <2>1, <2>6
  <2>8. z = A - x * L /\ x * L \in Int
    BY <1>10 DEF z
  <2> QED BY <1>5, <2>7, <2>8
<1>12. x <= A \div L
  BY <1>5, <1>10, <1>11, QuotientReaches
<1> QED BY <1>12 DEF x, A, k, N, fee

(* A leverage is a setting, or none.                                       *)
LEMMA LeverTyped ==
  ASSUME NEW a \in Accounts, Numbered(a), NEW c \in Markets
  PROVE  leverageForCoin(a, c) \in Levers \cup {1} /\ leverageForCoin(a, c) \in Nat \ {0}
<1>1. Cardinality(Markets) \in Nat
  BY SimAssumption, FS_CardinalityType
<1>2. a.asset[c] \in 0..Cardinality(Markets)
  BY DEF Numbered
<1>3. a.asset[c] # 0 => a.lever[a.asset[c]] \in Levers \cup {0}
  BY <1>1, <1>2 DEF Numbered
<1>4. leverageForCoin(a, c) \in Levers \cup {1}
  BY <1>3 DEF leverageForCoin
<1>5. Levers \cup {1} \subseteq Nat \ {0}
  BY SimAssumption
<1> QED BY <1>4, <1>5

Margins(a) == [c \in Markets |-> MarginOf(a, c)]

Gains(a) == [c \in Markets |-> Unrealized(a, c)]

(* Margins and unrealized gains are numbers.                               *)
LEMMA TermsTyped ==
  ASSUME NEW a \in Accounts, Numbered(a)
  PROVE  /\ Margins(a) \in [Markets -> Int] /\ Gains(a) \in [Markets -> Int]
         /\ Margin(a) = SumFunction(Margins(a)) /\ Equity(a) = a.cash + SumFunction(Gains(a))
         /\ Margin(a) \in Int /\ SumFunction(Gains(a)) \in Int
<1>1. ASSUME NEW c \in Markets PROVE MarginOf(a, c) \in Int /\ Unrealized(a, c) \in Int
  <2>1. resolveMarkPrice(a, c) \in Nat \ {0} /\ leverageForCoin(a, c) \in Nat \ {0}
    BY PricesPositive, LeverTyped
  <2>2. a.pos[c].qty \in Int /\ a.pos[c].entry \in Int /\ AbsInt(a.pos[c].qty) \in Nat
    BY AbsFacts DEF Accounts, PositionSet
  <2>3. AbsInt(a.pos[c].qty) * resolveMarkPrice(a, c) \in Int
    BY <2>1, <2>2
  <2>4. MarginOf(a, c) \in Int
    BY <2>1, <2>3, QuotientType DEF MarginOf
  <2>5. Unrealized(a, c) \in Int
    BY <2>1, <2>2 DEF Unrealized
  <2> QED BY <2>4, <2>5
<1>2. Margins(a) \in [Markets -> Int] /\ Gains(a) \in [Markets -> Int]
  BY <1>1 DEF Margins, Gains
<1>3. Margin(a) = SumFunction(Margins(a)) /\ Equity(a) = a.cash + SumFunction(Gains(a))
  BY DEF Margin, Equity, Margins, Gains
<1>4. SumFunction(Margins(a)) \in Int /\ SumFunction(Gains(a)) \in Int
  BY <1>2, SumType, SimAssumption
<1> QED BY <1>2, <1>3, <1>4

(* An account that has lost one position: its margin and its gain are gone. *)
LEMMA WithoutPosition ==
  ASSUME NEW a \in Accounts, Numbered(a), NEW b \in Accounts, Numbered(b), NEW c \in Markets,
         b.pos = [a.pos EXCEPT ![c] = Flat], b.asset = a.asset, b.lever = a.lever,
         \A x \in Markets : x # c => b.mark[x] = a.mark[x]
  PROVE  /\ Margin(b) = Margin(a) - MarginOf(a, c)
         /\ SumFunction(Gains(b)) = SumFunction(Gains(a)) - Unrealized(a, c)
<1>1. b.pos[c].qty = 0 /\ AbsInt(b.pos[c].qty) = 0 /\ \A x \in Markets : x # c => b.pos[x] = a.pos[x]
  BY DEF Flat, Accounts, AbsInt
<1>2. MarginOf(b, c) = 0 /\ Unrealized(b, c) = 0
  <2>1. resolveMarkPrice(b, c) \in Nat \ {0} /\ leverageForCoin(b, c) \in Nat \ {0} /\ b.pos[c].entry \in Int
    BY PricesPositive, LeverTyped DEF Accounts, PositionSet
  <2>2. 0 * resolveMarkPrice(b, c) = 0 /\ 0 \div leverageForCoin(b, c) = 0 /\ 0 * (resolveMarkPrice(b, c) - b.pos[c].entry) = 0
    BY <2>1
  <2> QED BY <1>1, <2>2 DEF MarginOf, Unrealized
<1>3. \A x \in Markets : x # c => MarginOf(b, x) = MarginOf(a, x) /\ Unrealized(b, x) = Unrealized(a, x)
  <2> SUFFICES ASSUME NEW x \in Markets, x # c
               PROVE  MarginOf(b, x) = MarginOf(a, x) /\ Unrealized(b, x) = Unrealized(a, x)
    OBVIOUS
  <2>1. resolveMarkPrice(b, x) = resolveMarkPrice(a, x)
    BY <1>1 DEF resolveMarkPrice
  <2>2. leverageForCoin(b, x) = leverageForCoin(a, x)
    BY DEF leverageForCoin
  <2> QED BY <1>1, <2>1, <2>2 DEF MarginOf, Unrealized
<1>4. /\ \A x \in Markets : x # c => Margins(b)[x] = Margins(a)[x] /\ Gains(b)[x] = Gains(a)[x]
      /\ Margins(b)[c] = 0 /\ Gains(b)[c] = 0 /\ Margins(a)[c] = MarginOf(a, c) /\ Gains(a)[c] = Unrealized(a, c)
  BY <1>2, <1>3 DEF Margins, Gains
<1>5. /\ Margins(a) \in [Markets -> Int] /\ Gains(a) \in [Markets -> Int] /\ Margins(b) \in [Markets -> Int] /\ Gains(b) \in [Markets -> Int]
      /\ Margin(a) = SumFunction(Margins(a)) /\ Margin(b) = SumFunction(Margins(b))
      /\ Margin(a) \in Int /\ SumFunction(Gains(a)) \in Int
  BY TermsTyped
<1>6. SumFunction(Margins(b)) = SumFunction(Margins(a)) + (0 - MarginOf(a, c))
  BY <1>4, <1>5, SumMoves, SimAssumption
<1>7. SumFunction(Gains(b)) = SumFunction(Gains(a)) + (0 - Unrealized(a, c))
  BY <1>4, <1>5, SumMoves, SimAssumption
<1>8. MarginOf(a, c) \in Int /\ Unrealized(a, c) \in Int
  BY <1>4, <1>5
<1> QED BY <1>5, <1>6, <1>7, <1>8

(* Closing a position of a covered account is accepted, and leaves the     *)
(* account flat there and covered.                                         *)
LEMMA CloseKeepsCover ==
  ASSUME LeveragesCover, NEW a \in Accounts, Numbered(a), Settled(a), Equity(a) >= Margin(a), NEW c \in Markets
  PROVE  LET b == AfterClose(a, c)
         IN  /\ b \in Accounts /\ Numbered(b) /\ Settled(b)
             /\ Equity(b) >= Margin(b) /\ b.pos = [a.pos EXCEPT ![c] = Flat]
<1> DEFINE p == a.pos[c]
           q == p.qty
           o == ClosingOrder(a, c)
           d == FillSize(p, o)
           f == Filled(a, c, o, d)
           r == executeOrder(a, c, o)
           m == resolveMarkPrice(a, c)
           Q == AbsInt(q)
           b == [f EXCEPT !.mark[c] = o.price]
           up == WouldIncrease(p, o)
           over == Margin(f) > Equity(f)
<1>1. p \in PositionSet /\ q \in Int /\ p.entry \in Int /\ Q \in Nat
  BY AbsFacts DEF Accounts, PositionSet
<1>2. o \in OrderSet
  BY ClosingTyped
<1>3. o.buy = (q < 0) /\ o.reduce /\ o.size = Q /\ o.price = applySlippage(m, q < 0)
  BY DEF ClosingOrder
<1>4. r = CASE up -> [acct |-> a, ok |-> FALSE, filled |-> 0]
            [] ~up /\ d = 0 -> [acct |-> a, ok |-> TRUE, filled |-> 0]
            [] OTHER -> IF over THEN [acct |-> a, ok |-> FALSE, filled |-> 0]
                        ELSE [acct |-> b, ok |-> TRUE, filled |-> d]
  BY DEF executeOrder
<1>5. ~up
  <2>1. up = (o.reduce /\ q * (IF o.buy THEN 1 ELSE -1) > 0)
    BY DEF WouldIncrease
  <2> DEFINE side == IF o.buy THEN 1 ELSE -1
  <2>2. side = IF q < 0 THEN 1 ELSE -1
    BY <1>3
  <2>3. up = (o.reduce /\ q * side > 0)
    BY <2>1
  <2> HIDE DEF q, side, up, o
  <2>4. ~(q * side > 0)
    BY <1>1, <2>2
  <2> QED BY <2>3, <2>4
<1>6. d = -q
  <2>1. Min({o.size, Q}) = Q
    BY <1>1, <1>3, MinPair
  <2>2. d = IF o.buy THEN Min({o.size, Q}) ELSE -Min({o.size, Q})
    BY <1>3 DEF FillSize
  <2> HIDE DEF o, d
  <2> QED BY <1>1, <1>3, <2>1, <2>2 DEF AbsInt
<1>7. AfterClose(a, c) = r.acct
  BY DEF AfterClose
<1>8. CASE q = 0
  <2>1. d = 0
    <3>1. q + d = 0 /\ d \in Int
      BY <1>1, <1>6
    <3> HIDE DEF q, d
    <3> QED BY <1>8, <3>1
  <2>2. r.acct = a
    <3> HIDE DEF r, up, over, b, d
    <3> QED BY <1>4, <1>5, <2>1
  <2>3. a.pos = [a.pos EXCEPT ![c] = Flat]
    <3>1. a.pos[c] = Flat /\ a.pos \in [Markets -> PositionSet]
      BY <1>8 DEF Settled, Accounts
    <3> QED BY <3>1
  <2> QED BY <1>7, <2>2, <2>3
<1>9. CASE q # 0
  <2> DEFINE px == o.price
             fee == (Q * px) \div FeeDen
             k == m \div SlipDen
             L == leverageForCoin(a, c)
  <2>1. m \in Nat \ {0} /\ px \in Nat /\ FeeDen \in Nat \ {0} /\ SlipDen \in Nat \ {0} /\ L \in Nat \ {0}
    BY <1>2, PricesPositive, LeverTyped, SimAssumption DEF OrderSet
  <2>2. k \in Nat
    <3> HIDE DEF m
    <3> QED BY <2>1
  <2>3. px = IF q < 0 THEN m + k ELSE m - k
    BY <1>3 DEF applySlippage
  <2>4. L * (FeeDen + SlipDen + 1) <= SlipDen * FeeDen
    BY LeverTyped DEF LeveragesCover
  <2>5. Q * k + fee <= MarginOf(a, c)
    <3>1. px <= m + k
      <4> HIDE DEF m, k, px
      <4> QED BY <2>1, <2>2, <2>3
    <3>2. MarginOf(a, c) = (Q * m) \div L
      BY DEF MarginOf
    <3> HIDE DEF m, Q, px, L
    <3>3. m \in Nat /\ px <= m + (m \div SlipDen)
      BY <2>1, <3>1
    <3>4. Q * (m \div SlipDen) + ((Q * px) \div FeeDen) <= (Q * m) \div L
      BY <1>1, <2>1, <2>4, <3>3, MarginCovers
    <3> QED BY <3>2, <3>4
  <2>6. AbsInt(d) = Q
    BY <1>1, <1>6 DEF AbsInt
  <2>7. /\ f.pos = [a.pos EXCEPT ![c] = Flat] /\ f.mark = a.mark /\ f.asset = a.asset /\ f.lever = a.lever
        /\ f.cash = a.cash + Realized(p, d, px) - fee
    <3>1. NextEntry(p, d, px) = 0 /\ p.qty + d = 0
      BY <1>1, <1>6 DEF NextEntry
    <3>2. f = [a EXCEPT !.pos[c] = [qty |-> p.qty + d, entry |-> NextEntry(p, d, px)],
                        !.cash = @ + Realized(p, d, px) - ((AbsInt(d) * px) \div FeeDen),
                        !.fees = @ + ((AbsInt(d) * px) \div FeeDen)]
      BY DEF Filled
    <3>3. f = [a EXCEPT !.pos[c] = Flat, !.cash = @ + Realized(p, d, px) - fee, !.fees = @ + fee]
      BY <2>6, <3>1, <3>2 DEF Flat
    <3> HIDE DEF f, fee, d, px
    <3> QED BY <3>3 DEF Accounts
  <2>8. f \in Accounts
    <3>1. d \in Int
      BY <1>1, <1>6
    <3> HIDE DEF d, o
    <3> QED BY <1>2, <3>1, FilledBooks
  <2>9. Realized(p, d, px) = q * (px - p.entry)
    <3>1. q * d < 0
      BY <1>1, <1>6, <1>9
    <3>2. Min({AbsInt(p.qty), AbsInt(d)}) = Q
      BY <1>1, <2>6, MinPair
    <3>3. Realized(p, d, px) = Q * (px - p.entry) * (IF q < 0 THEN -1 ELSE 1)
      <4>1. ~(p.qty * d >= 0)
        BY <1>1, <1>6, <3>1
      <4> QED BY <3>2, <4>1 DEF Realized
    <3>4. Q = IF q < 0 THEN -q ELSE q
      BY DEF AbsInt
    <3> DEFINE w == px - p.entry
    <3>5. w \in Int
      BY <1>1, <2>1
    <3> HIDE DEF w, q, Q
    <3>6. Q * w * (IF q < 0 THEN -1 ELSE 1) = q * w
      BY <1>1, <3>4, <3>5
    <3> QED BY <3>3, <3>6 DEF w, q, Q
  <2>10. Numbered(f)
    <3> HIDE DEF f
    <3> QED BY <2>7 DEF Numbered
  <2>11. Margin(f) = Margin(a) - MarginOf(a, c) /\ SumFunction(Gains(f)) = SumFunction(Gains(a)) - Unrealized(a, c)
    <3> HIDE DEF f
    <3> QED BY <2>7, <2>8, <2>10, WithoutPosition
  <2>12. b \in Accounts /\ b.pos = f.pos /\ b.cash = f.cash /\ b.asset = f.asset /\ b.lever = f.lever /\ b.mark = [f.mark EXCEPT ![c] = px]
    <3>1. b = [f EXCEPT !.mark[c] = px] /\ px \in Int
      BY <2>1
    <3> HIDE DEF f, b, px
    <3> QED BY <2>8, <3>1 DEF Accounts
  <2>13. Numbered(b)
    <3> HIDE DEF f, b
    <3> QED BY <2>10, <2>12 DEF Numbered
  <2>14. Margin(b) = Margin(a) - MarginOf(a, c) /\ SumFunction(Gains(b)) = SumFunction(Gains(a)) - Unrealized(a, c)
    <3>1. \A x \in Markets : x # c => b.mark[x] = a.mark[x]
      <4> HIDE DEF f, b, px
      <4> QED BY <2>7, <2>12 DEF Accounts
    <3>2. b.pos = [a.pos EXCEPT ![c] = Flat] /\ b.asset = a.asset /\ b.lever = a.lever /\ b \in Accounts
      <4> HIDE DEF f, b
      <4> QED BY <2>7, <2>12
    <3> HIDE DEF f, b
    <3> QED BY <2>13, <3>1, <3>2, WithoutPosition
  <2>15. /\ Equity(f) = f.cash + SumFunction(Gains(f)) /\ Equity(b) = b.cash + SumFunction(Gains(b))
         /\ Equity(a) = a.cash + SumFunction(Gains(a)) /\ Margin(a) \in Int /\ SumFunction(Gains(a)) \in Int
    <3> HIDE DEF f, b
    <3> QED BY <2>8, <2>10, <2>12, <2>13, TermsTyped
  <2>16. q * (px - p.entry) - Unrealized(a, c) = -(Q * k)
    <3>1. Unrealized(a, c) = q * (m - p.entry)
      BY DEF Unrealized
    <3>2. Q = IF q < 0 THEN -q ELSE q
      BY DEF AbsInt
    <3> DEFINE e == p.entry
    <3>3. e \in Int
      BY <1>1
    <3> HIDE DEF q, Q, m, k, px, e
    <3>4. CASE q < 0
      <4>1. px = m + k /\ Q = -q
        BY <2>3, <3>2, <3>4
      <4>2. q * ((m + k) - e) - q * (m - e) = -((-q) * k)
        BY <1>1, <2>1, <2>2, <3>3
      <4> QED BY <3>1, <4>1, <4>2 DEF e
    <3>5. CASE ~(q < 0)
      <4>1. px = m - k /\ Q = q
        BY <2>3, <3>2, <3>5
      <4>2. q * ((m - k) - e) - q * (m - e) = -(q * k)
        BY <1>1, <2>1, <2>2, <3>3
      <4> QED BY <3>1, <4>1, <4>2 DEF e
    <3> QED BY <3>4, <3>5
  <2>17. /\ Equity(f) = Equity(a) - (Q * k + fee) /\ Equity(b) = Equity(f)
    <3> DEFINE G == SumFunction(Gains(a))
               U == Unrealized(a, c)
               R == q * (px - p.entry)
               K == Q * k
    <3>1. a.cash \in Int /\ G \in Int /\ U \in Int /\ R \in Int /\ K \in Int /\ fee \in Int
      <4>1. a.cash \in Int
        BY DEF Accounts
      <4>2. U \in Int
        BY <1>1, <2>1 DEF Unrealized
      <4>3. R \in Int
        BY <1>1, <2>1
      <4>4. K \in Int
        BY <1>1, <2>2
      <4>5. fee \in Int
        <5>1. Q * px \in Int
          BY <1>1, <2>1
        <5> QED BY <2>1, <5>1, QuotientType
      <4> QED BY <2>15, <4>1, <4>2, <4>3, <4>4, <4>5
    <3>2. R - U = -K /\ f.cash = a.cash + R - fee /\ SumFunction(Gains(f)) = G - U
      BY <2>7, <2>9, <2>11, <2>16
    <3>3. Equity(f) = f.cash + SumFunction(Gains(f)) /\ Equity(a) = a.cash + G
      BY <2>15
    <3>4. Equity(b) = Equity(f)
      BY <2>11, <2>12, <2>14, <2>15
    <3> HIDE DEF G, U, R, K, f, fee, b
    <3>5. Equity(f) = Equity(a) - (K + fee)
      BY <3>1, <3>2, <3>3
    <3> QED BY <3>4, <3>5 DEF K
  <2>18. Equity(f) >= Margin(f) /\ Equity(b) >= Margin(b) /\ ~over
    <3> DEFINE E == Equity(a)
               x == Q * k + fee
               M == Margin(a)
               u == MarginOf(a, c)
    <3>1. E \in Int /\ x \in Int /\ M \in Int /\ u \in Int
      <4>1. E \in Int
        BY <2>15 DEF Accounts
      <4>2. x \in Int
        <5>1. Q * px \in Int /\ Q * k \in Int
          BY <1>1, <2>1, <2>2
        <5>2. fee \in Int
          BY <2>1, <5>1, QuotientType
        <5> QED BY <5>1, <5>2
      <4>3. u \in Int
        BY TermsTyped DEF Margins
      <4> QED BY <2>15, <4>1, <4>2, <4>3
    <3>2. E >= M /\ x <= u /\ Equity(f) = E - x /\ Equity(b) = E - x /\ Margin(f) = M - u /\ Margin(b) = M - u
      BY <2>5, <2>11, <2>14, <2>17
    <3> HIDE DEF E, x, M, u, f, b
    <3> QED BY <3>1, <3>2
  <2>19. r.acct = b
    <3>1. d # 0
      BY <1>1, <1>6, <1>9
    <3> HIDE DEF r, up, over, b, d
    <3> QED BY <1>4, <1>5, <2>18, <3>1
  <2>20. b.pos = [a.pos EXCEPT ![c] = Flat] /\ Settled(b)
    <3> HIDE DEF f, b
    <3>1. b.pos = [a.pos EXCEPT ![c] = Flat] /\ a.pos \in [Markets -> PositionSet]
      BY <2>7, <2>12 DEF Accounts
    <3> QED BY <3>1 DEF Settled
  <2> HIDE DEF b
  <2> QED BY <1>7, <2>12, <2>13, <2>18, <2>19, <2>20
<1> QED BY <1>8, <1>9

(* Closing a position empties it, leaves the others as they are and the    *)
(* account covered: the next one can be closed as well.                    *)
UnwindStep ==
  Equity(acct) >= Margin(acct) =>
    \A c \in Markets : LET b == AfterClose(acct, c)
                       IN  b.pos = [acct.pos EXCEPT ![c] = Flat] /\ Equity(b) >= Margin(b)

(* A covered account can be closed out.                                    *)
LEMMA CoveredUnwinds == LeveragesCover /\ SimShape => UnwindStep /\ CanUnwind
<1> SUFFICES ASSUME LeveragesCover, SimShape, Equity(acct) >= Margin(acct), NEW c \in Markets, NEW d \in Markets
             PROVE  /\ AfterClose(acct, c).pos = [acct.pos EXCEPT ![c] = Flat]
                    /\ Equity(AfterClose(acct, c)) >= Margin(AfterClose(acct, c))
                    /\ AfterClose(acct, c).pos[c] = Flat /\ AfterClose(AfterClose(acct, c), d).pos[d] = Flat
  BY Zenon DEF CanUnwind, UnwindStep
<1> DEFINE b == AfterClose(acct, c)
<1>1. b \in Accounts /\ Numbered(b) /\ Settled(b) /\ Equity(b) >= Margin(b) /\ b.pos = [acct.pos EXCEPT ![c] = Flat]
  BY CloseKeepsCover DEF SimShape
<1>2. acct.pos \in [Markets -> PositionSet] /\ b.pos \in [Markets -> PositionSet]
  BY <1>1 DEF SimShape, Accounts
<1> HIDE DEF b
<1>3. AfterClose(b, d).pos = [b.pos EXCEPT ![d] = Flat]
  BY <1>1, CloseKeepsCover
<1>4. b.pos[c] = Flat /\ AfterClose(b, d).pos[d] = Flat
  BY <1>1, <1>2, <1>3
<1> QED BY <1>1, <1>4 DEF b

(* A margin check that also meets closing orders never locks an account    *)
(* in: while its equity covers its margin, every position can be closed at *)
(* the slipped market price, and the account stays covered as they go.     *)
THEOREM PositionsUnwind == LeveragesCover => (SimSpec => [](CanUnwind /\ UnwindStep))
<1> SUFFICES ASSUME LeveragesCover PROVE SimSpec => [](CanUnwind /\ UnwindStep)
  OBVIOUS
<1>1. SimInit => SimShape
  BY LedgerStarts
<1>2. SimShape /\ [SimNext]_simVars => SimShape'
  BY ShapeKept
<1>3. SimShape => CanUnwind /\ UnwindStep
  BY CoveredUnwinds
<1> QED BY <1>1, <1>2, <1>3, PTL DEF SimSpec
===============================================================================
