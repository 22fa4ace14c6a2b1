------------------------------- MODULE ReadModel -------------------------------
(***************************************************************************)
(* The read side of the API while the trading process writes: order and    *)
(* audit pages made from the audit table, account totals made from three   *)
(* queries, and trades rebuilt from stored rows.  No read is one snapshot  *)
(* of the database: writes land between the queries of a request and       *)
(* between the requests of a client that pages or polls.                   *)
(***************************************************************************)
EXTENDS Integers, FiniteSetsExt

CONSTANTS Models,      \* traders
          OrderCoins,  \* symbols of orders
          AnyCoin,     \* no symbol filter
          NoTrade,     \* no trade shown yet
          PageLimit,   \* limit a client asks for
          ScanCap,     \* most rows a request reads per event type (500)
          MaxAudit,    \* bound on order events
          MaxSnapshots,\* bound on equity snapshots
          MaxMarker,   \* bound on hourly markers
          PlanCap,     \* most commands a request reads per trader (500)
          MaxPlans,    \* bound on decision commands
          MaxPolls,    \* bound on polls of account totals
          MaxMove,     \* bound on the price move of a trade, either way
          MaxFee       \* bound on the commission of a leg

ASSUME ReadAssumption ==
  /\ PageLimit \in Nat \ {0} /\ ScanCap \in Nat \ {0} /\ PlanCap \in Nat \ {0} /\ MaxAudit \in Nat /\ MaxSnapshots \in Nat
  /\ MaxMarker \in Nat /\ MaxPlans \in Nat /\ MaxPolls \in Nat /\ MaxMove \in Nat /\ MaxFee \in Nat
  /\ AnyCoin \notin OrderCoins

VARIABLES audit,     \* order events: [id, at, type, coin]
          page,      \* the client that pages through a list
          snapshots, \* account equity snapshots: [model, id, marker]
          open,      \* models with an open position
          plans,     \* completed decision commands: [model, at, opens]
          poll,      \* the client that polls the account totals
          shown      \* the trade a request shows

readVars == <<audit, page, snapshots, open, plans, poll, shown>>

OrderTypes == {"order_submitted", "order_failed"}

----------------------------------------------------------------------------
(* Order and audit pages.                                                  *)

Newer(e, f) == e.at > f.at \/ (e.at = f.at /\ e.id > f.id)

(* Where an event stands when a set of them is sorted, newest first.       *)
Rank(S, e) == Cardinality({f \in S : Newer(f, e)})

Cut(S, limit, offset) == {e \in S : Rank(S, e) >= offset /\ Rank(S, e) < offset + limit}

(* The audit table's List: newest first, LIMIT and OFFSET.                 *)
List(type, limit, offset) == Cut({e \in audit : e.type \in type}, limit, offset)

Matches(e, filter) == e.type \in filter.types /\ filter.coin \in {AnyCoin, e.coin}

(* Mutant of scanLimit: the rows before the page are not counted.          *)
scanLimitPage(offset) == Min({PageLimit, ScanCap})

scanLimit(offset) == Min({PageLimit + offset, ScanCap})

(* A page of orders: both scans merged, sorted, filtered by symbol, cut.   *)
ordersFromAuditEvents(rows, filter, offset) ==
  Cut({e \in rows : Matches(e, filter)}, PageLimit, offset)

(* NextOffset is only set when the scans returned rows beyond the page.    *)
listMeta(offset, count, seen) == IF count > 0 /\ offset + count < seen THEN offset + count ELSE 0

NoPage == [st |-> "idle", kind |-> "orders", filter |-> [types |-> {}, coin |-> AnyCoin], todo |-> {}, rows |-> {},
           offset |-> 0, next |-> 0, base |-> {}, got |-> {}]

(* The trading process records an order event; the time it carries was     *)
(* taken before the row is written, so rows can appear behind others.      *)
RecordOrder(type, coin, at) ==
  /\ Cardinality(audit) < MaxAudit
  /\ audit' = audit \cup {[id |-> Cardinality(audit) + 1, at |-> at, type |-> type, coin |-> coin]}
  /\ UNCHANGED <<page, snapshots, open, plans, poll, shown>>

(* A client starts to page through a list.                                 *)
PageThrough(kind, filter) ==
  /\ page.st = "idle"
  /\ page' = [NoPage EXCEPT !.st = "asking", !.kind = kind, !.filter = filter, !.todo = filter.types,
                            !.base = {e \in audit : Matches(e, filter)}]
  /\ UNCHANGED <<audit, snapshots, open, plans, poll, shown>>

(* Orders reads one event type after the other ...                         *)
ScanType(type) ==
  /\ page.st = "asking" /\ page.kind = "orders" /\ type \in page.todo
  /\ page' = [page EXCEPT !.todo = @ \ {type},
                          !.rows = @ \cup List({type}, scanLimit(page.offset), 0)]
  /\ UNCHANGED <<audit, snapshots, open, plans, poll, shown>>

(* The client asks for the page after the ones it has, until one is empty. *)
Received(items, seen) ==
  page' = [page EXCEPT !.st = IF items = {} THEN "done" ELSE "asking",
                       !.todo = page.filter.types, !.rows = {},
                       !.offset = @ + Cardinality(items), !.got = @ \cup items,
                       !.next = listMeta(page.offset, Cardinality(items), seen)]

(* ... and answers with the merged page.                                   *)
Orders ==
  /\ page.st = "asking" /\ page.kind = "orders" /\ page.todo = {}
  /\ Received(ordersFromAuditEvents(page.rows, page.filter, page.offset),
              Cardinality({e \in page.rows : Matches(e, page.filter)}))
  /\ UNCHANGED <<audit, snapshots, open, plans, poll, shown>>

(* AuditEvents is one query with the client's own offset.                  *)
AuditEvents ==
  /\ page.st = "asking" /\ page.kind = "events"
  /\ LET items == List(page.filter.types, PageLimit, page.offset)
     IN  Received(items, page.offset + Cardinality(items))
  /\ UNCHANGED <<audit, snapshots, open, plans, poll, shown>>

(* A query fails and the client gives up.                                  *)
PageFails ==
  /\ page.st = "asking"
  /\ page' = NoPage
  /\ UNCHANGED <<audit, snapshots, open, plans, poll, shown>>

(* A client that pages by count until an empty page, without a symbol      *)
(* filter, has seen every order that was there when it began, although     *)
(* orders are recorded between its requests and between the two scans of   *)
(* one; as long as the matching rows fit under the scan cap.               *)
PagingComplete ==
  /\ page.st = "done" /\ page.filter.coin = AnyCoin
  /\ page.kind = "orders" => Cardinality({e \in audit : Matches(e, page.filter)}) <= ScanCap
  => page.base \subseteq page.got

----------------------------------------------------------------------------
(* Account totals.                                                         *)

IdlePoll == [st |-> "idle", marker |-> 0, rows |-> {}, held |-> {}, had |-> {}, stayed |-> {}, known |-> {}, totals |-> {}, polls |-> 0]

RecordAccountSnapshot(m, marker) ==
  /\ Cardinality(snapshots) < MaxSnapshots
  /\ snapshots' = snapshots \cup {[model |-> m, id |-> Cardinality(snapshots) + 1, marker |-> marker]}
  /\ UNCHANGED <<audit, page, open, plans, poll, shown>>

PositionOpens(m) ==
  /\ m \notin open
  /\ open' = open \cup {m}
  /\ UNCHANGED <<audit, page, snapshots, plans, poll, shown>>

PositionCloses(m) ==
  /\ m \in open
  /\ open' = open \ {m}
  /\ poll' = [poll EXCEPT !.stayed = @ \ {m}]
  /\ UNCHANGED <<audit, page, snapshots, plans, shown>>

(* A worker completes the decision command created at `at`, an open or a   *)
(* close; commands need not complete in the order of their creation.       *)
DecisionCompletes(m, at, opens) ==
  /\ \A p \in plans : p.at # at
  /\ plans' = plans \cup {[model |-> m, at |-> at, opens |-> opens]}
  /\ UNCHANGED <<audit, page, snapshots, open, poll, shown>>

(* The first query: all snapshots, or those after the client's marker.     *)
queryAccountSnapshots ==
  /\ poll.st = "idle" /\ poll.polls < MaxPolls
  /\ poll' = [poll EXCEPT !.st = "positions", !.polls = @ + 1, !.totals = {},
                          !.rows = {r \in snapshots : poll.marker > 0 => r.marker > poll.marker},
                          !.had = {r.model : r \in snapshots}, !.stayed = open, !.known = plans]
  /\ UNCHANGED <<audit, page, snapshots, open, plans, shown>>

queryOpenPositions ==
  /\ poll.st = "positions"
  /\ poll' = [poll EXCEPT !.st = "plans", !.held = open]
  /\ UNCHANGED <<audit, page, snapshots, open, plans, shown>>

(* The completed decision commands of a model created last.                *)
queryDecisionPlans(m) ==
  {p \in plans : p.model = m /\ Cardinality({q \in plans : q.model = m /\ q.at > p.at}) < PlanCap}

(* Mutant of latestPlan: the oldest open that was read.                    *)
latestPlanFirst(m) ==
  LET opens == {p.at : p \in {q \in queryDecisionPlans(m) : q.opens}} IN IF opens = {} THEN 0 ELSE Min(opens)

(* The newest open among them: the cut comes before the filter.            *)
latestPlan(m) == Max({0} \cup {p.at : p \in {q \in queryDecisionPlans(m) : q.opens}})

Total(m, kind, marker) ==
  [model |-> m, kind |-> kind, marker |-> marker, held |-> m \in poll.held,
   plan |-> IF m \in poll.held THEN latestPlan(m) ELSE 0]

(* Mutant of accountTotals: totals are made up for models without a        *)
(* snapshot only when there is no snapshot at all.                         *)
accountTotalsOrElse ==
  LET stored == {Total(r.model, "snapshot", r.marker) : r \in poll.rows}
      made == {Total(m, "synthetic", 0) : m \in poll.held}
  IN  IF poll.marker > 0 \/ stored # {} THEN stored ELSE made

(* Every snapshot row, with the positions of now; a full pull also makes   *)
(* up a total for a model that has positions and no snapshot.              *)
accountTotals ==
  LET stored == {Total(r.model, "snapshot", r.marker) : r \in poll.rows}
      made == {Total(m, "synthetic", 0) : m \in poll.held \ {r.model : r \in poll.rows}}
  IN  IF poll.marker > 0 THEN stored ELSE stored \cup made

(* The third query and the answer; the client keeps the marker it read.    *)
AccountTotals ==
  /\ poll.st = "plans"
  /\ poll' = [poll EXCEPT !.st = "answered", !.totals = accountTotals]
  /\ UNCHANGED <<audit, page, snapshots, open, plans, shown>>

NextPoll ==
  /\ poll.st = "answered"
  /\ poll' = [IdlePoll EXCEPT !.marker = Max({0} \cup {t.marker : t \in poll.totals}), !.polls = poll.polls]
  /\ UNCHANGED <<audit, page, snapshots, open, plans, shown>>

QueryFails ==
  /\ poll.st \in {"positions", "plans"}
  /\ poll' = [IdlePoll EXCEPT !.marker = poll.marker, !.polls = poll.polls]
  /\ UNCHANGED <<audit, page, snapshots, open, plans, shown>>

(* A full pull lists every trader that had a snapshot when it began or     *)
(* held a position throughout, none twice as a made-up total, though its   *)
(* three queries see three states of the database.  An exit plan comes     *)
(* from an open of its own trader, and from none created before another    *)
(* open that had completed when the pull began: as long as that one is     *)
(* among the PlanCap newest completed commands of the trader, closes and   *)
(* holds included.                                                         *)
TotalsComplete ==
  poll.st = "answered" /\ poll.marker = 0 =>
    /\ poll.had \cup poll.stayed \subseteq {t.model : t \in poll.totals}
    /\ \A t \in poll.totals :
         /\ t.kind = "synthetic" => t.held /\ t.model \notin poll.had
         /\ t.plan > 0 => \E p \in plans : p.model = t.model /\ p.opens /\ p.at = t.plan
         /\ t.held => \A p \in poll.known :
              /\ p.model = t.model /\ p.opens
              /\ Cardinality({q \in plans : q.model = t.model /\ q.at > p.at}) < PlanCap
              => p.at <= t.plan

----------------------------------------------------------------------------
(* Trades.  A stored row is nested (written by the engine) or flat (an     *)
(* imported record), and a field that is zero counts as missing.           *)

firstPositiveFloat(a, b) == IF a # 0 THEN a ELSE b

tradeGrossPnl(side, quantity, entry, exit) ==
  (IF side = "short" THEN entry - exit ELSE exit - entry) * quantity

(* Mutant of tradeFromRow: the exit commission is half of the total too,   *)
(* also when the entry commission is known.                                *)
tradeFromRowHalves(row) ==
  LET gross == firstPositiveFloat(row.gross, tradeGrossPnl(row.side, row.quantity, row.entry, row.exit))
      total == firstPositiveFloat(row.total, firstPositiveFloat(gross - row.net, row.entryFee + row.exitFee))
      entryFee == firstPositiveFloat(row.entryFee, total \div 2)
      exitFee == firstPositiveFloat(row.exitFee, total - entryFee)
  IN  [gross |-> gross, net |-> row.net, total |-> total, entryFee |-> entryFee, exitFee |-> exitFee,
       entryClosed |-> firstPositiveFloat(row.entryClosed, -entryFee),
       exitClosed |-> firstPositiveFloat(row.exitClosed, gross - total)]

(* tradeFromRow: gross from the prices when it is not stored, commissions  *)
(* from gross and net, the closed profit of each leg from its commission.  *)
tradeFromRow(row) ==
  LET gross == firstPositiveFloat(row.gross, tradeGrossPnl(row.side, row.quantity, row.entry, row.exit))
      total == firstPositiveFloat(row.total, firstPositiveFloat(gross - row.net, row.entryFee + row.exitFee))
      entryFee == firstPositiveFloat(row.entryFee, total \div 2)
      exitFee == firstPositiveFloat(row.exitFee, total - entryFee)
  IN  [gross |-> gross, net |-> row.net, total |-> total, entryFee |-> entryFee, exitFee |-> exitFee,
       entryClosed |-> firstPositiveFloat(row.entryClosed, -entryFee),
       exitClosed |-> firstPositiveFloat(row.exitClosed, gross - exitFee)]

(* What is stored of a trade: the prices and the net profit always, the    *)
(* other figures in groups that are written together.                      *)
StoredTrade(side, move, entryFee, exitFee, keep) ==
  LET gross == IF side = "short" THEN -move ELSE move
      kept(group, n) == IF group \in keep THEN n ELSE 0
  IN  [side |-> side, quantity |-> 1, entry |-> 10, exit |-> 10 + move, net |-> gross - entryFee - exitFee,
       gross |-> kept("gross", gross), total |-> kept("total", entryFee + exitFee),
       entryFee |-> kept("legs", entryFee), exitFee |-> kept("legs", exitFee),
       entryClosed |-> kept("legs", -entryFee), exitClosed |-> kept("legs", gross - exitFee)]

(* Trades shows a stored row; one request suffices, rows never change.     *)
ShowTrade(row) ==
  /\ shown = NoTrade
  /\ shown' = tradeFromRow(row)
  /\ UNCHANGED <<audit, page, snapshots, open, plans, poll>>

(* Whatever groups of figures a row keeps, the trade that is shown adds    *)
(* up: the commissions of the legs are the total, gross less total is the  *)
(* net, and so is the closed profit of the legs.  Only for trades that     *)
(* paid a fee on both legs or on none: a single zero counts as missing.    *)
TradeAddsUp ==
  shown # NoTrade =>
    /\ shown.entryFee + shown.exitFee = shown.total
    /\ shown.gross - shown.total = shown.net
    /\ shown.entryClosed + shown.exitClosed = shown.net

TradesNext ==
  \E side \in {"long", "short"}, move \in -MaxMove..MaxMove, entryFee, exitFee \in 0..MaxFee,
     keep \in SUBSET {"gross", "total", "legs"} :
    /\ entryFee = 0 <=> exitFee = 0
    /\ ShowTrade(StoredTrade(side, move, entryFee, exitFee, keep))

ReadInit ==
  /\ audit = {} /\ page = NoPage
  /\ snapshots = {} /\ open = {} /\ plans = {} /\ poll = IdlePoll /\ shown = NoTrade

PagingNext ==
  \/ \E type \in OrderTypes, coin \in OrderCoins, at \in 1..MaxAudit : RecordOrder(type, coin, at)
  \/ \E kind \in {"orders", "events"}, types \in {OrderTypes, {"order_failed"}}, coin \in OrderCoins \cup {AnyCoin} :
       /\ kind = "events" => coin = AnyCoin
       /\ PageThrough(kind, [types |-> types, coin |-> coin])
  \/ \E type \in OrderTypes : ScanType(type)
  \/ Orders \/ AuditEvents \/ PageFails

TotalsNext ==
  \/ \E m \in Models, marker \in 0..MaxMarker : RecordAccountSnapshot(m, marker)
  \/ \E m \in Models : PositionOpens(m) \/ PositionCloses(m)
  \/ \E m \in Models, at \in 1..MaxPlans, opens \in BOOLEAN : DecisionCompletes(m, at, opens)
  \/ queryAccountSnapshots \/ queryOpenPositions \/ AccountTotals \/ NextPoll \/ QueryFails

PagingSpec == ReadInit /\ [][PagingNext]_readVars

TotalsSpec == ReadInit /\ [][TotalsNext]_readVars

TradesSpec == ReadInit /\ [][TradesNext]_readVars
===============================================================================
