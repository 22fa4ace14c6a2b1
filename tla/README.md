# Formal models of the AstraQuant trading backend

TLA+ specifications of the parts of the Go backend (`src/go`) that decide
whether, when and for whom an order is sent, with TLC configurations that check
them on small instances and TLAPS proofs that hold for every instance.

## 1. Inventory

AstraQuant lets language models trade perpetual futures. Two processes can send
orders: the **trading loop** (`cmd/llm`, one goroutine over all traders) and the
**command worker** inside the API server (`internal/commandworker`, disabled by
default). Each builds its own `Manager`; they share a Postgres database, a Redis
cache and one exchange account.

| Component | State | Operations | Hard part | Correct when |
|---|---|---|---|---|
| Position book and execution pipeline (`pkg/manager/manager.go`, `policy.go`) | `positionOwners`, per-trader `VirtualPositions` | approve, sync and reconcile, recheck, submit, book; close; restart | the account moves between any two exchange calls; lost answers; two Managers on one account; reconciliation aborts in random map order | both maps agree; an open leaves only from a reconciled, rechecked book; stale entries go away |
| Trader runtime state and circuit breaker (`manager.go`, `policy.go`, `risk_circuit.go`, `trader.go`, `pkg/repo/trader_runtime_repo.go`) | `State`, `PauseUntil`, daily baseline, circuit; row `trader_runtime_state` | register/hydrate, cycle, sync, check, trip, save | crashes between trip and save, failed saves, whole-row overwrites, day changes | no open past the loss limit; a saved trip holds until an operator acts; one baseline per day |
| Control plane (`control_plane.go`) | snapshot per trader, the same row | start, stop, pause, resume | read-modify-write of a row the loop writes too | never resurrects a tripped trader by accident |
| Control command pipeline (`internal/logic/tradingcontractlogic.go`, `pkg/repo/control_command_repo.go`, `internal/model/controlcommandsmodel.go`, `control_command_worker.go`, `internal/commandworker/runtime.go`) | table `control_commands`, worker batches | enqueue (idempotent), audit, claim, execute, terminal update, stop, crash | lost answers at every database call, concurrent duplicates, shutdown in mid-batch | at most one execution; status tells the truth; nothing is forgotten |
| In-memory control queue (`internal/controlqueue`, the fallback without a database) | list, map by id, two idempotency maps | enqueue, remove, list | a handler enqueues, audits and withdraws in three steps while others reuse its command | maps agree; an accepted command is never withdrawn |
| Simulated exchange (`pkg/exchange/sim`) | cash, positions, marks, leverage | place, IOC, close, mark, leverage | a fill that lacks margin is taken back; IOC lets the mutex go in mid-order | the ledger balances; an account that covers its margin can be closed out |
| Backtest engine (`pkg/backtest`) | a portfolio and a simulated exchange | feed, decide, book, send | every order is booked twice, by different arithmetic | both books agree |
| Engine persistence and retry queue (`internal/persistence/engine`, `resilience`) | table rows, Redis values, bounded queue | record events, retry, expire, hydrate | three statements without a transaction, lost answers, late retries, saturation | Redis shows only what a table had; trades name the right position; retries repair and end |
| Market persistence, ingest, consistency checker (`internal/persistence/market`, `internal/ingest`, `internal/consistency`) | provider copies, tables, Redis keys | fetch, store, publish, hydrate, compare | concurrent read-modify-write of one bundle, nothing compares times | only stored prices are published; a restart refreshes them; alarms have a reason |
| Trader configuration (`trader_config_repo.go`, `config_sync.go`, `RegisterTrader`) | rows with versions, history, the active version in the runtime row | sync, list or fall back on the file, register, save | the version is read outside the transaction; overlapping starts; registration takes a version from a row others write | versions are unique and none is made up; who listed the table trades what is on record |
| LLM client (`pkg/llm`) | daily token budget in memory | chat, stream, retry | budget asked before and told after a call; midnight and restarts in between | overrun bounded by the calls in flight; every call ends |
| Executor (`pkg/executor`, `buildExecutorContext`) | failure counters | read context, map, validate | reads that fail are left out; the account moves while the model is asked | an accepted decision fits the account it was read from |
| Read-side API (`internal/logic`) | none; the client's page or marker | orders, audit events, account totals, trades | several queries per request, several requests per list, beside a writer | pages and totals are complete; shown figures add up |
| Hyperliquid client, market providers, indicators | connections | signed HTTP calls | none beyond the exchange's own behaviour | - |
| Journal, importer, cron, wiring, dashboard | files, none | sequential I/O | none | - |

The components meet in three places: the `Manager` calls the exchange and saves
the runtime row (`PositionBook`, `TraderRuntime`); the control plane writes the
same row without telling any running Manager (`TraderRuntime`); the worker calls
`Manager.ExecuteDecision` for a claimed command (`ControlCommands`, where the
execution is one step; its inside is `PositionBook`). Engine and market
persistence meet in the retry queue (`RetryQueue`), the backtest in the simulated
exchange (`Backtest` extends `SimExchange`). `DecisionCheck` ends where
`PositionBook` begins: with the decision the loop passes on.

## 2. Modules

| Module | Models |
|---|---|
| `PositionBook` | the virtual book of every Manager, the execution of one decision per Manager, the account |
| `TraderRuntime` | one trader in every Manager, its row, the control plane, the clock |
| `ControlCommands` | the command table, API requests, workers |
| `CommandLifecycle` | the abstract life of one command: what the pipeline promises |
| `RetryQueue` | the bounded retry executor both persistence services use |
| `EnginePersistence` | position events, cycles, conversations and analytics from Manager to tables to Redis |
| `MarketPersistence` | prices and asset lists from exchange to tables to Redis, hydration, the checker |
| `ConfigSync` | start-up of `cmd/llm` and of the worker: YAML into `trader_config` with its history, the traders that are registered and the version each decides under |
| `SimExchange` | the simulated exchange |
| `Backtest` | the backtest engine with its portfolio and its simulated exchange |
| `CommandQueue` | the in-memory control queue and its handlers |
| `ReadModel` | order pages, account totals and trades, read while others write |
| `LLMClient` | callers, retry loop and daily budget of the LLM client |
| `DecisionCheck` | a decision cycle from the reads to the accepted decision |
| `MC*` | instances for TLC |
| `PositionBookProofs`, `ControlCommandsProofs`, `TraderRuntimeProofs`, `ConfigSyncProofs`, `EngineProofs`, `MarketProofs` | TLAPS proofs about the module they extend |
| `DeskProofs` | TLAPS proofs about `CommandQueue`, `LLMClient` and `DecisionCheck` |
| `ReportProofs` | TLAPS proofs about `Backtest`, `ReadModel` and `SimExchange` |

Each action stands for a stretch of code that no other actor can interrupt: from
one exchange or database call to the next. The code between two such calls runs
on one goroutine, under the Manager's locks, and touches nothing shared.
Operators named `...Always`, `...Trusting` and so on, with a comment that starts
with "Mutant of", are deliberately wrong variants: substituted for the definition they
name they must make a property fail, which shows that the property can fail.

### PositionBook

`account` is the exchange's signed size per symbol, `positionOwners[m]` and
`VirtualPositions[m][t]` the two maps of Manager `m` (0 = no entry), `op[m]` the
decision being executed with its program counter:

    idle --ApproveOpen--> sync --Recheck--> submit --OrderFilled/OrderUnreported--> assign --BookOpen--> idle
    idle --ApproveClose--> close --CloseAccepted--> release --BookClose--> idle

with `SyncFails`, `RecheckRejects`, `OrderFails`, `CloseFails` as error paths.
`Reconcile` / `ReconcileMismatch` are `ReconcileTraderPositions`; a mismatch
leaves any subset of the missing entries released because Go iterates maps in
random order. `op[m].seen` is the `GetPositions` result of that sync, kept as
history for the properties. Prices, leverage, margin and price guards appear as the
possibility of `RecheckRejects`; fills may be partial, unreported, or happen while
the answer is lost. `TriggerFires` is a stop-loss, take-profit or liquidation.
The exchange executes an order inside the submitting step: orders that land
after the call has timed out are not modelled.

### TraderRuntime

One trader. `trader[m]` is its `VirtualTrader` in Manager `m`, `row` its row in
`trader_runtime_state`, `ctl` the control request in flight, `snap` the
`ControlPlane.states` entry. A circuit is the date it was tripped on, a pause its
end; the date of `DailyRiskState.UpdatedAt` equals `Date` in all reachable states
and is left out. `pc[m]` runs through registration, cycle, approval, sync, save,
recheck, submission, end-of-cycle save and sync; every `persistRuntimeState` is a
step that may fail without notice (`SaveFails`). A worker's Manager has no cycle
(`BeginCommand`). `tripped` is a history variable: the row has held a tripped
circuit, and no operator has started or resumed the trader since. The account value is whatever
`GetAccountState` reports (`Equities`); 0 stands for a missing or unparsable one.
Control requests are handled one at a time; two concurrent requests are not
modelled. `Pause`, `Resume` and `UnregisterTrader` have no callers in the
repository and no action here.

### ControlCommands

`api[r]` is the handler of request `r`, `rows[r]` the status of the row it
inserted, `worker[w]` a worker's context, remaining batch, command in hand and
outcome. `executed[r]` counts the calls of `ExecuteDecision` that may have
reached the exchange. Every database call has an action for its success and one
for failure or a lost answer (`InsertFails`, `ClaimLost`, `UpdateLost`).
`Stop` cancels the context: the batch in hand is still executed, on contexts of
its own, while every update fails. The audit event is modelled only by whether
the request got past it. The in-memory fallback queue is `CommandQueue`.

`ImplementsLifecycle` instantiates `CommandLifecycle` with the rows and
executions of the pipeline; requests and workers are hidden.

### RetryQueue, EnginePersistence, MarketPersistence

A slot of the queue holds one task and the number of its next attempt; `Enqueue`
drops the task when no slot is free, `handleCacheFailure` also drops what
`Classify` calls permanent, and `AttemptFails` gives the slot back after
`MaxAttempts`. A crash empties the queue (`QueueLost`).

`EnginePersistence` follows one trader. Events are numbered, and an event's
number stands for its price, quantity and time, so the entry of a position is the
number of the open that made it. `job` is the event being recorded, with one step per
statement (`OpenStored`, `FindRow`, `CloseStored`, `insertTrade`; `OpenFails` and
`CloseFails` stop after any of them, committed or not) and then one per cache
operation: `LoadCache`, `WriteCache`, `WriteFails`. A close reads, updates and
inserts outside any transaction. `Released` and `Adopted` are reconciliation,
which changes the book and records nothing. `tainted` is history: a refresh of
the cached positions was lost, skipped or overtaken. `HydrateCaches` is what a start-up
writes to the cache: the open rows, the trades newest first (`RecentByModel`, cut to the
list's length) and the `Newest` cycle, or nothing for ids in lower case.

`MarketPersistence` follows a few symbols and the asset list. A fetcher (trading
loop, ingestor or checker) runs `Fetch`, `Store`, `ReadBundle`, `Write` and `Keep`; the
bundle of all prices is read and written back inside the closure that a retry
repeats. Prices are versions. `check` is `MarketChecker.Check`: the rows once,
then cache and provider for each symbol. The provider key of a price stands for
the global price key and the context key, which are written alike.

### ConfigSync

`proc[p]` is a process. While it syncs it has its YAML file, the traders still to sync
and the row `syncOne` found; `WriteTx` is the transaction over table and history.
`ListAll` makes the table the source of its traders. After `SyncFails` (before or after
the commit) or `ListFails` the source is the file (`FallsBack`), as it is for the
command worker, which never syncs (`StartWorker`). A detail column is
JSONB, whose text is never the text Go marshals; `normalizeDetail` and `JsonbText` keep
the two forms apart.

`RegisterTrader` gives each trader of the source the version it decides under. A
trader of a file has none and gets version 1 (`RegisteredVersion`); the version of its
runtime row, `active`, replaces a lower one (`HydratedVersion`), unless the row cannot be
read. `runs[p]` is what is registered. `active` is written by every save: the one that
ends the registration (`Registered`, a step of its own), those of the loop and the
worker (`SaveState`), and those of the control plane, which knows the file only and
writes 0 (`ControlRecords`). `crossed` is history: a process began to sync while another was
between the end of its sync and its last registration.

### SimExchange, Backtest

`acct` has the provider's fields. Money is counted in ticks fine enough that
averages, fees and slippage are exact in the instance. `executeOrder` is
`executeOrderLocked`: cut a reduce-only order, book the fill, check the margin of
the account it leaves, take everything back or keep it. `IOCMarket` and
`IOCPlaced` are the two halves of an IOC order. `told` is history: the fills the
clients were told of. The loops over positions that add up unrealised profit, margin and
cost are `SumFunction` over the markets.

`Backtest` has the engine's loop in `bt`: a step's price, the strategy's orders,
the portfolio `pf` and the exchange `sim`. The two strategies are the threshold
and the journal replay; `JournalOrders` lists, in the journal's order, the decisions
that yield an order. `odd` marks runs in which an order was cut or a step had no
price; there the two books are known to part.

### CommandQueue

`queue` has the fields of `controlqueue.Queue`. A handler validates, enqueues
under the mutex, records an audit event and withdraws its command when that fails;
a request with the same key in between is answered with that command.

### ReadModel

Three kinds of request. `page` is a client that walks through a list by
offset: `ScanType` reads one event type, `Orders` merges, sorts, filters and cuts.
A page is the set of the rows whose `Rank`, the number of newer rows, lies in the
window of limit and offset (`Cut`).
`poll` is a client that polls the account totals with a marker: three queries, one
step each; the last one, a list per trader in the code, is a single step. `plans` are the
completed decision commands with the order of their creation, in which they need not complete.
`queryDecisionPlans` reads the newest `PlanCap` (500) of a trader, of whatever action, and
`latestPlan` is the newest open among those. `ShowTrade` rebuilds a trade from a stored row of which any group of figures
may be missing. The writers are the trading process; an order event carries a time
taken before its row is written.

### LLMClient, DecisionCheck

`call[c]` is a caller's request (`sent`, `backoff`, `answered`, `ended`), `guard`
the `BudgetGuard`. `spent` is history: what the provider charged today. `Deadline`
is the context of the decision.

`ectx` is the cycle with the context it decides on. `ReadAccount` and `ReadMarket`
are `buildExecutorContext`: a failed read leaves zero values. `GetAccountState` and
`GetPositions` are two calls in the code and one step here: an account that moves between them
has moved during the cycle, and `AcceptedFits` is about cycles in which it has not. `GetFullDecision`
maps the answer (`mapDecisionContract`) and validates it (`ValidateDecisions`). A
symbol has a spelling, because the guards compare symbols in different ways: exactly, by
case folding, after trimming. Checks on the decision alone (prices, reward and
risk, confidence) are one Boolean of the answer.

## 3. Runs

| Run | Instance | Result |
|---|---|---|
| `book_pair` | loop + worker, 2 traders, 2 symbols, 1 slot, size 1, account within 2 | passes: `TypeOK`, `BookConsistent`, `OpenRechecked`, `BookingWithinCapacity` |
| `book_loop` | loop alone, 2 slots, size 2 (partial fills), fairness | passes: `OpensFromReconciledBook`, `NoStackedOpens`, `StaleEntriesReleased` |
| `book_isolation` | as `book_pair` | violates `TradersIsolated` |
| `book_wedge` | worker alone, fairness | violates `StaleEntriesReleased` |
| `commands_pipeline` | duplicate approval + rejection, 2 workers, batches of 2, fairness | passes: `TypeOK`, `OneRowPerKey`, `AcceptedHasCommand`, `StatusTruthful`, `ImplementsLifecycle`, `QueuedIsClaimed` |
| `commands_stuck` | rejection + order command, 1 worker, fairness | violates `ClaimedTerminates` |
| `commands_unaudited` | duplicate approval, 1 worker | violates `ExecutionAudited` |
| `runtime_loop` | one loop, all operators, crashes, 2 days | passes: `TypeOK`, `PausedWhileTripped`, `TripNeedsOperator`, `OneBaselinePerDay` |
| `runtime_pair` | loop + worker, failing reads, no operators | passes: `OpensWithinLoss` |
| `runtime_reset` | one loop, failing reads | violates `OneBaselinePerDay` |
| `storage` | engine, market and configuration, each alone; 1 retry slot, 2 attempts, fairness | passes: `CacheFollowsDatabase`, `TradesTruthful`, `RetryRepairs`, `PublishedWasStored`, `StartupRefreshes`, `CacheAlarmsExplained`, `TradedIsRecorded`, `VersionsIdentify`, `RetriesDrain` and three type invariants |
| `desk` | exchange, backtest, queue, paging, totals, trades, LLM client and decision cycle, each alone, fairness | passes: `LedgerBalances`, `CanUnwind`, `BooksAgree`, `QueueConsistent`, `PagingComplete`, `TotalsComplete`, `TradeAddsUp`, `SpendBounded`, `AcceptedFits`, `CallsEnd` |

What the properties of the last two runs say:

* `CacheFollowsDatabase`, `PublishedWasStored`: no reader of Redis sees what
  never reached a table, through a value or through one waiting in the queue.
* `TradesTruthful`: a trade has the entry of the position it closes if that open
  was stored, although a symbol has one row for all its positions and the close
  uses whatever row it finds.
* `RetryRepairs`, `RetriesDrain`: while no refresh was lost or overtaken, cached
  positions are the table's; every slot is given back however the attempts go.
* `StartupRefreshes`: a hydration without failed writes leaves no stale key.
* `CacheAlarmsExplained`: the checker reports a cache mismatch only after a failed
  write, overlapping calls or a pass beside a call.
* `TradedIsRecorded`: every current row is in the history, no version above 1 that a
  process or the runtime row has is made up, and a process that listed the table trades
  what the history holds under its version, although registration may raise
  that version to the runtime row's. The last part needs that no process started during its
  sync or before its last registration. It is false of a process that fell back on its file (section 6).
* `VersionsIdentify`: unless syncs overlapped, a version names one configuration in
  the history and there are no gaps. Together: the decisions of a process that listed
  the table can be replayed by version.
* `LedgerBalances`, `CanUnwind`: cash, fees and open positions are explained by the
  fills that were answered; an account whose equity covers its margin can be closed,
  in any order, although closing orders meet the margin check too. The second
  holds at leverages whose margin rate covers slippage and fee: the code accepts
  higher ones, and there a close can be refused.
* `BooksAgree`: while no order is odd, portfolio and exchange have the same
  position, average and realised profit.
* `QueueConsistent`: list and maps agree, and the failure of one request does not
  withdraw a command whose own request was accepted. A request that was answered with
  another one's command has no such promise.
* `PagingComplete`, `TotalsComplete`, `TradeAddsUp`: what was there when a client
  began is in its pages and totals, for lists within the scan cap and without a
  symbol filter; the exit plan of a position is never older than an open that had completed
  when the request began, if that one is among the trader's newest `PlanCap` commands;
  a shown trade's legs, total and net agree.
* `SpendBounded`, `CallsEnd`: a strict budget is overrun by less than one answer
  per caller; the retry loop ends by its own count.
* `AcceptedFits`: the guards compare with what was read; if the account has not
  moved and the read succeeded, slot count, pyramiding, value band, margin and the
  side of a close hold of the account itself.

**Components explored alone.** The parts in `storage` and in `desk` share no
variable except the retry queue, so `focus` picks one per behaviour. The queue
may drop any task in any state (a permanent error), so a slot taken by the other
service adds nothing to what a service can observe.

**Bounds.** Two traders and two symbols are the least with which one trader can
block another's symbol and use up its own slot on a different one; `MaxPositions
= 1` makes the limit bite and adoption exceed it. `book_loop` has two slots, so
that a trader with an adopted or a mismatched entry has room for another open and
only the reconciliation and the symbol check can stop it. `QtyBound = 2` lets two fills
add up or a partial close leave a rest. In the pipeline the same key twice and two
workers with batches smaller than the backlog make every race of insert and claim possible; approval of
a hold is left to the proofs, which cover every kind. In `TraderRuntime` one tick is a day, so every step may
be separated from the next by midnight; equities 0, 1 and 3 with a limit of 1 give an
unreadable value, a loss past the limit and none. `storage`: one retry slot makes
saturation and the drop happen at once, two attempts a retry that fails and one that
gives up; four events are an open, its close, a second open and one more, so that a
late retry meets newer values; a list limit of 1 makes every append cut; two
versions and one restart give a stale key and its refresh; two processes and three
starts of the loop make syncs overlap, cross a registration and write a row three times, with worker starts in
between (`MCStorage` has one trader, the proofs any number). `desk`: two markets
and two orders take an account through increase, cut, flip and refusal; four
steps take a backtest through open, reduce and flip; two handlers and
three commands allow a withdrawal between reuse and a new command of one key; three events
with pages of one put writes between scans and pages; three commands with a
`PlanCap` of 2 push an open out of the window, and complete out of order. Account totals are explored twice,
because their tables multiply: with snapshots, markers and one command (`totals`), and with all
commands, no snapshot and one request (`plans`); moves and fees up to 4
(`MaxMove`, `MaxFee`) give gains, losses, odd halves of a fee and a fee above the gain; two callers and two days put
midnight between question and record; two coins, one move before and one during the
cycle, and every spelling exercise each guard. Both runs say `CHECK_DEADLOCK
FALSE`: their parts come to rest when their bounds are used up. Symmetry is used on traders and symbols in the runs
without liveness only.

**Fairness.** `ControlCommands`: a worker works off its batch (weak), polls again
while it is up (strong, because a crash may interrupt every wait:
`Runtime.loop` ticks forever), and is started again after a stop. `PositionBook`:
a Manager finishes the decision it executes (every call has a ten-second
timeout), the trading loop's sync of each trader succeeds again and again
(strong: it is attempted every cycle; it applies to traders that stay active), and decisions of every kind
keep arriving. The last assumption is not needed for `book_loop`; it makes
`book_wedge` stronger: the entry stays although every open and close is attempted
for ever. `RetryQueue`: the goroutine of each slot goes on (weak: `Queue.run`
loops on a timer and returns only after success, the last attempt or a permanent
error). `LLMClient`: each caller goes on (weak: an HTTP request has a timeout, a
backoff ends). Weak fairness does not choose between answer and failure, so
`CallsEnd` and `RetriesDrain` hold with a provider or a Redis that always fails. No fairness is assumed for restarts, triggers, requests or failures.

## 4. What the violations show

* `book_isolation` (`runtime.go:137`): an order filled through the loop is booked
  by its trader there, and adopted by another trader in the worker's book, whose
  next sync finds it unowned. `blueprint.md:60` and `ARCHITECTURE.md:77` promise
  isolated virtual traders.
* `book_wedge` (`policy.go:111`): when the worker's trader is at its limit and the position
  is gone, opens are rejected before the sync, the close fails on the nil
  response, and the worker syncs nowhere else.
* `commands_stuck` (`controlcommandsmodel.go:187`): claimed rows are never claimed
  again; a crash or a failed update leaves them in `processing`
  (`API_CONTRACT.md:75`).
* `commands_unaudited` (`tradingcontractlogic.go:274`): enqueue comes before audit;
  the request fails, the command runs (`API_CONTRACT.md:53`).
* `runtime_reset` (`manager.go:408`): an unreadable row counts as no row; the fresh
  trader overwrites baseline and circuit (`risk-controls.md:40`).

## 5. Proofs

All theorems hold for every value of the constants that satisfies the named
assumptions of the modules (`BookAssumption`, `CommandAssumption`,
`RuntimeAssumption`, `ConfigAssumption`, `QueueAssumption`, `EngineAssumption`,
`MarketAssumption`, `CommandQueueAssumption`, `LLMAssumption`, `DecisionAssumption`,
`SimAssumption`, `BacktestAssumption`, `ReadAssumption`), which TLC evaluates in the runs.
They say that bounds are numbers, that sets which are counted are finite, and that
"none" is not one of the values.

* **PositionBook.** `BookInv` = types, `BookConsistent`, `OpenRechecked`,
  `OpensFromReconciledBook`. Consistency is inductive with the types alone;
  the other two need it, because a reconciliation only establishes "own entries
  equal the account's" if owner and entry agree beforehand. The argument: `Recheck`
  is the only step to `submit`; until `assign` is left no step of the same Manager
  touches its book, and steps of others touch theirs only (`ReadyFrame`).
  `BookingsWithinCapacity` adds a cardinality argument for one more symbol.
  `NoStackingBySingleManager` assumes one Manager and carries `FlatUntilFilled`:
  only reduce-only orders run between sync and submission. With two Managers it
  is false, which `book_isolation`'s behaviours show. Two action properties say
  what a sync does to a book of any history: one that succeeds leaves the trader's entries
  equal to the account's and every position owned (`SyncsLeaveReconciled`), and
  none repairs an entry of another size (`MismatchesOutliveSyncs`): that takes a
  booked close, a restart or a move of the account.
* **ControlCommands.** `CommandInv` adds to the properties that rows are absent
  before their insert and present before their audit, that a command in a batch is
  `processing` and not executed, that the outcome in hand agrees with the execution,
  and that no command is with two workers. The last one is why an unconditional
  terminal update never overwrites a terminal status (`TerminalStaysFinal`, as an
  action property). `PipelineImplementsLifecycle` is the refinement. `OrphansAreStuck`
  is the other side of the finding `commands_stuck`: with any number of workers a
  row that is `processing` and with none of them keeps that status for ever.
  Both rest on `NobodyReturns`: only queued commands are given to a worker, and
  only commands with a worker are executed or updated.
* **TraderRuntime.** `RuntimeInv` adds that no daily state is dated in the future:
  a baseline of tomorrow would pass the check today and block tomorrow.
  `TripHoldsForSingleLoop` and `BaselineUniqueForSingleLoop` assume `SingleLoop`:
  one trading loop, no worker, readable rows; `runtime_reset` shows the need of the
  last part. The baseline proof also needs that the row is never ahead of the
  memory of a running Manager.

* **ConfigSync.** `ConfigInv` adds to the properties `VersionsPaid` (every version, in the
  table or read by a process, was paid for by a start, so that the bound on starts bounds the versions)
  and `Undisturbed` (while syncs have not overlapped, the row a process found is still the
  row of the table when it commits). The second is what "read outside the
  transaction" puts at risk, and why `VersionsIdentify` has its condition. A second layer,
  `RegistrationInv`, is about the versions traders get. `VersionsSound`: wherever
  a version is kept (the runtime row, a registered trader, the source of a process) it is at
  most 1 or one of the history, and not above the table's while syncs have not
  overlapped. `ListedCurrent`: in a calm history (neither `overlapped` nor `crossed`) at most one process is
  between its start and its last registration, so what it listed is still the table's. From the
  two, hydration cannot raise the version of a process that listed the table, and what it
  registers is recorded (`ListedRecorded`). `TradedIsRecorded` follows from both layers.
* **CommandQueue.** `QueueInv` = shape, `HandlersOwn`, `QueueConsistent`.
  `HandlersOwn`: a handler that audits or withdraws is the only one with that
  command, which is queued and has no audit event yet. So `Remove` never meets an accepted
  command; that the list stays strictly ordered makes its one removal complete.
* **LLMClient.** `LLMInv` = shape, `SpentAccounted` (what was charged today is at most what
  the guard counts plus answers on their way to it), `RoomForInflight` (what was charged,
  with one full answer for every request in flight, is within the bound). The bound follows
  by counting callers; the products with `MaxTokens` are lemmas of their own.
  `CallsRunDown`: a call in progress has `StepsLeft` steps, a natural number, and
  every step of it leaves fewer.
* **DecisionCheck.** `DeskInv` = types, `ContextCurrent` (what was read is the
  account unless it moved), `DecisionValid` (an accepted decision passed every guard
  against the context). `AcceptedFits` is the two together.
* **MarketPersistence.** Three layers. `MarketInv`: every operation in a call, in a slot
  of the retry queue or applied carries values that were stored; bundles
  are merged from such values only. It gives types and `PublishedWasStored`.
  `HydrationInv`: start-up runs alone (`HydrationAlone`), and each key is the
  row's, empty, or still to be written (`HydrationFresh`). `CalmInv`: in a calm history
  at most one call is under way and the queue is empty (`CalmQuiet`), and a price
  key has the row's price or its call is about to write it (`CalmFresh`).
* **EnginePersistence.** Three layers. `EngineInv`: all that the cache, the job
  under way and the retry queue hold was written to a table, through loads, appends and cuts of
  bounded lists. `EntriesInv`: numbers in use are numbers of past events
  (`Bounded`), and a position whose open was stored keeps its row until its close has
  read it (`EntriesKept`); hence `TradesTruthful`. `RepairInv`: in an untainted
  history the cached positions are the table's but for the symbol whose refresh is due
  (`RefreshCurrent`), at most one write of them waits for its retry, and the value that
  counts, the waiting one or else the one in Redis, is right (`OneValue`).
* **RetryQueue.** `QueuedRetriesRunDown` (engine) and `MarketRetriesRunDown` (market) are
  action properties: a newer failure never takes the slot of a queued task, the
  task keeps what it captured, and a step of its slot is the next of
  `MaxAttempts` attempts or its end. A market task may read the bundle before it
  writes, so its bound is a measure (`TaskLeft`) that reads count in too.
* **Backtest.** `BacktestInv` = shape, `StepPrice` (pending orders carry the price of
  their step), `BooksAgree`. The two arithmetics are compared case by case: an order that
  grows a position (`GrowsAlike`), one that shrinks, closes or turns it
  (`ShrinksAlike`), and the accepted order with fee and margin check (`FillAgrees`). A
  refused or cut order makes the run `odd`.
* **SimExchange.** Both properties are about sums over all markets. The library defines
  a sum by a recursive fold, so the first part of the proof is that such a
  fold exists: `FoldExists` builds it by counting rounds (`RightUpTo`, `OneRoundMore`), with the
  least-number principle where an induction would be. `SumMoves` is what the
  rest needs: when one market's term changes, the sum changes by the difference. `SimShape`
  is the inductive invariant: types, an asset number per market with its leverage
  (`Numbered`), and no entry price without a position (`Settled`).
  - `LedgerStaysBalanced` assumes `AveragesExact` of the steps taken: an order that grows a
    position leaves an entry price that is the average without remainder. The
    code averages in floats and drops nothing; the model divides integers. Orders that shrink,
    close or turn a position need no such assumption, nor do fees, which are charged
    and reported as the same number. The runs' ticks satisfy it in every step.
  - `PositionsUnwind` assumes `LeveragesCover`: for every leverage `L`,
    `L * (FeeDen + SlipDen + 1) <= SlipDen * FeeDen`, the margin rate covers one slippage and
    one fee. With the instance's 5 that is 155 <= 200; with the code's defaults
    (fee 1/2500, slippage 1/500) it holds up to a leverage of 416. No exactness is
    needed: slippage and fee are rounded down by `\div`, margin too, and
    `MarginCovers` is the inequality between the three. The theorem also says what
    closing in any order needs, that every close leaves the account covered (`UnwindStep`).
* **ReadModel, totals and trades.** `TotalsInv` adds `PollCurrent`: the commands known when the request began are still in
  the table (`LatestPlan`: whatever else completed, the plan shown is the newest open of the window), a full pull has every model with a snapshot, and the positions that stayed open are among
  those the second query finds. `TradesAddUp` needs no strengthening: it follows
  from the definition of `ShowTrade` for any figures, with the halves of an odd fee.
* **ReadModel, paging.** `PagingInv` adds `PagesReach`: a request cannot pass by a row of the start
  that the client has not seen. Either it has read a full page of newer rows beyond the
  offset, or the row and as many newer ones as the offset are read or still to be read. It is kept because new rows only push others back: `RankOrder` says
  that ranks follow age, `RankHit` that every rank below the count is taken, so an
  empty page means that nothing is left. `RankHit` and the greatest element of a bounded
  set (`MaxExists`) come from the least-number principle of `WellFoundedInduction`.

The specifications proved about are the components' own
(`EngineSpec`, `MarketSpec`, `LLMSpec`, ...) without fairness, which safety does not need;
the runs `storage` and `desk` explore the same next-state relations, one per behaviour.

Every invariant and every action property of a passing run is a theorem. Only
model-checked are the four liveness properties, because fairness is out of the prover's reach.
Each has a safety half that is proved:

| Liveness | Proved half | Left to TLC |
|---|---|---|
| `RetriesDrain` | `QueuedRetriesRunDown`, `MarketRetriesRunDown`: fewer steps left after every step | that the goroutine goes on |
| `CallsEnd` | `CallsRunDown`: likewise | that the caller goes on |
| `StaleEntriesReleased` | `SyncsLeaveReconciled`: a successful sync releases | that a sync succeeds again |
| `QueuedIsClaimed` | none but the refinement: a queued command only leaves by a claim | that a worker polls again |

## 6. What the code does that a reader may not expect

Met while modelling; each is part of the models, and the properties above are
stated so that they hold in spite of it.

* Configuration: because JSONB text never equals Go's JSON, every start writes a
  new version of every trader. A trader removed from the YAML file stays in the table
  and keeps running. Overlapping syncs may write one version twice.
  A process that falls back on its file after a failed sync or list, and the command
  worker always, registers its traders under version 1 or the runtime row's version; the
  history may hold another configuration under that version, or none. So may a process whose start crossed
  another's registration. Their decisions cannot be replayed by version, which
  `blueprint-db-todo-v2.md:538` and `blueprint-db-todo.md:285` want. A control request resets the
  version in the runtime row to 0 until the next save. No migration in
  the repository creates `trader_config_history`.
* Engine persistence: reconciliation releases and adopts without an event, so tables
  keep an open row for a released position and none for an adopted one.
  `normalizeIDs` upper-cases ids, so hydration finds nothing for lower-case ones.
  A failed engine hydration ends the start-up with a panic. A late retry overwrites a newer
  value.
* Market persistence: when the transaction fails the provider keeps its copy
  all the same. `RecordPriceSeries` ignores conflicts and so keeps the first version of an
  unfinished candle.
* LLM budget: routed and streamed answers are not counted, a strict guard turns
  the answer that crosses the limit into an error although it is paid for, and a
  restart forgets the count.
* Executor: the venue's leverage cap is looked up for held coins only, where an
  open is refused anyway; illiquid coins are no candidates, so the liquidity
  guard rarely has a snapshot to look at; the cooldown guard has no input. A symbol
  padded with blanks passes the pyramiding guard. Without a positive equity the value band
  and margin guards are skipped.
* Read side: the symbol filter is applied after the scan, so a filtered list may
  end early. `NextOffset` stays unset where the scan stops at the page, as in lists
  of one type. Account totals show the positions of now beside
  snapshots of earlier, show no exit plan for a position whose open is older than the trader's newest
  500 completed commands, and snapshots written by the engine have no hourly
  marker.
* Backtest: the portfolio books an order before the exchange sees it, ignores reduce-only,
  and skips steps without a price, which the exchange fills.

## 7. Not modelled, and the plan

Left out for good: HTTP, signing, formatting, prompts, indicators, the dashboard,
single-query endpoints, journal files, one-shot tools and start-up wiring. They keep no state that
a later step depends on, or are text. Left out with a reason of their own:
orders that land after their call timed out (the `PositionBook` exchange executes inside
the call); two control requests at once; float rounding; the checker's age test.

The plan has been carried out. What could extend it: `LedgerBalances` with rational
instead of whole entry prices, which would need no `AveragesExact`; and
`TraderRuntime` for two processes, of which only the single-loop forms are true and
proved, once the code compares row versions before it overwrites one.
