-------------------------- MODULE EnginePersistence --------------------------
(***************************************************************************)
(* internal/persistence/engine: how one process records what one trader    *)
(* does.  A position event, a decision cycle or a conversation goes to     *)
(* Postgres first; then Redis keys are refreshed, some by read-modify-     *)
(* write of the whole value.  A failed cache write is handed, value and    *)
(* all, to the retry queue.  Events are numbered; the number stands for    *)
(* whatever the event carries (price, quantity, time), so the entry of a   *)
(* position is the number of the event that opened it.  0 is "nothing".    *)
(***************************************************************************)
EXTENDS RetryQueue, Sequences, FiniteSets, SequencesExt

CONSTANTS Symbols,
          MaxEvents,    \* bound on recorded events
          MaxSide,      \* bound on stored cycles and conversations
          RecentLimit   \* recentTradesLimit, conversationsCacheLimit

ASSUME EngineAssumption == MaxEvents \in Nat /\ MaxSide \in Nat /\ RecentLimit \in Nat \ {0}

VARIABLES
  events,   \* number of the last event
  held,     \* the trader's positions, as the Manager has them
  rows,     \* table positions
  written,  \* history: the opens that reached the table
  trades,   \* table trades
  cycles,   \* table decision_cycles
  convs,    \* table conversations
  cache,    \* the trader's Redis values
  job,      \* the event being recorded
  tainted   \* history: a refresh of the positions value was lost or overtaken

engineVars == <<events, held, rows, written, trades, cycles, convs, cache, job, tainted, slots>>

Event == 0..MaxEvents

NoRow == [status |-> "none", entry |-> 0]

NoPositions == [s \in Symbols |-> 0]

(* Values that are read, changed and written back as a whole.              *)
Merged == {"positions", "trades", "conversations"}

Empty(k) == CASE k = "positions" -> NoPositions
              [] k \in {"trades", "conversations"} -> <<>>
              [] OTHER -> 0

Keys == {"positions", "trades", "conversations", "decision", "analytics", "since", "leaderboard"}

(* Keys whose value sits in a hash that hashExpire gives a time to live.   *)
Hashed == {"positions", "trades", "decision", "analytics", "since"}

ExpireTask(k) == [key |-> k, mode |-> "expire"]

SetTask(k, v) == [key |-> k, mode |-> "set", val |-> v]

-------------------------------------------------------------------------------
(* Cache operations that follow the database write of an event.            *)

(* At most RecentLimit entries are kept.                                   *)
Cut(q) == SubSeq(q, 1, IF Len(q) < RecentLimit THEN Len(q) ELSE RecentLimit)

(* Mutant of Recent: the list is never cut.                                *)
RecentUncut(q, n) == <<n>> \o q

Recent(q, n) == Cut(<<n>> \o q)

cacheOpenPosition(s, n) == [key |-> "positions", sym |-> s, val |-> n]

appendRecentTrade(n) == [key |-> "trades", val |-> n]

cacheConversationID(n) == [key |-> "conversations", val |-> n]

cacheDecisionSummary(n) == [key |-> "decision", val |-> n]

(* Nothing reads the analytics values back: only their writes matter here. *)
analyticsOps == <<[key |-> "analytics", val |-> 0], [key |-> "since", val |-> 0],
                  [key |-> "leaderboard", val |-> 0]>>

hydrateOp(k, v) == [key |-> k, whole |-> v]

(* The value an operation writes, given the value it has read.             *)
Payload(op, old) ==
  IF "whole" \in DOMAIN op THEN op.whole
  ELSE CASE op.key = "positions" -> [old EXCEPT ![op.sym] = op.val]
         [] op.key \in {"trades", "conversations"} -> Recent(old, op.val)
         [] OTHER -> op.val

NeedsLoad(op) == op.key \in Merged /\ "whole" \notin DOMAIN op

Idle == [pc |-> "idle"]

At(pc, s, n, closing) == [pc |-> pc, sym |-> s, id |-> n, closing |-> closing, found |-> NoRow]

Caching(todo) == IF todo = <<>> THEN Idle
                 ELSE [pc |-> IF NeedsLoad(Head(todo)) THEN "load" ELSE "write", todo |-> todo, old |-> <<>>]

(* A write of the positions value is waiting in slot i, or in any slot.    *)
PositionsIn(i) == slots[i] # NoTask /\ slots[i].do.key = "positions" /\ slots[i].do.mode = "set"

PositionsPending == \E i \in Slot : PositionsIn(i)

-------------------------------------------------------------------------------

EngineInit ==
  /\ events = 0 /\ held = NoPositions
  /\ rows = [s \in Symbols |-> NoRow] /\ written = {}
  /\ trades = {} /\ cycles = {} /\ convs = {}
  /\ cache = [k \in Keys |-> Empty(k)]
  /\ job = Idle /\ tainted = FALSE
  /\ QueueInit

NextEvent == events < MaxEvents /\ job = Idle /\ events' = events + 1

tables == <<rows, written, trades, cycles, convs>>

(* The Manager's recordPositionEvent and its siblings hand over one event  *)
(* at a time and ignore the error they may get back.                       *)
RecordOpen(s) ==
  /\ NextEvent /\ held[s] = 0
  /\ held' = [held EXCEPT ![s] = events + 1]
  /\ job' = At("open", s, events + 1, 0)
  /\ UNCHANGED <<tables, cache, tainted, slots>>

RecordClose(s) ==
  /\ NextEvent /\ held[s] # 0
  /\ held' = [held EXCEPT ![s] = 0]
  /\ job' = At("find", s, events + 1, held[s])
  /\ UNCHANGED <<tables, cache, tainted, slots>>

(* Reconciliation changes the book without telling the persistence layer:  *)
(* a vanished position is released, a found one adopted.                   *)
Released(s) ==
  /\ job = Idle /\ held[s] # 0
  /\ held' = [held EXCEPT ![s] = 0]
  /\ UNCHANGED <<events, tables, cache, job, tainted, slots>>

Adopted(s) ==
  /\ NextEvent /\ held[s] = 0
  /\ held' = [held EXCEPT ![s] = events + 1]
  /\ UNCHANGED <<tables, cache, job, tainted, slots>>

SideEvent == NextEvent /\ Cardinality(cycles \cup convs) < MaxSide

RecordDecisionCycle ==
  /\ SideEvent
  /\ \/ cycles' = cycles \cup {events + 1} /\ job' = Caching(<<cacheDecisionSummary(events + 1)>>)
     \/ cycles' \in {cycles, cycles \cup {events + 1}} /\ job' = Idle
  /\ UNCHANGED <<held, rows, written, trades, convs, cache, tainted, slots>>

RecordConversation ==
  /\ SideEvent
  /\ \/ convs' = convs \cup {events + 1} /\ job' = Caching(<<cacheConversationID(events + 1)>>)
     \/ convs' \in {convs, convs \cup {events + 1}} /\ job' = Idle
  /\ UNCHANGED <<held, rows, written, trades, cycles, cache, tainted, slots>>

RecordAnalytics ==
  /\ NextEvent
  /\ job' = Caching(analyticsOps)
  /\ UNCHANGED <<held, tables, cache, tainted, slots>>

-------------------------------------------------------------------------------
(* handleOpenPosition: one upsert.                                         *)

(* Mutant of UpsertRow: a conflict leaves the old detail.                  *)
UpsertRowKeepDetail(s, n) ==
  rows' = [rows EXCEPT ![s] = [status |-> "open", entry |-> IF @.entry = 0 THEN n ELSE @.entry]]

UpsertRow(s, n) == rows' = [rows EXCEPT ![s] = [status |-> "open", entry |-> n]]

UpsertCommits ==
  /\ UpsertRow(job.sym, job.id)
  /\ written' = written \cup {job.id}

OpenStored ==
  /\ job.pc = "open"
  /\ UpsertCommits
  /\ job' = Caching(<<cacheOpenPosition(job.sym, job.id)>>)
  /\ UNCHANGED <<events, held, trades, cycles, convs, cache, tainted, slots>>

(* Mutant of OpenFails: the error is logged and the cache refreshed.       *)
OpenFailsCached ==
  /\ job.pc = "open"
  /\ job' = Caching(<<cacheOpenPosition(job.sym, job.id)>>)
  /\ UNCHANGED <<events, held, tables, cache, tainted, slots>>

(* The statement failed, or its answer was lost after the commit.          *)
OpenFails ==
  /\ job.pc = "open"
  /\ \/ UpsertCommits /\ tainted' = TRUE
     \/ UNCHANGED <<rows, written, tainted>>
  /\ job' = Idle
  /\ UNCHANGED <<events, held, trades, cycles, convs, cache, slots>>

(* handleClosePosition: read, update and insert outside any transaction.   *)
FindRow ==
  /\ job.pc = "find"
  /\ job' = [job EXCEPT !.pc = "update", !.found = rows[job.sym]]
  /\ UNCHANGED <<events, held, tables, cache, tainted, slots>>

UpdateRow ==
  rows' = [rows EXCEPT ![job.sym] =
             IF @ = NoRow THEN NoRow ELSE [status |-> "closed", entry |-> job.found.entry]]

(* Mutant of CloseOps: the closed position stays in the cached value.      *)
CloseOpsKeep(s, summary) == summary

CloseOps(s, summary) == <<cacheOpenPosition(s, 0)>> \o summary

(* Without a row there is no trade to insert.                              *)
CloseStored ==
  /\ job.pc = "update"
  /\ UpdateRow
  /\ job' = IF job.found = NoRow THEN Caching(CloseOps(job.sym, <<>>))
            ELSE [job EXCEPT !.pc = "trade"]
  /\ UNCHANGED <<events, held, written, trades, cycles, convs, cache, tainted, slots>>

Trade == [id |-> job.id, closed |-> job.closing, entry |-> job.found.entry]

insertTrade ==
  /\ job.pc = "trade"
  /\ trades' = trades \cup {Trade}
  /\ job' = Caching(CloseOps(job.sym, <<appendRecentTrade(job.id)>>))
  /\ UNCHANGED <<events, held, rows, written, cycles, convs, cache, tainted, slots>>

(* Any of the three statements of a close failed: the rest is skipped.     *)
CloseFails ==
  /\ job.pc \in {"find", "update", "trade"}
  /\ \/ UNCHANGED <<rows, trades>>
     \/ job.pc = "update" /\ UpdateRow /\ UNCHANGED trades
     \/ job.pc = "trade" /\ trades' = trades \cup {Trade} /\ UNCHANGED rows
  /\ job' = Idle /\ tainted' = TRUE
  /\ UNCHANGED <<events, held, written, cycles, convs, cache, slots>>

-------------------------------------------------------------------------------
(* The cache operations of an event, one after the other.                  *)

Op == Head(job.todo)

Value == Payload(Op, job.old)

Done == job' = Caching(Tail(job.todo))

records == <<events, held, tables>>

LoadCache ==
  /\ job.pc = "load"
  /\ job' = [pc |-> "write", todo |-> job.todo, old |-> cache[Op.key]]
  /\ tainted' = (tainted \/ (Op.key = "positions" /\ PositionsPending))
  /\ UNCHANGED <<records, cache, slots>>

(* The value could not be read: the refresh is given up.                   *)
LoadFails ==
  /\ job.pc = "load"
  /\ Done
  /\ tainted' = (tainted \/ Op.key = "positions")
  /\ UNCHANGED <<records, cache, slots>>

(* runCacheWrite succeeds; renewing the time to live of a hash may fail.   *)
(* A hydrated positions value is the table's.                              *)
WriteCache ==
  /\ job.pc = "write" /\ Done
  /\ cache' = [cache EXCEPT ![Op.key] = Value]
  /\ \/ UNCHANGED slots
     \/ Op.key \in Hashed /\ handleCacheFailure(ExpireTask(Op.key))
  /\ tainted' = (tainted /\ (Op.key = "positions" => NeedsLoad(Op) \/ PositionsPending))
  /\ UNCHANGED records

(* It fails, having been applied or not.                                   *)
WriteFails ==
  /\ job.pc = "write" /\ Done
  /\ cache' \in {cache, [cache EXCEPT ![Op.key] = Value]}
  /\ handleCacheFailure(SetTask(Op.key, Value))
  /\ tainted' = (tainted \/ (Op.key = "positions" /\ slots' = slots))
  /\ UNCHANGED records

-------------------------------------------------------------------------------
(* The goroutine of a slot repeats the captured write.                     *)

TaskApplied(t) == IF t.mode = "set" THEN [cache EXCEPT ![t.key] = t.val] ELSE cache

engineTask(i) == slots[i] # NoTask /\ slots[i].do.key \in Keys

RetrySucceeds(i) ==
  /\ engineTask(i)
  /\ cache' = TaskApplied(slots[i].do)
  /\ Release(i)
  /\ UNCHANGED <<records, job, tainted>>

RetryFails(i) ==
  /\ engineTask(i)
  /\ cache' \in {cache, TaskApplied(slots[i].do)}
  /\ AttemptFails(i, slots[i].do)
  /\ tainted' = (tainted \/ (PositionsIn(i) /\ slots'[i] = NoTask))
  /\ UNCHANGED <<records, job>>

-------------------------------------------------------------------------------

(* Redis drops a value whose time to live has passed.                      *)
Expire(k) ==
  /\ k # "leaderboard" /\ cache[k] # Empty(k)
  /\ cache' = [cache EXCEPT ![k] = Empty(k)]
  /\ tainted' = (tainted /\ ~(k = "positions" /\ job = Idle /\ ~PositionsPending))
  /\ UNCHANGED <<records, job, slots>>

hydratePositions ==
  IF \E s \in Symbols : rows[s].status = "open"
  THEN <<hydrateOp("positions", [s \in Symbols |-> IF rows[s].status = "open" THEN rows[s].entry ELSE 0])>>
  ELSE <<>>

(* The recorded trades, newest first.                                      *)
RecentByModel == {q \in SetToSeqs({t.id : t \in trades}) : \A i, j \in DOMAIN q : i < j => q[j] < q[i]}

hydrateTrades(recent) == IF recent = <<>> THEN <<>> ELSE <<hydrateOp("trades", Cut(recent))>>

Newest(S) == {n \in S : \A m \in S : m <= n}

hydrateDecisionCycles ==
  IF cycles = {} THEN {<<>>} ELSE {<<hydrateOp("decision", n)>> : n \in Newest(cycles)}

(* The queries find nothing at all when the trader's id has lower-case     *)
(* letters: normalizeIDs turns them into capitals.  A query that fails     *)
(* makes the start-up panic, which is one more crash.                      *)
HydrateCaches ==
  {<<>>} \cup {hydratePositions \o hydrateTrades(q) \o d : q \in RecentByModel, d \in hydrateDecisionCycles}

(* The process dies and starts again.                                      *)
EngineCrash ==
  /\ \E todo \in HydrateCaches : job' = Caching(todo)
  /\ held' = NoPositions
  /\ tainted' = (tainted \/ job # Idle \/ PositionsPending)
  /\ QueueLost
  /\ UNCHANGED <<events, tables, cache>>

-------------------------------------------------------------------------------

EngineStep ==
  \/ OpenStored \/ OpenFails \/ FindRow \/ CloseStored \/ insertTrade \/ CloseFails
  \/ LoadCache \/ LoadFails \/ WriteCache \/ WriteFails

EngineRetry(i) == RetrySucceeds(i) \/ RetryFails(i)

EngineNext ==
  \/ \E s \in Symbols : RecordOpen(s) \/ RecordClose(s) \/ Released(s) \/ Adopted(s)
  \/ RecordDecisionCycle \/ RecordConversation \/ RecordAnalytics
  \/ EngineStep
  \/ \E i \in Slot : EngineRetry(i)
  \/ \E k \in Keys : Expire(k)
  \/ EngineCrash

EngineSpec == EngineInit /\ [][EngineNext]_engineVars

-------------------------------------------------------------------------------
(* Properties.                                                             *)

Position == [Symbols -> Event]

EngineValue(k) == CASE k = "positions" -> Position
                    [] k \in {"trades", "conversations"} -> BoundedSeq(Event, RecentLimit)
                    [] OTHER -> Event

EngineTask(t) ==
  /\ t.key \in Keys /\ t.mode \in {"set", "expire"}
  /\ t.mode = "set" => t.val \in EngineValue(t.key)

(* Tables, cached values, the event in progress and the queued retries     *)
(* have their types.                                                       *)
EngineTypeOK ==
  /\ events \in Event /\ held \in Position /\ tainted \in BOOLEAN
  /\ rows \in [Symbols -> [status : {"none", "open", "closed"}, entry : Event]]
  /\ written \subseteq Event /\ cycles \subseteq Event /\ convs \subseteq Event
  /\ trades \subseteq [id : Event, closed : Event, entry : Event]
  /\ \A k \in Keys : cache[k] \in EngineValue(k)
  /\ job.pc \in {"idle", "open", "find", "update", "trade", "load", "write"}
  /\ \A i \in Slot : slots[i] # NoTask => slots[i].attempt \in 1..MaxAttempts

(* What a value of key k would have to be made of.                         *)
Backed(k, v) ==
  CASE k = "positions" -> \A s \in Symbols : v[s] \in written \cup {0}
    [] k = "trades" -> \A j \in DOMAIN v : \E t \in trades : t.id = v[j]
    [] k = "conversations" -> \A j \in DOMAIN v : v[j] \in convs
    [] k = "decision" -> v \in cycles \cup {0}
    [] OTHER -> TRUE

(* A reader of Redis never sees a position, a trade, a decision or a       *)
(* conversation that did not reach its table: not through a cached value,  *)
(* nor through one that is still waiting in the retry queue.               *)
CacheFollowsDatabase ==
  /\ \A k \in Keys : Backed(k, cache[k])
  /\ \A i \in Slot : engineTask(i) /\ slots[i].do.mode = "set" => Backed(slots[i].do.key, slots[i].do.val)

(* A recorded trade has the entry of the position it closes, whenever that *)
(* position's open was stored: a symbol has one row for all its positions, *)
(* and handleClosePosition reads whatever it holds.                        *)
TradesTruthful == \A t \in trades : t.closed \in written => t.entry = t.closed

(* While no refresh of the positions value was lost, skipped or overtaken, *)
(* every cached position is open in the table with the same entry: retries *)
(* repair failed writes.                                                   *)
RetryRepairs ==
  job = Idle /\ ~PositionsPending /\ ~tainted =>
    \A s \in Symbols : cache["positions"][s] # 0 => rows[s] = [status |-> "open", entry |-> cache["positions"][s]]
===============================================================================
