-------------------------- MODULE MarketPersistence --------------------------
(***************************************************************************)
(* How the cmd/llm process publishes market data.  Trading loop, ingestor  *)
(* and consistency checker call the market provider; a call that finds no  *)
(* fresh copy in the process fetches from the exchange, writes the tables  *)
(* in one transaction, then the Redis keys one by one, and keeps a copy.   *)
(* Nothing compares times: whoever writes last wins.  Versions stand for   *)
(* what the exchange shows; 0 is "nothing".  AssetList is the asset        *)
(* directory, fetched, stored and cached like a snapshot.  The provider's  *)
(* price key of a symbol stands for the global price key and the context   *)
(* key too: they are written alike, one after the other, and none depends  *)
(* on another.                                                             *)
(***************************************************************************)
EXTENDS RetryQueue, FiniteSets, Sequences, SequencesExt

CONSTANTS Coins,       \* symbols with a snapshot
          AssetList,   \* the item that is no symbol
          Fetchers,    \* goroutines that call the provider
          Checker,     \* the one that is the consistency checker
          MaxLive,     \* bound on versions
          MaxRestarts  \* bound on crashes

ASSUME MarketAssumption ==
  /\ IsFiniteSet(Coins) /\ AssetList \notin Coins /\ Checker \in Fetchers
  /\ MaxLive \in Nat \ {0} /\ MaxRestarts \in Nat

Items == Coins \cup {AssetList}

VARIABLES
  moving,    \* the items this behaviour is about, symbols or the asset list
  live,      \* what the exchange shows
  local,     \* the provider's own copies
  latest,    \* price_latest with market_asset_ctx; market_assets
  stored,    \* history: versions that reached the tables
  redis,     \* the Redis keys
  fetch,     \* the call of each fetcher
  check,     \* the checker's pass: the rows it has read, the symbols left
  alarm,     \* the mismatch the last comparison of the checker reported
  calm,      \* history: no write failed, and no call met another or a pass
  restarts

marketVars == <<moving, live, local, latest, stored, redis, fetch, check, alarm, calm, restarts, slots>>

Version == 0..MaxLive

NoPrices == [c \in Coins |-> 0]

Price(c) == <<"price", c>>

RedisKeys == {Price(c) : c \in Coins} \cup {<<"assets">>, <<"crypto">>}

CryptoKey == <<"crypto">>

EmptyKey(k) == IF k = CryptoKey THEN NoPrices ELSE 0

Resting == [pc |-> "idle"]

-------------------------------------------------------------------------------
(* Writes of one call, in order.  "merge" reads the bundled prices and     *)
(* writes them back inside the closure that a retry repeats.               *)

cachePrice(c, v) == [key |-> Price(c), mode |-> "set", val |-> v]

updateCryptoPrices(c, v) == [key |-> CryptoKey, mode |-> "merge", coin |-> c, val |-> v]

cacheAssets(v) == [key |-> <<"assets">>, mode |-> "set", val |-> v]

cacheCryptoPrices(m) == [key |-> CryptoKey, mode |-> "set", val |-> m]

(* Mutant of RecordOps: the price key is written with a new row only.      *)
RecordOpsFirst(it, v) == IF it = AssetList THEN <<cacheAssets(v)>>
                         ELSE (IF latest[it] = 0 THEN <<cachePrice(it, v)>> ELSE <<>>) \o <<updateCryptoPrices(it, v)>>

RecordOps(it, v) == IF it = AssetList THEN <<cacheAssets(v)>>
                    ELSE <<cachePrice(it, v), updateCryptoPrices(it, v)>>

(* Mutant of hydrateLatestPrices: the bundle only.                         *)
hydrateLatestPricesBundle(have) == <<cacheCryptoPrices([c \in Coins |-> latest[c]])>>

(* The price keys of the rows there are, then their bundle.                *)
hydrateLatestPrices(have) ==
  [j \in DOMAIN have |-> cachePrice(have[j], latest[have[j]])] \o <<cacheCryptoPrices([c \in Coins |-> latest[c]])>>

hydrateMarketAssets == IF latest[AssetList] = 0 THEN <<>> ELSE <<cacheAssets(latest[AssetList])>>

(* A merge that has read the bundle and is about to write it.              *)
Merging(op) == [key |-> CryptoKey, mode |-> "merged", coin |-> op.coin, val |-> op.val,
                bundle |-> [redis[CryptoKey] EXCEPT ![op.coin] = op.val]]

Applied(op) == [redis EXCEPT ![op.key] = IF op.mode = "merged" THEN op.bundle ELSE op.val]

(* The closure a retry runs is the one from before the read.               *)
Closure(op) == IF op.mode = "merged"
               THEN [key |-> CryptoKey, mode |-> "merge", coin |-> op.coin, val |-> op.val]
               ELSE op

-------------------------------------------------------------------------------

MarketInit ==
  /\ moving \in {Coins, {AssetList}}
  /\ live = [it \in Items |-> 1]
  /\ local = [it \in Items |-> 0]
  /\ latest = [it \in Items |-> 0] /\ stored = [it \in Items |-> {}]
  /\ redis = [k \in RedisKeys |-> EmptyKey(k)]
  /\ fetch = [f \in Fetchers |-> Resting]
  /\ check = Resting /\ alarm = "none" /\ calm = TRUE
  /\ restarts = 0
  /\ QueueInit

(* The exchange moves.                                                     *)
LiveMoves(it) ==
  /\ it \in moving /\ live[it] < MaxLive
  /\ live' = [live EXCEPT ![it] = @ + 1]
  /\ UNCHANGED <<moving, local, latest, stored, redis, fetch, check, alarm, calm, restarts, slots>>

(* The provider's copy grows older than snapshotCacheTTL / assetCacheTTL.  *)
LocalExpires(it) ==
  /\ local[it] # 0
  /\ local' = [local EXCEPT ![it] = 0]
  /\ UNCHANGED <<moving, live, latest, stored, redis, fetch, check, alarm, calm, restarts, slots>>

Hydrated == \A f \in Fetchers : fetch[f].pc # "hydrate"

NoCall == \A f \in Fetchers : fetch[f] = Resting

Call(it) == [pc |-> "fetch", item |-> it]

others == <<moving, live, latest, stored, redis, alarm, calm, restarts>>

(* Provider.Snapshot / ListAssets, called when no copy is fresh; a fresh   *)
(* copy is returned without any effect.  Nothing joins two such calls.     *)
Begin(f, it) ==
  /\ it \in moving /\ f # Checker /\ fetch[f] = Resting /\ local[it] = 0
  /\ Hydrated
  /\ fetch' = [fetch EXCEPT ![f] = Call(it)]
  /\ calm' = (calm /\ NoCall /\ check = Resting)
  /\ UNCHANGED <<moving, live, local, latest, stored, redis, check, alarm, restarts, slots>>

Fetch(f) ==
  /\ fetch[f].pc = "fetch"
  /\ fetch' = [fetch EXCEPT ![f] = [pc |-> "store", item |-> fetch[f].item, ver |-> live[fetch[f].item]]]
  /\ UNCHANGED <<others, local, check, slots>>

(* No answer: the call returns the error.  To the checker it is an issue.  *)
FetchFails(f) ==
  /\ fetch[f].pc = "fetch"
  /\ fetch' = [fetch EXCEPT ![f] = Resting]
  /\ check' = IF f = Checker THEN [check EXCEPT !.pc = "next"] ELSE check
  /\ UNCHANGED <<others, local, slots>>

Writing(f, pc, todo) == [pc |-> pc, item |-> fetch[f].item, ver |-> fetch[f].ver, todo |-> todo, clean |-> TRUE]

Commit(f) ==
  /\ latest' = [latest EXCEPT ![fetch[f].item] = fetch[f].ver]
  /\ stored' = [stored EXCEPT ![fetch[f].item] = @ \cup {fetch[f].ver}]

(* RecordSnapshot / UpsertAssets: one transaction, one statement.          *)
Store(f) ==
  /\ fetch[f].pc = "store"
  /\ Commit(f)
  /\ fetch' = [fetch EXCEPT ![f] = Writing(f, "cache", RecordOps(fetch[f].item, fetch[f].ver))]
  /\ UNCHANGED <<moving, live, local, redis, check, alarm, calm, restarts, slots>>

(* Mutant of StoreFails: the Redis keys are refreshed all the same.        *)
StoreFailsCached(f) ==
  /\ fetch[f].pc = "store"
  /\ fetch' = [fetch EXCEPT ![f] = Writing(f, "cache", RecordOps(fetch[f].item, fetch[f].ver))]
  /\ UNCHANGED <<others, local, check, slots>>

(* It fails, committed or not: the error is logged, Redis is left alone,   *)
(* and the provider keeps its copy all the same.                           *)
StoreFails(f) ==
  /\ fetch[f].pc = "store"
  /\ Commit(f) \/ UNCHANGED <<latest, stored>>
  /\ fetch' = [fetch EXCEPT ![f] = Writing(f, "keep", <<>>)]
  /\ calm' = FALSE
  /\ UNCHANGED <<moving, live, local, redis, check, alarm, restarts, slots>>

-------------------------------------------------------------------------------
(* Redis writes.                                                           *)

NextOp(f) == Head(fetch[f].todo)

InCache(f) == fetch[f].pc \in {"cache", "hydrate"} /\ fetch[f].todo # <<>>

OpDone(f) == fetch' = [fetch EXCEPT ![f].todo = Tail(@)]

OpFailed(f) == fetch' = [fetch EXCEPT ![f].todo = Tail(@), ![f].clean = fetch[f].pc # "hydrate"]

ReadBundle(f) ==
  /\ InCache(f) /\ NextOp(f).mode = "merge"
  /\ fetch' = [fetch EXCEPT ![f].todo = <<Merging(NextOp(f))>> \o Tail(@)]
  /\ UNCHANGED <<others, local, check, slots>>

Write(f) ==
  /\ InCache(f) /\ NextOp(f).mode # "merge"
  /\ redis' = Applied(NextOp(f))
  /\ OpDone(f)
  /\ UNCHANGED <<moving, live, latest, stored, alarm, calm, restarts, local, check, slots>>

MarketWriteFails(f) ==
  /\ InCache(f)
  /\ redis' \in {redis} \cup (IF NextOp(f).mode = "merge" THEN {} ELSE {Applied(NextOp(f))})
  /\ handleCacheFailure(Closure(NextOp(f)))
  /\ OpFailed(f)
  /\ calm' = FALSE
  /\ UNCHANGED <<moving, live, latest, stored, alarm, restarts, local, check>>

(* pricesClose, with prices told apart whenever they differ: an empty key  *)
(* or no price is an issue of its own.                                     *)
compare(scope, price, row) == IF price \in {0, row} THEN "none" ELSE scope

(* storeSnapshot / storeAssets, and the call returns what it fetched.      *)
Keep(f) ==
  /\ fetch[f].pc = "keep" \/ (fetch[f].pc = "cache" /\ fetch[f].todo = <<>>)
  /\ local' = [local EXCEPT ![fetch[f].item] = fetch[f].ver]
  /\ fetch' = [fetch EXCEPT ![f] = Resting]
  /\ \/ f # Checker /\ UNCHANGED <<check, alarm>>
     \/ f = Checker /\ check' = [check EXCEPT !.pc = "next"]
                    /\ alarm' = compare("exchange", fetch[f].ver, check.rows[fetch[f].item])
  /\ UNCHANGED <<moving, live, latest, stored, redis, calm, restarts, slots>>

HydrateEnds(f) ==
  /\ fetch[f].pc = "hydrate" /\ fetch[f].todo = <<>>
  /\ fetch' = [fetch EXCEPT ![f] = Resting]
  /\ UNCHANGED <<others, local, check, slots>>

-------------------------------------------------------------------------------
(* Retries: a merge reads the bundle anew, then writes.                    *)

marketTask(i) == slots[i] # NoTask /\ slots[i].do.key \in RedisKeys

RetryReadsBundle(i) ==
  /\ marketTask(i) /\ slots[i].do.mode = "merge"
  /\ slots' = [slots EXCEPT ![i].do = Merging(@)]
  /\ UNCHANGED <<others, local, fetch, check>>

MarketRetrySucceeds(i) ==
  /\ marketTask(i) /\ slots[i].do.mode # "merge"
  /\ redis' = Applied(slots[i].do)
  /\ Release(i)
  /\ UNCHANGED <<moving, live, local, latest, stored, fetch, check, alarm, calm, restarts>>

MarketRetryFails(i) ==
  /\ marketTask(i)
  /\ redis' \in {redis} \cup (IF slots[i].do.mode = "merge" THEN {} ELSE {Applied(slots[i].do)})
  /\ AttemptFails(i, Closure(slots[i].do))
  /\ UNCHANGED <<moving, live, local, latest, stored, fetch, check, alarm, calm, restarts>>

RedisExpires(k) ==
  /\ redis[k] # EmptyKey(k)
  /\ redis' = [redis EXCEPT ![k] = EmptyKey(k)]
  /\ UNCHANGED <<moving, live, local, latest, stored, fetch, check, alarm, calm, restarts, slots>>

Hydrating(todo, complete) == [pc |-> "hydrate", todo |-> todo, clean |-> complete]

(* The process dies and starts again.  main hydrates before it starts the  *)
(* others, in the checker's place.  A failed query leaves its keys out and *)
(* is logged; the other one is made all the same.                          *)
MarketCrash ==
  /\ restarts < MaxRestarts /\ restarts' = restarts + 1
  /\ \E have \in SetToSeqs({c \in Coins : latest[c] # 0}), prices, assets \in BOOLEAN :
       LET todo == (IF prices /\ have # <<>> THEN hydrateLatestPrices(have) ELSE <<>>)
                   \o (IF assets THEN hydrateMarketAssets ELSE <<>>)
       IN  fetch' = [f \in Fetchers |-> IF f = Checker THEN Hydrating(todo, prices /\ assets) ELSE Resting]
  /\ local' = [it \in Items |-> 0]
  /\ check' = Resting /\ alarm' = "none" /\ calm' = FALSE
  /\ QueueLost
  /\ UNCHANGED <<moving, live, latest, stored, redis>>

-------------------------------------------------------------------------------
(* MarketChecker.Check: the rows once, then symbol by symbol the cached    *)
(* price and the provider's snapshot, each compared with the row read.     *)

loadLatestRows ==
  /\ check = Resting /\ Hydrated /\ moving = Coins
  /\ check' = [pc |-> "next", left |-> Coins, rows |-> latest, coin |-> AssetList]
  /\ calm' = (calm /\ NoCall)
  /\ UNCHANGED <<moving, live, local, latest, stored, redis, fetch, alarm, restarts, slots>>

(* A symbol without a row, or an empty key, is an issue but no mismatch.   *)
checkCache(c) ==
  /\ check.pc = "next" /\ c \in check.left
  /\ alarm' = IF check.rows[c] = 0 THEN "none" ELSE compare("cache", redis[Price(c)], check.rows[c])
  /\ check' = [check EXCEPT !.left = @ \ {c}, !.coin = c,
                            !.pc = IF check.rows[c] = 0 THEN "next" ELSE "exchange"]
  /\ UNCHANGED <<moving, live, latest, stored, redis, calm, restarts, local, fetch, slots>>

(* The snapshot is the provider's copy or a call of its own.               *)
checkExchange ==
  /\ check.pc = "exchange"
  /\ \/ /\ local[check.coin] # 0
        /\ alarm' = compare("exchange", local[check.coin], check.rows[check.coin])
        /\ check' = [check EXCEPT !.pc = "next"]
        /\ UNCHANGED fetch
     \/ /\ local[check.coin] = 0
        /\ fetch' = [fetch EXCEPT ![Checker] = Call(check.coin)]
        /\ check' = [check EXCEPT !.pc = "snapshot"]
        /\ UNCHANGED alarm
  /\ UNCHANGED <<moving, live, latest, stored, redis, calm, restarts, local, slots>>

CheckEnds ==
  /\ check.pc = "next" /\ check.left = {}
  /\ check' = Resting /\ alarm' = "none"
  /\ UNCHANGED <<moving, live, latest, stored, redis, calm, restarts, local, fetch, slots>>

Checks == loadLatestRows \/ (\E c \in Coins : checkCache(c)) \/ checkExchange \/ CheckEnds

-------------------------------------------------------------------------------

Works(f) == \/ Fetch(f) \/ FetchFails(f) \/ Store(f) \/ StoreFails(f) \/ ReadBundle(f)
            \/ Write(f) \/ MarketWriteFails(f) \/ Keep(f) \/ HydrateEnds(f)

MarketRetry(i) == RetryReadsBundle(i) \/ MarketRetrySucceeds(i) \/ MarketRetryFails(i)

MarketNext ==
  \/ \E it \in Items : LiveMoves(it) \/ LocalExpires(it)
  \/ \E f \in Fetchers : Works(f) \/ \E it \in Items : Begin(f, it)
  \/ \E i \in Slot : MarketRetry(i)
  \/ \E k \in RedisKeys : RedisExpires(k)
  \/ MarketCrash
  \/ Checks

MarketSpec == MarketInit /\ [][MarketNext]_marketVars

-------------------------------------------------------------------------------
(* Properties.                                                             *)

(* Copies, tables, keys, calls and tasks hold versions that have existed.  *)
MarketTypeOK ==
  /\ live \in [Items -> 1..MaxLive] /\ local \in [Items -> Version]
  /\ latest \in [Items -> Version] /\ stored \in [Items -> SUBSET Version]
  /\ \A k \in RedisKeys : redis[k] \in (IF k = CryptoKey THEN [Coins -> Version] ELSE Version)
  /\ \A it \in Items : local[it] <= live[it] /\ latest[it] <= live[it]
  /\ alarm \in {"none", "cache", "exchange"} /\ calm \in BOOLEAN /\ restarts \in 0..MaxRestarts
  /\ \A i \in Slot : slots[i] # NoTask => slots[i].attempt \in 1..MaxAttempts

WasStored(it, v) == v \in stored[it] \cup {0}

(* No reader of Redis sees a price, a context or an asset list that never  *)
(* reached the tables, whatever fails, is retried late or is hydrated.     *)
PublishedWasStored ==
  /\ \A c \in Coins : WasStored(c, redis[Price(c)]) /\ WasStored(c, redis[CryptoKey][c])
  /\ WasStored(AssetList, redis[<<"assets">>])

(* The checker cries wolf only for a reason: as long as no write failed,   *)
(* no calls overlapped and no pass ran beside a call, it never finds the   *)
(* cached price different from the row it has read.                        *)
CacheAlarmsExplained == alarm = "cache" => ~calm

(* A hydration in which no write failed leaves no price, bundle or asset   *)
(* list behind that differs from the tables, whatever the process before   *)
(* it had cached: empty because it expired, or the row's.                  *)
StartupRefreshes ==
  \A f \in Fetchers : fetch[f].pc = "hydrate" /\ fetch[f].todo = <<>> /\ fetch[f].clean =>
    /\ \A c \in Coins : /\ redis[Price(c)] \in {0, latest[c]}
                        /\ redis[CryptoKey][c] \in {0, latest[c]}
    /\ redis[<<"assets">>] \in {0, latest[AssetList]}
===============================================================================
