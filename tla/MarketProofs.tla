----------------------------- MODULE MarketProofs -----------------------------
(* Proofs about MarketPersistence for any symbols, callers, versions and   *)
(* restarts.                                                               *)
EXTENDS MarketPersistence, FiniteSetTheorems, TLAPS

SetOps == [key : RedisKeys \ {CryptoKey}, mode : {"set"}, val : Version]

BundleOps == [key : {CryptoKey}, mode : {"set"}, val : [Coins -> Version]]

MergeOps == [key : {CryptoKey}, mode : {"merge"}, coin : Coins, val : Version]

MergedOps == [key : {CryptoKey}, mode : {"merged"}, coin : Coins, val : Version, bundle : [Coins -> Version]]

Ops == SetOps \cup BundleOps \cup MergeOps \cup MergedOps

Fetching == [pc : {"fetch"}, item : Items]

Storing == [pc : {"store"}, item : Items, ver : Version]

Caching == [pc : {"cache", "keep"}, item : Items, ver : Version, todo : Seq(Ops), clean : BOOLEAN]

Starting == [pc : {"hydrate"}, todo : Seq(Ops), clean : BOOLEAN]

Calls == {Resting} \cup Fetching \cup Storing \cup Caching \cup Starting

Passes == [pc : {"next", "exchange", "snapshot"}, left : SUBSET Coins, rows : [Items -> Version], coin : Items]

(* Variables have their shapes.                                            *)
MarketShape ==
  /\ live \in [Items -> 1..MaxLive] /\ local \in [Items -> Version]
  /\ latest \in [Items -> Version] /\ stored \in [Items -> SUBSET Version]
  /\ redis = [k \in RedisKeys |-> redis[k]]
  /\ fetch \in [Fetchers -> Calls]
  /\ check \in {Resting} \cup Passes
  /\ slots \in [Slot -> {NoTask} \cup [do : Ops, attempt : 1..MaxAttempts]]
  /\ alarm \in {"none", "cache", "exchange"} /\ calm \in BOOLEAN /\ restarts \in 0..MaxRestarts

(* Tables hold what the exchange has shown, and a row, once there, stays.  *)
TablesSound ==
  \A it \in Items : /\ local[it] <= live[it]
                    /\ \A v \in stored[it] : v \in 1..live[it]
                    /\ WasStored(it, latest[it])
                    /\ latest[it] = 0 => stored[it] = {}

(* The writes below are sound with respect to the versions st that reached *)
(* the tables.                                                             *)
Had(st, it, v) == v \in st[it] \cup {0}

BundleSound(st, b) == b \in [Coins -> Version] /\ \A c \in Coins : Had(st, c, b[c])

(* A value fit for a key: it reached the tables.                           *)
FitFor(st, k, v) ==
  /\ k = CryptoKey => BundleSound(st, v)
  /\ \A c \in Coins : k = Price(c) => v \in Version /\ Had(st, c, v)
  /\ k = <<"assets">> => v \in Version /\ Had(st, AssetList, v)

(* A write that puts into Redis only what reached the tables.              *)
OpSound(st, op) ==
  /\ op \in Ops
  /\ op.mode = "set" => FitFor(st, op.key, op.val)
  /\ op.mode # "set" => Had(st, op.coin, op.val)
  /\ op.mode = "merged" => BundleSound(st, op.bundle)

RedisSound == \A k \in RedisKeys : FitFor(stored, k, redis[k])

(* Calls carry what the exchange showed, and write it once it is stored.   *)
CallsSound ==
  \A f \in Fetchers :
    /\ fetch[f].pc \in {"store", "cache", "keep"} => fetch[f].ver \in 1..live[fetch[f].item]
    /\ fetch[f].pc = "cache" => fetch[f].ver \in stored[fetch[f].item]
    /\ fetch[f].pc \in {"cache", "hydrate"} => \A j \in DOMAIN fetch[f].todo : OpSound(stored, fetch[f].todo[j])

SlotsSound == \A i \in Slot : slots[i] # NoTask => OpSound(stored, slots[i].do)

Busy(f) == fetch[f].pc \in {"fetch", "store", "cache", "keep"}

(* The checker's call belongs to its pass, at the symbol it has reached.   *)
CheckSound ==
  /\ check.pc \in {"exchange", "snapshot"} => check.coin \in Coins \ check.left
  /\ Busy(Checker) => check.pc = "snapshot" /\ fetch[Checker].item = check.coin

(* The inductive invariant of what is published.                           *)
MarketInv == MarketShape /\ TablesSound /\ RedisSound /\ CallsSound /\ SlotsSound /\ CheckSound

-------------------------------------------------------------------------------
(* The start-up.                                                           *)

Hydrates == fetch[Checker].pc = "hydrate"

PriceDue(c) == cachePrice(c, latest[c])

BundleDue == cacheCryptoPrices([c \in Coins |-> latest[c]])

AssetsDue == cacheAssets(latest[AssetList])

(* Hydration runs alone, and nothing it writes is old or waits for a retry *)
(* unless one of its own writes failed.                                    *)
HydrationAlone ==
  /\ \A f \in Fetchers : fetch[f].pc = "hydrate" => f = Checker
  /\ Hydrates => check = Resting /\ \A f \in Fetchers : f # Checker => fetch[f] = Resting
  /\ Hydrates /\ fetch[Checker].clean => \A i \in Slot : slots[i] = NoTask

DueIn(op) == \E j \in DOMAIN fetch[Checker].todo : fetch[Checker].todo[j] = op

(* Each key is up to date, or its write is still due.                      *)
HydrationFresh ==
  Hydrates /\ fetch[Checker].clean =>
    /\ \A j \in DOMAIN fetch[Checker].todo :
         \/ \E c \in Coins : fetch[Checker].todo[j] = PriceDue(c)
         \/ fetch[Checker].todo[j] \in {BundleDue, AssetsDue}
    /\ \A c \in Coins : redis[Price(c)] \in {0, latest[c]} \/ DueIn(PriceDue(c))
    /\ (\A c \in Coins : redis[CryptoKey][c] \in {0, latest[c]}) \/ DueIn(BundleDue)
    /\ redis[<<"assets">>] \in {0, latest[AssetList]} \/ DueIn(AssetsDue)

HydrationInv == HydrationAlone /\ HydrationFresh

-------------------------------------------------------------------------------
(* The undisturbed process.                                                *)

(* One call at a time, none beside a pass but the checker's own.           *)
CalmQuiet ==
  calm => /\ \A i \in Slot : slots[i] = NoTask
          /\ \A f \in Fetchers : fetch[f].pc \in {"idle", "fetch", "store", "cache"}
          /\ \A f, g \in Fetchers : fetch[f] # Resting /\ fetch[g] # Resting => f = g
          /\ check # Resting => \A f \in Fetchers : fetch[f] # Resting => f = Checker

(* The price key has the row's price, or the call that stored it is about  *)
(* to write it; the checker's rows are current where it has not been yet.  *)
CalmFresh ==
  calm => /\ \A f \in Fetchers : fetch[f].pc = "cache" =>
               /\ latest[fetch[f].item] = fetch[f].ver
               /\ \A j \in DOMAIN fetch[f].todo, c \in Coins : fetch[f].todo[j].key = Price(c) =>
                    fetch[f].item = c /\ fetch[f].todo[j] = cachePrice(c, latest[c])
          /\ \A c \in Coins : \/ redis[Price(c)] \in {0, latest[c]}
                              \/ \E f \in Fetchers : /\ fetch[f].pc = "cache" /\ fetch[f].item = c
                                                     /\ fetch[f].todo # <<>>
                                                     /\ Head(fetch[f].todo) = cachePrice(c, latest[c])
          /\ check # Resting => \A c \in check.left : check.rows[c] = latest[c]

CalmInv == CalmQuiet /\ CalmFresh /\ CacheAlarmsExplained

-------------------------------------------------------------------------------
(* Keys, writes and the sequences of them.                                 *)

(* The keys of the cache are distinct.                                     *)
LEMMA KeysApart ==
  /\ \A c \in Coins : /\ Price(c) \in RedisKeys /\ Price(c) # CryptoKey /\ Price(c) # <<"assets">>
                     /\ \A d \in Coins : Price(c) = Price(d) => c = d
  /\ CryptoKey \in RedisKeys /\ <<"assets">> \in RedisKeys /\ <<"assets">> # CryptoKey
  /\ \A k \in RedisKeys : k \in {CryptoKey, <<"assets">>} \/ \E c \in Coins : k = Price(c)
<1>1. \A c \in Coins : Price(c) # CryptoKey /\ Price(c) # <<"assets">>
  <2>1. \A c \in Coins : Len(Price(c)) = 2
    BY DEF Price
  <2>2. Len(CryptoKey) = 1 /\ Len(<<"assets">>) = 1
    BY DEF CryptoKey
  <2> QED BY <2>1, <2>2
<1>2. \A c, d \in Coins : Price(c) = Price(d) => c = d
  <2>1. \A c \in Coins : Price(c)[2] = c
    BY DEF Price
  <2> QED BY <2>1
<1>3. <<"assets">> # CryptoKey
  <2>1. CryptoKey[1] = "crypto" /\ <<"assets">>[1] = "assets"
    BY DEF CryptoKey
  <2> QED BY <2>1
<1>4. /\ CryptoKey \in RedisKeys /\ <<"assets">> \in RedisKeys
      /\ \A c \in Coins : Price(c) \in RedisKeys
      /\ \A k \in RedisKeys : k \in {CryptoKey, <<"assets">>} \/ \E c \in Coins : k = Price(c)
  BY DEF RedisKeys, CryptoKey
<1> QED BY <1>1, <1>2, <1>3, <1>4

(* What is left of a list of writes.                                       *)
LEMMA TodoTail ==
  ASSUME NEW s \in Seq(Ops), s # <<>>
  PROVE  /\ 1 \in DOMAIN s /\ Head(s) = s[1] /\ Head(s) \in Ops /\ Tail(s) \in Seq(Ops)
         /\ \A j \in DOMAIN Tail(s) : j + 1 \in DOMAIN s /\ Tail(s)[j] = s[j + 1]
         /\ \A j \in DOMAIN s : j # 1 => j - 1 \in DOMAIN Tail(s) /\ Tail(s)[j - 1] = s[j]
  OBVIOUS

(* The read of a merge replaces the first write.                           *)
LEMMA TodoFirst ==
  ASSUME NEW s \in Seq(Ops), s # <<>>, NEW op \in Ops
  PROVE  /\ <<op>> \o Tail(s) \in Seq(Ops) /\ <<op>> \o Tail(s) # <<>>
         /\ Head(<<op>> \o Tail(s)) = op /\ DOMAIN (<<op>> \o Tail(s)) = DOMAIN s
         /\ \A j \in DOMAIN s : (<<op>> \o Tail(s))[j] = IF j = 1 THEN op ELSE s[j]
<1>1. <<op>> \in Seq(Ops) /\ Len(<<op>>) = 1 /\ <<op>>[1] = op
  OBVIOUS
<1>2. Tail(s) \in Seq(Ops) /\ Len(Tail(s)) = Len(s) - 1 /\ Len(s) \in Nat /\ Len(s) # 0
  OBVIOUS
<1>3. \A j \in 1..(Len(s) - 1) : Tail(s)[j] = s[j + 1]
  OBVIOUS
<1> DEFINE a == <<op>>
           b == Tail(s)
<1> HIDE DEF a, b
<1>4. /\ a \o b \in Seq(Ops) /\ Len(a \o b) = Len(a) + Len(b)
      /\ \A j \in 1..(Len(a) + Len(b)) : (a \o b)[j] = IF j <= Len(a) THEN a[j] ELSE b[j - Len(a)]
  BY <1>1, <1>2 DEF a, b
<1>5. Len(a \o b) = Len(s) /\ DOMAIN s = 1..Len(s) /\ DOMAIN (a \o b) = 1..Len(s)
  BY <1>1, <1>2, <1>4 DEF a, b
<1>6. \A j \in DOMAIN s : (a \o b)[j] = IF j = 1 THEN op ELSE s[j]
  <2> SUFFICES ASSUME NEW j \in 1..Len(s) PROVE (a \o b)[j] = IF j = 1 THEN op ELSE s[j]
    BY <1>5
  <2>1. (a \o b)[j] = IF j <= 1 THEN a[j] ELSE b[j - 1]
    BY <1>1, <1>2, <1>4 DEF a, b
  <2>2. j # 1 => j - 1 \in 1..(Len(s) - 1) /\ b[j - 1] = s[(j - 1) + 1]
    BY <1>2, <1>3 DEF b
  <2>3. a[1] = op
    BY <1>1 DEF a
  <2>4. CASE j = 1
    BY <2>1, <2>3, <2>4
  <2>5. CASE j # 1
    <3>1. ~(j <= 1) /\ (j - 1) + 1 = j
      BY <2>5, <1>2
    <3> QED BY <2>1, <2>2, <2>5, <3>1
  <2> QED BY <2>4, <2>5
<1>7. a \o b # <<>> /\ Head(a \o b) = op
  <2>1. \A q \in Seq(Ops) : Len(q) # 0 => q # <<>> /\ Head(q) = q[1]
    OBVIOUS
  <2>2. Len(a \o b) # 0 /\ 1 \in DOMAIN s
    <3>1. \A n \in Nat : n # 0 => 1 \in 1..n
      OBVIOUS
    <3> QED BY <1>2, <1>5, <3>1, Zenon
  <2>3. (a \o b)[1] = op
    BY <1>6, <2>2
  <2> QED BY <1>4, <2>1, <2>2, <2>3
<1> QED BY <1>4, <1>5, <1>6, <1>7 DEF a, b

(* A call with other writes left is the same call.                         *)
LEMMA TodoSet ==
  \A r \in Caching \cup Starting, s \in Seq(Ops) :
    LET q == [r EXCEPT !.todo = s]
    IN  /\ q.pc = r.pc /\ q.todo = s /\ q.clean = r.clean
        /\ r \in Caching => q \in Caching /\ q.item = r.item /\ q.ver = r.ver
        /\ r \in Starting => q \in Starting
<1> SUFFICES ASSUME NEW r \in Caching \cup Starting, NEW s \in Seq(Ops)
             PROVE  LET q == [r EXCEPT !.todo = s]
                    IN  /\ q.pc = r.pc /\ q.todo = s /\ q.clean = r.clean
                        /\ r \in Caching => q \in Caching /\ q.item = r.item /\ q.ver = r.ver
                        /\ r \in Starting => q \in Starting
  OBVIOUS
<1>1. CASE r \in Caching
  BY <1>1 DEF Caching, Starting
<1>2. CASE r \in Starting
  BY <1>2 DEF Caching, Starting
<1> QED BY <1>1, <1>2

(* What was sound stays sound: versions are only added to the tables.      *)
LEMMA SoundGrows ==
  ASSUME NEW st, NEW su, \A it \in Items : st[it] \subseteq su[it]
  PROVE  /\ \A k, v : FitFor(st, k, v) => FitFor(su, k, v)
         /\ \A op : OpSound(st, op) => OpSound(su, op)
<1>1. \A it \in Items : \A v : Had(st, it, v) => Had(su, it, v)
  BY DEF Had
<1>2. \A b : BundleSound(st, b) => BundleSound(su, b)
  BY <1>1 DEF BundleSound, Items
<1>3. \A k, v : FitFor(st, k, v) => FitFor(su, k, v)
  BY <1>1, <1>2 DEF FitFor, Items
<1>4. \A op \in Ops : op.mode # "set" => op.coin \in Coins
  BY DEF Ops, SetOps, BundleOps, MergeOps, MergedOps
<1>5. \A op : OpSound(st, op) => OpSound(su, op)
  BY <1>1, <1>2, <1>3, <1>4 DEF OpSound, Items
<1> QED BY <1>3, <1>5

-------------------------------------------------------------------------------
(* Writes are sound and stay so on their way to Redis.                     *)

(* What the retry queue keeps of an operation is as sound as the           *)
(* operation.                                                              *)
LEMMA ClosureSound ==
  \A op : OpSound(stored, op) => OpSound(stored, Closure(op))
<1> SUFFICES ASSUME NEW op, OpSound(stored, op) PROVE OpSound(stored, Closure(op))
  OBVIOUS
<1>1. CASE op.mode = "merged"
  <2>1. op \in MergedOps
    BY <1>1 DEF OpSound, Ops, SetOps, BundleOps, MergeOps, MergedOps
  <2>2. Closure(op) = [key |-> CryptoKey, mode |-> "merge", coin |-> op.coin, val |-> op.val]
    BY <1>1 DEF Closure
  <2>3. Closure(op) \in MergeOps /\ Closure(op).mode = "merge" /\ Closure(op).coin = op.coin /\ Closure(op).val = op.val
    BY <2>1, <2>2 DEF MergeOps, MergedOps
  <2> QED BY <1>1, <2>3 DEF OpSound, Ops
<1>2. CASE op.mode # "merged"
  BY <1>2 DEF Closure
<1> QED BY <1>1, <1>2

(* A merge reads the bundle and adds its price.                            *)
LEMMA MergingSound ==
  ASSUME RedisSound
  PROVE  \A op : OpSound(stored, op) /\ op.mode = "merge" =>
           OpSound(stored, Merging(op)) /\ Merging(op).mode = "merged" /\ Merging(op).key = CryptoKey
<1> SUFFICES ASSUME NEW op, OpSound(stored, op), op.mode = "merge"
             PROVE  OpSound(stored, Merging(op)) /\ Merging(op).mode = "merged" /\ Merging(op).key = CryptoKey
  OBVIOUS
<1>1. op \in MergeOps /\ op.coin \in Coins /\ op.val \in Version /\ Had(stored, op.coin, op.val)
  BY DEF OpSound, Ops, SetOps, BundleOps, MergeOps, MergedOps
<1> DEFINE b == [redis[CryptoKey] EXCEPT ![op.coin] = op.val]
<1>2. BundleSound(stored, redis[CryptoKey])
  BY KeysApart DEF RedisSound, FitFor
<1>3. BundleSound(stored, b)
  BY <1>1, <1>2 DEF BundleSound
<1>4. Merging(op) = [key |-> CryptoKey, mode |-> "merged", coin |-> op.coin, val |-> op.val, bundle |-> b]
  BY DEF Merging
<1> HIDE DEF b
<1>5. b \in [Coins -> Version]
  BY <1>3 DEF BundleSound
<1>6. Merging(op) \in MergedOps /\ Merging(op).mode = "merged" /\ Merging(op).bundle = b
      /\ Merging(op).coin = op.coin /\ Merging(op).val = op.val /\ Merging(op).key = CryptoKey
  BY <1>1, <1>4, <1>5 DEF MergedOps
<1> QED BY <1>1, <1>3, <1>6 DEF OpSound, Ops

(* An operation changes its own key, to a value that fits.                 *)
LEMMA AppliedSound ==
  ASSUME MarketShape, RedisSound
  PROVE  \A op : OpSound(stored, op) /\ op.mode # "merge" =>
           /\ op.key \in RedisKeys
           /\ Applied(op) = [k \in RedisKeys |-> Applied(op)[k]]
           /\ \A k \in RedisKeys : FitFor(stored, k, Applied(op)[k])
           /\ \A k \in RedisKeys : k # op.key => Applied(op)[k] = redis[k]
           /\ op.mode = "set" => Applied(op)[op.key] = op.val
<1> SUFFICES ASSUME NEW op, OpSound(stored, op), op.mode # "merge"
             PROVE  /\ op.key \in RedisKeys
                    /\ Applied(op) = [k \in RedisKeys |-> Applied(op)[k]]
                    /\ \A k \in RedisKeys : FitFor(stored, k, Applied(op)[k])
                    /\ \A k \in RedisKeys : k # op.key => Applied(op)[k] = redis[k]
                    /\ op.mode = "set" => Applied(op)[op.key] = op.val
  OBVIOUS
<1> DEFINE v == IF op.mode = "merged" THEN op.bundle ELSE op.val
<1>1. op.key \in RedisKeys /\ FitFor(stored, op.key, v)
  <2>1. CASE op.mode = "merged"
    <3>1. op \in MergedOps /\ op.key = CryptoKey
      BY <2>1 DEF OpSound, Ops, SetOps, BundleOps, MergeOps, MergedOps
    <3> QED BY <2>1, <3>1, KeysApart DEF OpSound, FitFor
  <2>2. CASE op.mode = "set"
    <3>1. op.key \in RedisKeys
      BY <2>2, KeysApart DEF OpSound, Ops, SetOps, BundleOps, MergeOps, MergedOps
    <3> QED BY <2>2, <3>1 DEF OpSound
  <2>3. op.mode \in {"merged", "set"}
    BY DEF OpSound, Ops, SetOps, BundleOps, MergeOps, MergedOps
  <2> QED BY <2>1, <2>2, <2>3
<1>2. Applied(op) = [redis EXCEPT ![op.key] = v] /\ redis = [k \in RedisKeys |-> redis[k]]
  BY DEF Applied, MarketShape
<1>3. op.mode = "set" => v = op.val
  OBVIOUS
<1> HIDE DEF v
<1>4. /\ Applied(op) = [k \in RedisKeys |-> Applied(op)[k]]
      /\ \A k \in RedisKeys : k # op.key => Applied(op)[k] = redis[k]
      /\ Applied(op)[op.key] = v
  BY <1>1, <1>2
<1> QED BY <1>1, <1>3, <1>4 DEF RedisSound

(* The writes that follow a transaction.                                   *)
LEMMA RecordSound ==
  ASSUME NEW st, NEW it \in Items, NEW v \in Version, v \in st[it]
  PROVE  /\ RecordOps(it, v) \in Seq(Ops) /\ RecordOps(it, v) # <<>>
         /\ \A j \in DOMAIN RecordOps(it, v) : OpSound(st, RecordOps(it, v)[j])
         /\ it \in Coins => Head(RecordOps(it, v)) = cachePrice(it, v)
         /\ \A j \in DOMAIN RecordOps(it, v), c \in Coins : RecordOps(it, v)[j].key = Price(c) =>
              it = c /\ RecordOps(it, v)[j] = cachePrice(c, v)
<1>0. Had(st, it, v)
  BY DEF Had
<1>1. CASE it = AssetList
  <2>1. cacheAssets(v) \in SetOps /\ cacheAssets(v).mode = "set" /\ cacheAssets(v).val = v
        /\ cacheAssets(v).key = <<"assets">>
    BY KeysApart DEF cacheAssets, SetOps
  <2>2. OpSound(st, cacheAssets(v))
    BY <1>0, <1>1, <2>1, KeysApart DEF OpSound, Ops, FitFor
  <2>3. RecordOps(it, v) = <<cacheAssets(v)>> /\ it \notin Coins
    BY <1>1, MarketAssumption DEF RecordOps
  <2>4. \A c \in Coins : cacheAssets(v).key # Price(c)
    BY <2>1, KeysApart
  <2>5. cacheAssets(v) \in Ops
    BY <2>1 DEF Ops
  <2> HIDE DEF cacheAssets
  <2>6. /\ RecordOps(it, v) \in Seq(Ops) /\ RecordOps(it, v) # <<>>
        /\ \A j \in DOMAIN RecordOps(it, v) : RecordOps(it, v)[j] = cacheAssets(v)
    BY <2>3, <2>5
  <2> QED BY <2>2, <2>3, <2>4, <2>6
<1>2. CASE it \in Coins
  <2>1. /\ cachePrice(it, v) \in SetOps /\ cachePrice(it, v).mode = "set" /\ cachePrice(it, v).val = v
        /\ cachePrice(it, v).key = Price(it)
    BY <1>2, KeysApart DEF cachePrice, SetOps
  <2>2. /\ updateCryptoPrices(it, v) \in MergeOps /\ updateCryptoPrices(it, v).mode = "merge"
        /\ updateCryptoPrices(it, v).coin = it /\ updateCryptoPrices(it, v).val = v
        /\ updateCryptoPrices(it, v).key = CryptoKey
    BY <1>2 DEF updateCryptoPrices, MergeOps
  <2>3. FitFor(st, Price(it), v)
    BY <1>0, <1>2, KeysApart DEF FitFor
  <2>4. OpSound(st, cachePrice(it, v)) /\ OpSound(st, updateCryptoPrices(it, v))
    BY <1>0, <2>1, <2>2, <2>3 DEF OpSound, Ops
  <2>5. RecordOps(it, v) = <<cachePrice(it, v), updateCryptoPrices(it, v)>>
    BY <1>2, MarketAssumption DEF RecordOps
  <2>6. cachePrice(it, v) \in Ops /\ updateCryptoPrices(it, v) \in Ops
    BY <2>1, <2>2 DEF Ops
  <2>7. /\ RecordOps(it, v) \in Seq(Ops) /\ RecordOps(it, v) # <<>>
        /\ DOMAIN RecordOps(it, v) = {1, 2} /\ Head(RecordOps(it, v)) = cachePrice(it, v)
        /\ RecordOps(it, v)[1] = cachePrice(it, v) /\ RecordOps(it, v)[2] = updateCryptoPrices(it, v)
    BY <2>5, <2>6
  <2>8. \A c \in Coins : /\ cachePrice(it, v).key = Price(c) => it = c
                        /\ updateCryptoPrices(it, v).key # Price(c)
    BY <1>2, <2>1, <2>2, KeysApart
  <2>9. \A j \in DOMAIN RecordOps(it, v), c \in Coins : RecordOps(it, v)[j].key = Price(c) =>
              it = c /\ RecordOps(it, v)[j] = cachePrice(c, v)
    BY <2>7, <2>8
  <2> QED BY <2>4, <2>7, <2>9
<1> QED BY <1>1, <1>2 DEF Items

-------------------------------------------------------------------------------
(* The retry queue.                                                        *)

Tasks == [do : Ops, attempt : 1..MaxAttempts]

(* A failed write leaves the slots alone or fills one with its closure.    *)
LEMMA FailureQueued ==
  ASSUME MarketShape
  PROVE  \A task \in Ops : handleCacheFailure(task) =>
           /\ slots' \in [Slot -> {NoTask} \cup Tasks]
           /\ \A i \in Slot : slots'[i] = slots[i] \/ (slots'[i] \in Tasks /\ slots'[i].do = task)
<1> SUFFICES ASSUME NEW task \in Ops, handleCacheFailure(task)
             PROVE  /\ slots' \in [Slot -> {NoTask} \cup Tasks]
                    /\ \A i \in Slot : slots'[i] = slots[i] \/ (slots'[i] \in Tasks /\ slots'[i].do = task)
  OBVIOUS
<1>1. slots \in [Slot -> {NoTask} \cup Tasks]
  BY DEF MarketShape, Tasks
<1>2. [do |-> task, attempt |-> 1] \in Tasks
  BY QueueAssumption DEF Tasks
<1>3. slots' = slots \/ \E i \in Slot : slots' = [slots EXCEPT ![i] = [do |-> task, attempt |-> 1]]
  BY DEF handleCacheFailure, Enqueue, Free
<1>4. CASE slots' = slots
  BY <1>1, <1>4
<1>5. ASSUME NEW i \in Slot, slots' = [slots EXCEPT ![i] = [do |-> task, attempt |-> 1]]
      PROVE  /\ slots' \in [Slot -> {NoTask} \cup Tasks]
             /\ \A k \in Slot : slots'[k] = slots[k] \/ (slots'[k] \in Tasks /\ slots'[k].do = task)
  BY <1>1, <1>2, <1>5
<1> QED BY <1>3, <1>4, <1>5

(* A slot is freed, or its task is there once more with a later attempt.   *)
LEMMA AttemptKeeps ==
  ASSUME MarketShape, NEW i \in Slot, slots[i] # NoTask
  PROVE  \A task \in Ops : AttemptFails(i, task) =>
           /\ slots' \in [Slot -> {NoTask} \cup Tasks]
           /\ \A k \in Slot : k # i => slots'[k] = slots[k]
           /\ slots'[i] # NoTask => slots'[i].do = task
<1> SUFFICES ASSUME NEW task \in Ops, AttemptFails(i, task)
             PROVE  /\ slots' \in [Slot -> {NoTask} \cup Tasks]
                    /\ \A k \in Slot : k # i => slots'[k] = slots[k]
                    /\ slots'[i] # NoTask => slots'[i].do = task
  OBVIOUS
<1>1. slots \in [Slot -> {NoTask} \cup Tasks] /\ slots[i] \in Tasks
  BY DEF MarketShape, Tasks
<1>2. CASE Release(i)
  BY <1>1, <1>2 DEF Release
<1>3. CASE slots[i].attempt < MaxAttempts /\ slots' = [slots EXCEPT ![i] = [do |-> task, attempt |-> @.attempt + 1]]
  <2>1. slots[i].attempt \in 1..MaxAttempts
    BY <1>1 DEF Tasks
  <2>2. slots[i].attempt + 1 \in 1..MaxAttempts
    BY <1>3, <2>1, QueueAssumption
  <2>3. [do |-> task, attempt |-> slots[i].attempt + 1] \in Tasks
    BY <2>2 DEF Tasks
  <2>4. slots' = [slots EXCEPT ![i] = [do |-> task, attempt |-> slots[i].attempt + 1]]
    BY <1>3
  <2> QED BY <1>1, <2>3, <2>4
<1> QED BY <1>2, <1>3 DEF AttemptFails

-------------------------------------------------------------------------------
(* What is published was stored: one lemma per kind of step.               *)

(* Nothing stored and nothing cached.                                      *)
LEMMA MarketInitHolds == MarketInit => MarketInv
<1> SUFFICES ASSUME MarketInit PROVE MarketInv
  OBVIOUS
<1> USE DEF MarketInit
<1>1. \A f \in Fetchers : fetch[f].pc = "idle"
  BY DEF Resting
<1>2. MarketShape
  <2>1. 0 \in Version /\ 1 \in 1..MaxLive /\ 0 \in 0..MaxRestarts
    BY MarketAssumption DEF Version
  <2>2. /\ live \in [Items -> 1..MaxLive] /\ local \in [Items -> Version]
        /\ latest \in [Items -> Version] /\ stored \in [Items -> SUBSET Version]
    BY <2>1
  <2>3. redis = [k \in RedisKeys |-> redis[k]]
    OBVIOUS
  <2>4. slots \in [Slot -> {NoTask} \cup [do : Ops, attempt : 1..MaxAttempts]]
    BY DEF QueueInit
  <2>5. fetch \in [Fetchers -> Calls]
    BY DEF Calls
  <2> QED BY <2>1, <2>2, <2>3, <2>4, <2>5 DEF MarketShape
<1>3. TablesSound
  BY DEF TablesSound, WasStored
<1>4. RedisSound
  <2>1. 0 \in Version
    BY MarketAssumption DEF Version
  <2>2. BundleSound(stored, NoPrices)
    BY <2>1 DEF BundleSound, NoPrices, Had
  <2>3. redis[CryptoKey] = NoPrices /\ \A k \in RedisKeys : k # CryptoKey => redis[k] = 0
    BY KeysApart DEF EmptyKey
  <2> QED BY <2>1, <2>2, <2>3, KeysApart DEF RedisSound, FitFor, Had
<1>5. CallsSound /\ SlotsSound /\ CheckSound
  BY <1>1, MarketAssumption DEF CallsSound, SlotsSound, CheckSound, Busy, QueueInit, Resting
<1> QED BY <1>2, <1>3, <1>4, <1>5 DEF MarketInv

(* The exchange moves, a copy grows old, a key expires.                    *)
LEMMA AgeKeeps ==
  ASSUME MarketInv,
         \/ \E it \in Items : LiveMoves(it) \/ LocalExpires(it)
         \/ \E k \in RedisKeys : RedisExpires(k)
  PROVE  MarketInv'
<1>1. ASSUME NEW it \in Items, LiveMoves(it) PROVE MarketInv'
  <2> USE <1>1 DEF LiveMoves
  <2>1. live' \in [Items -> 1..MaxLive] /\ \A i \in Items : live[i] <= live'[i] /\ live[i] \in Nat /\ live'[i] \in Nat
    BY MarketAssumption DEF MarketInv, MarketShape
  <2>2. MarketShape'
    BY <2>1 DEF MarketInv, MarketShape
  <2>3. TablesSound'
    <3> SUFFICES ASSUME NEW i \in Items
                 PROVE  /\ local[i] <= live'[i]
                        /\ \A v \in stored[i] : v \in 1..live'[i]
                        /\ WasStored(i, latest[i])
                        /\ latest[i] = 0 => stored[i] = {}
      BY DEF TablesSound, WasStored
    <3>1. /\ local[i] \in Nat /\ local[i] <= live[i] /\ WasStored(i, latest[i])
          /\ \A v \in stored[i] : v \in 1..live[i]
          /\ latest[i] = 0 => stored[i] = {}
      BY MarketAssumption DEF MarketInv, MarketShape, TablesSound, Version
    <3> QED BY <2>1, <3>1
  <2>4. RedisSound' /\ SlotsSound' /\ CheckSound'
    BY DEF MarketInv, RedisSound, SlotsSound, CheckSound, Busy
  <2>5. CallsSound'
    <3>1. \A f \in Fetchers : fetch[f].pc \in {"store", "cache", "keep"} => fetch[f].item \in Items
      BY DEF MarketInv, MarketShape, Calls, Resting, Fetching, Storing, Caching, Starting
    <3>2. \A f \in Fetchers : fetch[f].pc \in {"store", "cache", "keep"} => fetch[f].ver \in 1..live'[fetch[f].item]
      BY <2>1, <3>1 DEF MarketInv, CallsSound
    <3> QED BY <3>2 DEF MarketInv, CallsSound
  <2> QED BY <2>2, <2>3, <2>4, <2>5 DEF MarketInv
<1>2. ASSUME NEW it \in Items, LocalExpires(it) PROVE MarketInv'
  <2> USE <1>2 DEF LocalExpires
  <2>1. 0 \in Version /\ \A i \in Items : live[i] \in Nat
    BY MarketAssumption DEF Version, MarketInv, MarketShape
  <2>2. local' \in [Items -> Version] /\ \A i \in Items : local'[i] = local[i] \/ local'[i] = 0
    BY <2>1 DEF MarketInv, MarketShape
  <2>3. MarketShape'
    BY <2>2 DEF MarketInv, MarketShape
  <2>4. TablesSound'
    BY <2>1, <2>2 DEF MarketInv, TablesSound, WasStored
  <2>5. RedisSound' /\ SlotsSound' /\ CheckSound' /\ CallsSound'
    BY DEF MarketInv, RedisSound, SlotsSound, CheckSound, Busy, CallsSound
  <2> QED BY <2>3, <2>4, <2>5 DEF MarketInv
<1>3. ASSUME NEW k \in RedisKeys, RedisExpires(k) PROVE MarketInv'
  <2> USE <1>3 DEF RedisExpires
  <2>1. 0 \in Version
    BY MarketAssumption DEF Version
  <2>2. FitFor(stored, k, EmptyKey(k))
    BY <2>1, KeysApart DEF FitFor, EmptyKey, NoPrices, BundleSound, Had
  <2>3. redis' = [r \in RedisKeys |-> redis'[r]] /\ \A r \in RedisKeys : redis'[r] = IF r = k THEN EmptyKey(k) ELSE redis[r]
    BY DEF MarketInv, MarketShape
  <2>4. MarketShape' /\ TablesSound'
    BY <2>3 DEF MarketInv, MarketShape, TablesSound, WasStored
  <2>5. RedisSound'
    BY <2>2, <2>3 DEF MarketInv, RedisSound
  <2>6. SlotsSound' /\ CheckSound' /\ CallsSound'
    BY DEF MarketInv, SlotsSound, CheckSound, Busy, CallsSound
  <2> QED BY <2>4, <2>5, <2>6 DEF MarketInv
<1> QED BY <1>1, <1>2, <1>3

-------------------------------------------------------------------------------

(* What a call is at each of its steps.                                    *)
LEMMA CallFacts ==
  ASSUME MarketShape, NEW f \in Fetchers
  PROVE  /\ fetch[f] \in Calls
         /\ fetch[f].pc = "idle" => fetch[f] = Resting
         /\ fetch[f].pc = "fetch" => fetch[f] \in Fetching /\ fetch[f].item \in Items
         /\ fetch[f].pc = "store" => fetch[f] \in Storing /\ fetch[f].item \in Items /\ fetch[f].ver \in Version
         /\ fetch[f].pc \in {"cache", "keep"} =>
              /\ fetch[f] \in Caching /\ fetch[f].item \in Items /\ fetch[f].ver \in Version
              /\ fetch[f].todo \in Seq(Ops)
         /\ fetch[f].pc = "hydrate" => fetch[f] \in Starting /\ fetch[f].todo \in Seq(Ops)
         /\ fetch[f].pc \in {"idle", "hydrate"} \/ Busy(f)
         /\ InCache(f) => fetch[f] \in Caching \cup Starting /\ fetch[f].todo \in Seq(Ops) /\ fetch[f].todo # <<>>
<1>1. fetch[f] \in Calls
  BY DEF MarketShape
<1>2. CASE fetch[f] = Resting
  BY <1>2, <1>1 DEF Resting, Busy, InCache
<1>3. CASE fetch[f] \in Fetching
  BY <1>3, <1>1 DEF Fetching, Busy, InCache
<1>4. CASE fetch[f] \in Storing
  BY <1>4, <1>1 DEF Storing, Busy, InCache
<1>5. CASE fetch[f] \in Caching
  BY <1>5, <1>1 DEF Caching, Busy, InCache
<1>6. CASE fetch[f] \in Starting
  BY <1>6, <1>1 DEF Starting, Busy, InCache
<1> QED BY <1>1, <1>2, <1>3, <1>4, <1>5, <1>6 DEF Calls

(* A pass at the symbol it has reached.                                    *)
LEMMA PassFacts ==
  ASSUME MarketShape, CheckSound, check.pc # "idle"
  PROVE  /\ check \in Passes /\ check # Resting
         /\ check.pc \in {"exchange", "snapshot"} => check.coin \in Coins /\ check.coin \notin check.left
         /\ check.left \subseteq Coins /\ check.rows \in [Items -> Version]
<1>1. check \in Passes /\ check # Resting
  BY DEF MarketShape, Resting
<1> QED BY <1>1 DEF Passes, CheckSound

(* The pass goes on after the snapshot.                                    *)
LEMMA PassGoesOn ==
  ASSUME MarketInv, Busy(Checker), check' = [check EXCEPT !.pc = "next"]
  PROVE  check' \in Passes /\ check'.pc = "next" /\ check'.left = check.left /\ check'.rows = check.rows
<1>1. check.pc = "snapshot" /\ check \in Passes
  BY PassFacts DEF MarketInv, CheckSound
<1> QED BY <1>1 DEF Passes

(* A call begins, is answered or fails.                                    *)
LEMMA FetchKeeps ==
  ASSUME MarketInv, NEW f \in Fetchers,
         Fetch(f) \/ FetchFails(f) \/ HydrateEnds(f) \/ \E it \in Items : Begin(f, it)
  PROVE  MarketInv'
<1>0. UNCHANGED <<live, local, latest, stored, redis, slots>>
  BY DEF Fetch, FetchFails, HydrateEnds, Begin, others
<1>1. TablesSound' /\ RedisSound' /\ SlotsSound'
  BY <1>0 DEF MarketInv, TablesSound, WasStored, RedisSound, SlotsSound
<1>2. /\ calm' \in BOOLEAN /\ alarm' = alarm /\ restarts' = restarts
  BY DEF Fetch, FetchFails, HydrateEnds, Begin, others, MarketInv, MarketShape
<1>3. ASSUME fetch' = [fetch EXCEPT ![f] = Resting] PROVE fetch' \in [Fetchers -> Calls] /\ CallsSound'
  BY <1>0, <1>3 DEF MarketInv, MarketShape, CallsSound, Calls, Resting
<1>4. CASE Fetch(f)
  <2> USE <1>4 DEF Fetch
  <2>1. fetch[f].item \in Items /\ fetch[f].pc = "fetch"
    BY CallFacts DEF MarketInv
  <2>2. live[fetch[f].item] \in Version /\ live[fetch[f].item] \in 1..live[fetch[f].item]
    BY <2>1, MarketAssumption DEF MarketInv, MarketShape, Version
  <2> DEFINE r == [pc |-> "store", item |-> fetch[f].item, ver |-> live[fetch[f].item]]
  <2>3. r \in Storing /\ r.pc = "store" /\ r.item = fetch[f].item /\ r.ver = live[fetch[f].item]
    BY <2>1, <2>2 DEF Storing
  <2>4. fetch' = [fetch EXCEPT ![f] = r]
    OBVIOUS
  <2> HIDE DEF r
  <2>5. fetch' \in [Fetchers -> Calls] /\ fetch'[f] = r /\ \A g \in Fetchers : g # f => fetch'[g] = fetch[g]
    BY <2>3, <2>4 DEF MarketInv, MarketShape, Calls
  <2>6. CallsSound'
    BY <1>0, <2>2, <2>3, <2>5 DEF MarketInv, CallsSound
  <2>7. CheckSound'
    BY <2>1, <2>3, <2>5, MarketAssumption DEF MarketInv, CheckSound, Busy
  <2>8. MarketShape'
    BY <1>0, <1>2, <2>5 DEF MarketInv, MarketShape
  <2> QED BY <1>1, <2>6, <2>7, <2>8 DEF MarketInv
<1>5. CASE FetchFails(f)
  <2> USE <1>5 DEF FetchFails
  <2>1. fetch' \in [Fetchers -> Calls] /\ CallsSound' /\ fetch'[f].pc = "idle"
        /\ \A g \in Fetchers : g # f => fetch'[g] = fetch[g]
    BY <1>3 DEF MarketInv, MarketShape, Resting
  <2>2. CASE f # Checker
    BY <1>0, <1>1, <1>2, <2>1, <2>2, MarketAssumption DEF MarketInv, MarketShape, CheckSound, Busy
  <2>3. CASE f = Checker
    <3>1. check' \in Passes /\ check'.pc = "next"
      BY <2>3, PassGoesOn DEF Busy
    <3>2. CheckSound'
      BY <2>1, <2>3, <3>1 DEF CheckSound, Busy
    <3>3. MarketShape'
      BY <1>0, <1>2, <2>1, <3>1 DEF MarketInv, MarketShape
    <3> QED BY <1>1, <2>1, <3>2, <3>3 DEF MarketInv
  <2> QED BY <2>2, <2>3
<1>6. CASE HydrateEnds(f)
  <2> USE <1>6 DEF HydrateEnds
  <2>1. fetch' \in [Fetchers -> Calls] /\ CallsSound' /\ fetch'[f].pc = "idle"
        /\ \A g \in Fetchers : g # f => fetch'[g] = fetch[g]
    BY <1>3 DEF MarketInv, MarketShape, Resting
  <2>2. CheckSound'
    BY <2>1, MarketAssumption DEF MarketInv, CheckSound, Busy
  <2>3. MarketShape'
    BY <1>0, <1>2, <2>1 DEF MarketInv, MarketShape
  <2> QED BY <1>1, <2>1, <2>2, <2>3 DEF MarketInv
<1>7. ASSUME NEW it \in Items, Begin(f, it) PROVE MarketInv'
  <2> USE <1>7 DEF Begin
  <2>1. Call(it) \in Fetching /\ Call(it).pc = "fetch" /\ Call(it).item = it
    BY DEF Call, Fetching
  <2>2. fetch' \in [Fetchers -> Calls] /\ fetch'[f] = Call(it) /\ \A g \in Fetchers : g # f => fetch'[g] = fetch[g]
    BY <2>1 DEF MarketInv, MarketShape, Calls
  <2>3. CallsSound'
    BY <1>0, <2>1, <2>2 DEF MarketInv, CallsSound
  <2>4. CheckSound'
    BY <2>2, MarketAssumption DEF MarketInv, CheckSound, Busy
  <2>5. MarketShape'
    BY <1>0, <1>2, <2>2 DEF MarketInv, MarketShape
  <2> QED BY <1>1, <2>3, <2>4, <2>5 DEF MarketInv
<1> QED BY <1>4, <1>5, <1>6, <1>7

(* The transaction commits a version the exchange has shown.               *)
LEMMA CommitKeeps ==
  ASSUME MarketInv, NEW f \in Fetchers, fetch[f].pc = "store", UNCHANGED <<live, local, redis, slots>>,
         Commit(f) \/ UNCHANGED <<latest, stored>>
  PROVE  /\ latest' \in [Items -> Version] /\ stored' \in [Items -> SUBSET Version]
         /\ \A it \in Items : stored[it] \subseteq stored'[it]
         /\ TablesSound' /\ RedisSound' /\ SlotsSound'
         /\ Commit(f) => /\ fetch[f].ver \in stored'[fetch[f].item] /\ latest'[fetch[f].item] = fetch[f].ver
                         /\ \A it \in Items : it # fetch[f].item => latest'[it] = latest[it]
<1> DEFINE it == fetch[f].item
           v == fetch[f].ver
<1>1. /\ it \in Items /\ v \in Version /\ v \in 1..live[it] /\ v # 0
      /\ latest \in [Items -> Version] /\ stored \in [Items -> SUBSET Version]
  BY CallFacts DEF MarketInv, CallsSound, MarketShape
<1> HIDE DEF it, v
<1>2. Commit(f) => latest' = [latest EXCEPT ![it] = v] /\ stored' = [stored EXCEPT ![it] = @ \cup {v}]
  BY DEF Commit, it, v
<1>3. /\ latest' \in [Items -> Version] /\ stored' \in [Items -> SUBSET Version]
      /\ \A i \in Items : /\ stored[i] \subseteq stored'[i]
                          /\ \/ stored'[i] = stored[i] /\ latest'[i] = latest[i]
                             \/ i = it /\ stored'[i] = stored[i] \cup {v} /\ latest'[i] = v
      /\ Commit(f) => v \in stored'[it] /\ latest'[it] = v /\ \A i \in Items : i # it => latest'[i] = latest[i]
  <2>1. CASE Commit(f)
    BY <1>1, <1>2, <2>1
  <2>2. CASE ~Commit(f)
    BY <1>1, <2>2
  <2> QED BY <2>1, <2>2
<1>4. TablesSound'
  <2> SUFFICES ASSUME NEW i \in Items
               PROVE  /\ local[i] <= live[i]
                      /\ \A w \in stored'[i] : w \in 1..live[i]
                      /\ latest'[i] \in stored'[i] \cup {0}
                      /\ latest'[i] = 0 => stored'[i] = {}
    BY DEF TablesSound, WasStored
  <2>1. /\ local[i] <= live[i] /\ latest[i] \in stored[i] \cup {0}
        /\ \A w \in stored[i] : w \in 1..live[i]
        /\ latest[i] = 0 => stored[i] = {}
    BY DEF MarketInv, TablesSound, WasStored
  <2> QED BY <1>1, <1>3, <2>1
<1>5. RedisSound' /\ SlotsSound'
  <2>1. /\ \A k, w : FitFor(stored, k, w) => FitFor(stored', k, w)
        /\ \A op : OpSound(stored, op) => OpSound(stored', op)
    BY <1>3, SoundGrows
  <2> QED BY <2>1 DEF MarketInv, RedisSound, SlotsSound
<1> QED BY <1>3, <1>4, <1>5 DEF it, v

(* The calls of others go on as they were.                                 *)
LEMMA OtherCalls ==
  ASSUME MarketInv, NEW f \in Fetchers, \A it \in Items : stored[it] \subseteq stored'[it], live' = live,
         \A g \in Fetchers : g # f => fetch'[g] = fetch[g],
         fetch'[f].pc \in {"store", "cache", "keep"} => fetch'[f].ver \in 1..live[fetch'[f].item],
         fetch'[f].pc = "cache" => fetch'[f].ver \in stored'[fetch'[f].item],
         fetch'[f].pc \in {"cache", "hydrate"} => \A j \in DOMAIN fetch'[f].todo : OpSound(stored', fetch'[f].todo[j])
  PROVE  CallsSound'
<1>1. \A op : OpSound(stored, op) => OpSound(stored', op)
  BY SoundGrows
<1>2. \A g \in Fetchers : fetch[g].pc \in {"store", "cache", "keep"} => fetch[g].item \in Items
  BY CallFacts DEF MarketInv
<1> SUFFICES ASSUME NEW g \in Fetchers
             PROVE  /\ fetch'[g].pc \in {"store", "cache", "keep"} => fetch'[g].ver \in 1..live[fetch'[g].item]
                    /\ fetch'[g].pc = "cache" => fetch'[g].ver \in stored'[fetch'[g].item]
                    /\ fetch'[g].pc \in {"cache", "hydrate"} => \A j \in DOMAIN fetch'[g].todo : OpSound(stored', fetch'[g].todo[j])
  BY DEF CallsSound
<1>3. CASE g = f
  BY <1>3
<1>4. CASE g # f
  BY <1>1, <1>2, <1>4 DEF MarketInv, CallsSound
<1> QED BY <1>3, <1>4

(* The transaction of a call, committed, failed or failed to answer.       *)
LEMMA StoreKeeps ==
  ASSUME MarketInv, NEW f \in Fetchers, Store(f) \/ StoreFails(f)
  PROVE  MarketInv'
<1> DEFINE it == fetch[f].item
           v == fetch[f].ver
<1>1. /\ fetch[f].pc = "store" /\ UNCHANGED <<live, local, redis, slots, check, alarm, restarts>>
      /\ Commit(f) \/ UNCHANGED <<latest, stored>>
      /\ calm' \in BOOLEAN
  BY DEF Store, StoreFails, MarketInv, MarketShape
<1>2. it \in Items /\ v \in Version /\ v \in 1..live[it]
  BY <1>1, CallFacts DEF MarketInv, CallsSound
<1>3. /\ latest' \in [Items -> Version] /\ stored' \in [Items -> SUBSET Version]
      /\ \A i \in Items : stored[i] \subseteq stored'[i]
      /\ TablesSound' /\ RedisSound' /\ SlotsSound'
      /\ Commit(f) => v \in stored'[it]
  BY <1>1, CommitKeeps
<1> HIDE DEF it, v
<1>4. \A pc, todo : Writing(f, pc, todo) = [pc |-> pc, item |-> it, ver |-> v, todo |-> todo, clean |-> TRUE]
  BY DEF Writing, it, v
<1>5. CASE Store(f)
  <2>1. v \in stored'[it] /\ RecordOps(it, v) \in Seq(Ops)
        /\ \A j \in DOMAIN RecordOps(it, v) : OpSound(stored', RecordOps(it, v)[j])
    <3>1. v \in stored'[it]
      BY <1>3, <1>5 DEF Store
    <3> QED BY <1>2, <3>1, RecordSound
  <2> DEFINE todo == RecordOps(it, v)
             r == [pc |-> "cache", item |-> it, ver |-> v, todo |-> todo, clean |-> TRUE]
  <2>2. fetch' = [fetch EXCEPT ![f] = r]
    BY <1>4, <1>5 DEF Store, it, v
  <2> HIDE DEF todo
  <2>3. r \in Caching /\ r.pc = "cache" /\ r.item = it /\ r.ver = v /\ r.todo = todo
    BY <1>2, <2>1 DEF Caching, todo
  <2> HIDE DEF r
  <2>4. fetch' \in [Fetchers -> Calls] /\ fetch'[f] = r /\ \A g \in Fetchers : g # f => fetch'[g] = fetch[g]
    BY <2>2, <2>3 DEF MarketInv, MarketShape, Calls
  <2>5. CallsSound'
    <3>1. \A j \in DOMAIN r.todo : OpSound(stored', r.todo[j])
      BY <2>1, <2>3 DEF todo
    <3> QED BY <1>1, <1>2, <1>3, <2>1, <2>3, <2>4, <3>1, OtherCalls
  <2>6. CheckSound'
    BY <1>1, <2>3, <2>4, MarketAssumption DEF MarketInv, CheckSound, Busy, it
  <2>7. MarketShape'
    BY <1>1, <1>3, <2>4 DEF MarketInv, MarketShape
  <2> QED BY <1>3, <2>5, <2>6, <2>7 DEF MarketInv
<1>6. CASE StoreFails(f)
  <2> DEFINE r == [pc |-> "keep", item |-> it, ver |-> v, todo |-> <<>>, clean |-> TRUE]
  <2>2. fetch' = [fetch EXCEPT ![f] = r]
    BY <1>4, <1>6 DEF StoreFails
  <2>3. r \in Caching /\ r.pc = "keep" /\ r.item = it /\ r.ver = v
    <3>1. <<>> \in Seq(Ops)
      OBVIOUS
    <3> QED BY <1>2, <3>1 DEF Caching
  <2> HIDE DEF r
  <2>4. fetch' \in [Fetchers -> Calls] /\ fetch'[f] = r /\ \A g \in Fetchers : g # f => fetch'[g] = fetch[g]
    BY <2>2, <2>3 DEF MarketInv, MarketShape, Calls
  <2>5. CallsSound'
    BY <1>1, <1>2, <1>3, <2>3, <2>4, OtherCalls
  <2>6. CheckSound'
    BY <1>1, <2>3, <2>4, MarketAssumption DEF MarketInv, CheckSound, Busy, it
  <2>7. MarketShape'
    BY <1>1, <1>3, <2>4 DEF MarketInv, MarketShape
  <2> QED BY <1>3, <2>5, <2>6, <2>7 DEF MarketInv
<1> QED BY <1>5, <1>6

-------------------------------------------------------------------------------
(* The writes of a call.                                                   *)

(* The next operation of a fetcher fits what is stored.                    *)
LEMMA NextOpSound ==
  ASSUME MarketInv, NEW f \in Fetchers, InCache(f)
  PROVE  /\ OpSound(stored, NextOp(f)) /\ NextOp(f) \in Ops
         /\ fetch[f] \in Caching \cup Starting /\ fetch[f].todo \in Seq(Ops) /\ fetch[f].todo # <<>>
         /\ fetch[f].pc = "cache" => fetch[f] \in Caching
         /\ fetch[f].pc = "hydrate" => fetch[f] \in Starting
<1>1. /\ fetch[f] \in Caching \cup Starting /\ fetch[f].todo \in Seq(Ops) /\ fetch[f].todo # <<>>
      /\ fetch[f].pc = "cache" => fetch[f] \in Caching
      /\ fetch[f].pc = "hydrate" => fetch[f] \in Starting
  BY CallFacts DEF MarketInv
<1>2. 1 \in DOMAIN fetch[f].todo /\ NextOp(f) = fetch[f].todo[1] /\ NextOp(f) \in Ops
  BY <1>1, TodoTail DEF NextOp
<1> QED BY <1>1, <1>2 DEF MarketInv, CallsSound, InCache

(* A write is done with, or given up.                                      *)
LEMMA OpMoves ==
  ASSUME MarketInv, NEW f \in Fetchers, InCache(f), OpDone(f) \/ OpFailed(f)
  PROVE  /\ fetch' \in [Fetchers -> Calls] /\ \A g \in Fetchers : g # f => fetch'[g] = fetch[g]
         /\ fetch'[f].pc = fetch[f].pc /\ fetch'[f].todo = Tail(fetch[f].todo)
         /\ fetch[f].pc = "cache" => fetch'[f].item = fetch[f].item /\ fetch'[f].ver = fetch[f].ver
         /\ OpDone(f) => fetch'[f].clean = fetch[f].clean
         /\ OpFailed(f) /\ fetch[f].pc = "hydrate" => fetch'[f].clean = FALSE
<1>1. /\ fetch[f] \in Caching \cup Starting /\ Tail(fetch[f].todo) \in Seq(Ops) /\ fetch \in [Fetchers -> Calls]
      /\ fetch[f].pc = "cache" => fetch[f] \in Caching
  <2>1. fetch[f] \in Caching \cup Starting /\ fetch[f].todo \in Seq(Ops) /\ fetch[f].todo # <<>>
        /\ (fetch[f].pc = "cache" => fetch[f] \in Caching)
    BY NextOpSound
  <2> QED BY <2>1, TodoTail DEF MarketInv, MarketShape
<1> DEFINE rest == Tail(fetch[f].todo)
           q == [fetch[f] EXCEPT !.todo = rest]
           c == fetch[f].pc # "hydrate"
           z == [q EXCEPT !.clean = c]
<1>2. /\ q.pc = fetch[f].pc /\ q.todo = rest /\ q.clean = fetch[f].clean /\ q \in Caching \cup Starting
      /\ fetch[f] \in Caching => q \in Caching /\ q.item = fetch[f].item /\ q.ver = fetch[f].ver
  BY <1>1, TodoSet, Zenon
<1>3. /\ z.pc = q.pc /\ z.todo = q.todo /\ z.clean = c /\ z \in Caching \cup Starting
      /\ q \in Caching => z.item = q.item /\ z.ver = q.ver
  <2> HIDE DEF q
  <2>1. c \in BOOLEAN
    OBVIOUS
  <2> HIDE DEF c
  <2>2. CASE q \in Caching
    BY <2>1, <2>2 DEF Caching, Starting
  <2>3. CASE q \in Starting
    BY <2>1, <2>3 DEF Caching, Starting
  <2> QED BY <1>2, <2>2, <2>3
<1>4. OpDone(f) => fetch' = [fetch EXCEPT ![f] = q]
  BY <1>1 DEF OpDone
<1>5. OpFailed(f) => fetch' = [fetch EXCEPT ![f] = z]
  BY <1>1 DEF OpFailed
<1>6. q \in Calls /\ z \in Calls /\ rest = Tail(fetch[f].todo) /\ (fetch[f].pc = "hydrate" => c = FALSE)
  BY <1>2, <1>3 DEF Calls
<1> HIDE DEF q, z, rest, c
<1>7. CASE OpDone(f) /\ fetch' = [fetch EXCEPT ![f] = q]
  <2>1. /\ fetch' \in [Fetchers -> Calls] /\ \A g \in Fetchers : g # f => fetch'[g] = fetch[g]
        /\ fetch'[f] = q
    BY <1>1, <1>6, <1>7
  <2>2. OpFailed(f) /\ fetch[f].pc = "hydrate" => fetch'[f].clean = FALSE
    <3>1. OpFailed(f) => fetch'[f] = z
      BY <1>1, <1>5
    <3> QED BY <1>3, <1>6, <3>1
  <2> QED BY <1>1, <1>2, <1>6, <2>1, <2>2
<1>8. CASE OpFailed(f) /\ fetch' = [fetch EXCEPT ![f] = z]
  <2>1. /\ fetch' \in [Fetchers -> Calls] /\ \A g \in Fetchers : g # f => fetch'[g] = fetch[g]
        /\ fetch'[f] = z
    BY <1>1, <1>6, <1>8
  <2>2. OpDone(f) => fetch'[f].clean = fetch[f].clean
    <3>1. OpDone(f) => fetch'[f] = q
      BY <1>1, <1>4
    <3> QED BY <1>2, <3>1
  <2> QED BY <1>1, <1>2, <1>3, <1>6, <1>8, <2>1, <2>2
<1> QED BY <1>4, <1>5, <1>7, <1>8

(* A merge has read the bundle.                                            *)
LEMMA ReadMoves ==
  ASSUME MarketInv, NEW f \in Fetchers, ReadBundle(f)
  PROVE  /\ fetch' \in [Fetchers -> Calls] /\ \A g \in Fetchers : g # f => fetch'[g] = fetch[g]
         /\ fetch'[f].pc = fetch[f].pc /\ fetch'[f].todo = <<Merging(NextOp(f))>> \o Tail(fetch[f].todo)
         /\ fetch[f].pc = "cache" => fetch'[f].item = fetch[f].item /\ fetch'[f].ver = fetch[f].ver
         /\ fetch'[f].clean = fetch[f].clean
         /\ OpSound(stored, Merging(NextOp(f))) /\ Merging(NextOp(f)) \in Ops
         /\ Merging(NextOp(f)).mode = "merged" /\ Merging(NextOp(f)).key = CryptoKey
<1>0. InCache(f) /\ NextOp(f).mode = "merge"
      /\ fetch' = [fetch EXCEPT ![f].todo = <<Merging(NextOp(f))>> \o Tail(@)]
  BY DEF ReadBundle
<1>1. /\ fetch[f] \in Caching \cup Starting /\ fetch[f].todo \in Seq(Ops) /\ fetch[f].todo # <<>>
      /\ OpSound(stored, NextOp(f)) /\ fetch \in [Fetchers -> Calls]
      /\ fetch[f].pc = "cache" => fetch[f] \in Caching
  BY <1>0, NextOpSound DEF MarketInv, MarketShape
<1> DEFINE op == Merging(NextOp(f))
           todo == <<op>> \o Tail(fetch[f].todo)
           q == [fetch[f] EXCEPT !.todo = todo]
<1>2. OpSound(stored, op) /\ op \in Ops /\ op.mode = "merged" /\ op.key = CryptoKey
  BY <1>0, <1>1, MergingSound DEF MarketInv, OpSound
<1>3. todo \in Seq(Ops)
  <2> HIDE DEF op
  <2> QED BY <1>1, <1>2, TodoFirst
<1>4. fetch' = [fetch EXCEPT ![f] = q]
  BY <1>0, <1>1
<1> HIDE DEF todo
<1>5. /\ q.pc = fetch[f].pc /\ q.todo = todo /\ q.clean = fetch[f].clean /\ q \in Caching \cup Starting
      /\ fetch[f] \in Caching => q.item = fetch[f].item /\ q.ver = fetch[f].ver
  BY <1>1, <1>3, TodoSet, Zenon
<1>6. q \in Calls
  BY <1>5 DEF Calls
<1> HIDE DEF q
<1>7. fetch' \in [Fetchers -> Calls] /\ (\A g \in Fetchers : g # f => fetch'[g] = fetch[g]) /\ fetch'[f] = q
  BY <1>1, <1>4, <1>6
<1> QED BY <1>1, <1>2, <1>5, <1>7 DEF todo

(* The writes of a call, one after the other.                              *)
LEMMA WriteKeeps ==
  ASSUME MarketInv, NEW f \in Fetchers, ReadBundle(f) \/ Write(f) \/ MarketWriteFails(f)
  PROVE  MarketInv'
<1>1. /\ InCache(f) /\ UNCHANGED <<live, local, latest, stored, check, alarm, restarts>>
      /\ calm' \in BOOLEAN
  BY DEF ReadBundle, Write, MarketWriteFails, others, MarketInv, MarketShape
<1>2. /\ OpSound(stored, NextOp(f)) /\ NextOp(f) \in Ops
      /\ fetch[f].todo \in Seq(Ops) /\ fetch[f].todo # <<>>
  BY <1>1, NextOpSound
<1>3. TablesSound'
  BY <1>1 DEF MarketInv, TablesSound, WasStored
<1>4. \A j \in DOMAIN fetch[f].todo : OpSound(stored, fetch[f].todo[j])
  BY <1>1 DEF MarketInv, CallsSound, InCache
<1>5. ASSUME fetch' \in [Fetchers -> Calls], \A g \in Fetchers : g # f => fetch'[g] = fetch[g],
             fetch'[f].pc = fetch[f].pc,
             fetch[f].pc = "cache" => fetch'[f].item = fetch[f].item /\ fetch'[f].ver = fetch[f].ver,
             \A j \in DOMAIN fetch'[f].todo : OpSound(stored, fetch'[f].todo[j])
      PROVE  CallsSound' /\ CheckSound'
  <2>1. /\ fetch'[f].pc \in {"store", "cache", "keep"} => fetch'[f].ver \in 1..live[fetch'[f].item]
        /\ fetch'[f].pc = "cache" => fetch'[f].ver \in stored'[fetch'[f].item]
    BY <1>1, <1>5 DEF MarketInv, CallsSound, InCache
  <2>2. CallsSound'
    BY <1>1, <1>5, <2>1, OtherCalls
  <2>3. CheckSound'
    BY <1>1, <1>5, MarketAssumption DEF MarketInv, CheckSound, Busy, InCache
  <2> QED BY <2>2, <2>3
<1>6. CASE ReadBundle(f)
  <2>1. /\ fetch' \in [Fetchers -> Calls] /\ \A g \in Fetchers : g # f => fetch'[g] = fetch[g]
        /\ fetch'[f].pc = fetch[f].pc /\ fetch'[f].todo = <<Merging(NextOp(f))>> \o Tail(fetch[f].todo)
        /\ fetch[f].pc = "cache" => fetch'[f].item = fetch[f].item /\ fetch'[f].ver = fetch[f].ver
        /\ OpSound(stored, Merging(NextOp(f))) /\ Merging(NextOp(f)) \in Ops
    BY <1>6, ReadMoves
  <2>2. \A j \in DOMAIN fetch'[f].todo : OpSound(stored, fetch'[f].todo[j])
    BY <1>2, <1>4, <2>1, TodoFirst
  <2>3. CallsSound' /\ CheckSound'
    BY <1>5, <2>1, <2>2
  <2>4. UNCHANGED <<redis, slots>>
    BY <1>6 DEF ReadBundle, others
  <2>5. MarketShape' /\ RedisSound' /\ SlotsSound'
    BY <1>1, <2>1, <2>4 DEF MarketInv, MarketShape, RedisSound, SlotsSound
  <2> QED BY <1>3, <2>3, <2>5 DEF MarketInv
<1>7. CASE Write(f) \/ MarketWriteFails(f)
  <2>1. /\ fetch' \in [Fetchers -> Calls] /\ \A g \in Fetchers : g # f => fetch'[g] = fetch[g]
        /\ fetch'[f].pc = fetch[f].pc /\ fetch'[f].todo = Tail(fetch[f].todo)
        /\ fetch[f].pc = "cache" => fetch'[f].item = fetch[f].item /\ fetch'[f].ver = fetch[f].ver
    BY <1>1, <1>7, OpMoves DEF Write, MarketWriteFails
  <2>2. \A j \in DOMAIN fetch'[f].todo : OpSound(stored, fetch'[f].todo[j])
    BY <1>2, <1>4, <2>1, TodoTail
  <2>3. CallsSound' /\ CheckSound'
    BY <1>5, <2>1, <2>2
  <2>4. redis' = redis \/ (NextOp(f).mode # "merge" /\ redis' = Applied(NextOp(f)))
    BY <1>7 DEF Write, MarketWriteFails
  <2>5. redis' = [k \in RedisKeys |-> redis'[k]] /\ RedisSound'
    <3>1. CASE redis' = redis
      BY <1>1, <3>1 DEF MarketInv, MarketShape, RedisSound
    <3>2. CASE NextOp(f).mode # "merge" /\ redis' = Applied(NextOp(f))
      BY <1>1, <1>2, <3>2, AppliedSound DEF MarketInv, RedisSound
    <3> QED BY <2>4, <3>1, <3>2
  <2>6. slots' \in [Slot -> {NoTask} \cup Tasks] /\ SlotsSound'
    <3>1. CASE Write(f)
      BY <1>1, <3>1 DEF Write, MarketInv, MarketShape, SlotsSound, Tasks
    <3>2. CASE MarketWriteFails(f)
      <4>1. OpSound(stored, Closure(NextOp(f))) /\ Closure(NextOp(f)) \in Ops
        BY <1>2, ClosureSound DEF OpSound
      <4>2. /\ slots' \in [Slot -> {NoTask} \cup Tasks]
            /\ \A i \in Slot : slots'[i] = slots[i] \/ (slots'[i] \in Tasks /\ slots'[i].do = Closure(NextOp(f)))
        BY <3>2, <4>1, FailureQueued DEF MarketWriteFails, MarketInv
      <4>3. SlotsSound'
        BY <1>1, <4>1, <4>2 DEF MarketInv, SlotsSound
      <4> QED BY <4>2, <4>3
    <3> QED BY <1>7, <3>1, <3>2
  <2>7. MarketShape'
    BY <1>1, <2>1, <2>5, <2>6 DEF MarketInv, MarketShape, Tasks
  <2> QED BY <1>3, <2>3, <2>5, <2>6, <2>7 DEF MarketInv
<1> QED BY <1>6, <1>7

(* The call ends and leaves a copy behind.                                 *)
LEMMA KeepKeeps ==
  ASSUME MarketInv, NEW f \in Fetchers, Keep(f)
  PROVE  MarketInv'
<1> DEFINE it == fetch[f].item
           v == fetch[f].ver
<1>1. /\ fetch[f].pc \in {"keep", "cache"}
      /\ local' = [local EXCEPT ![it] = v] /\ fetch' = [fetch EXCEPT ![f] = Resting]
      /\ UNCHANGED <<live, latest, stored, redis, calm, restarts, slots>>
  BY DEF Keep
<1>2. it \in Items /\ v \in Version /\ v \in 1..live[it]
  BY <1>1, CallFacts DEF MarketInv, CallsSound
<1> HIDE DEF it, v
<1>3. local' \in [Items -> Version] /\ TablesSound'
  <2>1. local' \in [Items -> Version] /\ \A i \in Items : local'[i] = IF i = it THEN v ELSE local[i]
    BY <1>1, <1>2 DEF MarketInv, MarketShape
  <2>2. v <= live[it]
    BY <1>2
  <2> QED BY <1>1, <2>1, <2>2 DEF MarketInv, TablesSound, WasStored
<1>4. RedisSound' /\ SlotsSound'
  BY <1>1 DEF MarketInv, RedisSound, SlotsSound
<1>5. /\ fetch' \in [Fetchers -> Calls] /\ fetch'[f].pc = "idle"
      /\ \A g \in Fetchers : g # f => fetch'[g] = fetch[g]
  BY <1>1 DEF MarketInv, MarketShape, Calls, Resting
<1>6. CallsSound'
  BY <1>1, <1>5 DEF MarketInv, CallsSound
<1>7. CASE f # Checker /\ UNCHANGED <<check, alarm>>
  BY <1>1, <1>3, <1>4, <1>5, <1>6, <1>7, MarketAssumption DEF MarketInv, MarketShape, CheckSound, Busy
<1>8. CASE /\ f = Checker /\ check' = [check EXCEPT !.pc = "next"]
           /\ alarm' = compare("exchange", fetch[f].ver, check.rows[fetch[f].item])
  <2>1. check' \in Passes /\ check'.pc = "next"
    BY <1>1, <1>8, PassGoesOn DEF Busy
  <2>2. alarm' \in {"none", "exchange"}
    BY <1>8 DEF compare
  <2>3. CheckSound'
    BY <1>5, <1>8, <2>1 DEF CheckSound, Busy
  <2>4. MarketShape'
    BY <1>1, <1>3, <1>5, <2>1, <2>2 DEF MarketInv, MarketShape
  <2> QED BY <1>3, <1>4, <1>6, <2>3, <2>4 DEF MarketInv
<1> QED BY <1>7, <1>8 DEF Keep

-------------------------------------------------------------------------------
(* Retries, the restart and the checker.                                   *)

(* A retry applies what the slot kept.                                     *)
LEMMA RetryKeeps ==
  ASSUME MarketInv, NEW i \in Slot, MarketRetry(i)
  PROVE  MarketInv'
<1>1. /\ slots[i] # NoTask
      /\ UNCHANGED <<live, local, latest, stored, fetch, check, alarm, calm, restarts>>
  BY DEF MarketRetry, RetryReadsBundle, MarketRetrySucceeds, MarketRetryFails, marketTask, others
<1>2. /\ slots[i] \in Tasks /\ slots \in [Slot -> {NoTask} \cup Tasks]
      /\ OpSound(stored, slots[i].do) /\ slots[i].do \in Ops
  BY <1>1 DEF MarketInv, MarketShape, SlotsSound, Tasks
<1>3. TablesSound' /\ CallsSound' /\ CheckSound'
  BY <1>1 DEF MarketInv, TablesSound, WasStored, CallsSound, CheckSound, Busy
<1>4. redis' = redis \/ (slots[i].do.mode # "merge" /\ redis' = Applied(slots[i].do))
  BY DEF MarketRetry, RetryReadsBundle, MarketRetrySucceeds, MarketRetryFails, others
<1>5. redis' = [k \in RedisKeys |-> redis'[k]] /\ RedisSound'
  <2>1. CASE redis' = redis
    BY <1>1, <2>1 DEF MarketInv, MarketShape, RedisSound
  <2>2. CASE slots[i].do.mode # "merge" /\ redis' = Applied(slots[i].do)
    BY <1>1, <1>2, <2>2, AppliedSound DEF MarketInv, RedisSound
  <2> QED BY <1>4, <2>1, <2>2
<1>6. slots' \in [Slot -> {NoTask} \cup Tasks] /\ SlotsSound'
  <2>1. CASE RetryReadsBundle(i)
    <3> DEFINE op == Merging(slots[i].do)
               t == [slots[i] EXCEPT !.do = op]
    <3>1. OpSound(stored, op) /\ op \in Ops
      BY <1>2, <2>1, MergingSound DEF RetryReadsBundle, MarketInv, OpSound
    <3>2. slots' = [slots EXCEPT ![i] = t]
      BY <1>2, <2>1 DEF RetryReadsBundle
    <3> HIDE DEF op
    <3>3. t \in Tasks /\ t.do = op
      BY <1>2, <3>1 DEF Tasks
    <3> HIDE DEF t
    <3>4. slots' \in [Slot -> {NoTask} \cup Tasks] /\ slots'[i] = t /\ \A k \in Slot : k # i => slots'[k] = slots[k]
      BY <1>2, <3>2, <3>3
    <3> QED BY <1>1, <3>1, <3>3, <3>4 DEF MarketInv, SlotsSound
  <2>2. CASE MarketRetrySucceeds(i)
    <3>1. slots' \in [Slot -> {NoTask} \cup Tasks] /\ slots'[i] = NoTask /\ \A k \in Slot : k # i => slots'[k] = slots[k]
      BY <1>2, <2>2 DEF MarketRetrySucceeds, Release
    <3> QED BY <1>1, <3>1 DEF MarketInv, SlotsSound
  <2>3. CASE MarketRetryFails(i)
    <3>1. OpSound(stored, Closure(slots[i].do)) /\ Closure(slots[i].do) \in Ops
      BY <1>2, ClosureSound DEF OpSound
    <3>2. /\ slots' \in [Slot -> {NoTask} \cup Tasks]
          /\ \A k \in Slot : k # i => slots'[k] = slots[k]
          /\ slots'[i] # NoTask => slots'[i].do = Closure(slots[i].do)
      BY <1>1, <2>3, <3>1, AttemptKeeps DEF MarketRetryFails, MarketInv
    <3>3. SlotsSound'
      BY <1>1, <3>1, <3>2 DEF MarketInv, SlotsSound
    <3> QED BY <3>2, <3>3
  <2> QED BY <2>1, <2>2, <2>3 DEF MarketRetry
<1>7. MarketShape'
  BY <1>1, <1>5, <1>6 DEF MarketInv, MarketShape, Tasks
<1> QED BY <1>3, <1>5, <1>6, <1>7 DEF MarketInv

(* The checker's own steps.                                                *)
LEMMA ChecksKeep ==
  ASSUME MarketInv, Checks
  PROVE  MarketInv'
<1>1. UNCHANGED <<live, local, latest, stored, redis, restarts, slots>>
  BY DEF Checks, loadLatestRows, checkCache, checkExchange, CheckEnds
<1>2. TablesSound' /\ RedisSound' /\ SlotsSound'
  BY <1>1 DEF MarketInv, TablesSound, WasStored, RedisSound, SlotsSound
<1>3. ASSUME UNCHANGED fetch PROVE CallsSound' /\ fetch' \in [Fetchers -> Calls] /\ (Busy(Checker)' <=> Busy(Checker))
  BY <1>1, <1>3 DEF MarketInv, MarketShape, CallsSound, Busy
<1>4. CASE loadLatestRows
  <2> USE <1>4 DEF loadLatestRows
  <2> DEFINE r == [pc |-> "next", left |-> Coins, rows |-> latest, coin |-> AssetList]
  <2>1. check' = r /\ calm' \in BOOLEAN /\ alarm' = alarm /\ fetch' = fetch /\ check.pc = "idle"
    BY DEF Resting, MarketInv, MarketShape
  <2>2. r \in Passes /\ r.pc = "next"
    BY DEF Passes, MarketInv, MarketShape, Items
  <2> HIDE DEF r
  <2>3. CheckSound'
    BY <1>3, <2>1, <2>2 DEF MarketInv, CheckSound
  <2>4. MarketShape'
    BY <1>1, <1>3, <2>1, <2>2 DEF MarketInv, MarketShape
  <2> QED BY <1>2, <1>3, <2>1, <2>3, <2>4 DEF MarketInv
<1>5. ASSUME NEW c \in Coins, checkCache(c) PROVE MarketInv'
  <2> USE <1>5 DEF checkCache
  <2>1. check \in Passes /\ c \in check.left /\ fetch' = fetch /\ calm' = calm
    BY PassFacts DEF MarketInv
  <2> DEFINE pc == IF check.rows[c] = 0 THEN "next" ELSE "exchange"
             left == check.left \ {c}
             r == [pc |-> pc, left |-> left, rows |-> check.rows, coin |-> c]
  <2>2. check' = r
    <3>1. check = [pc |-> check.pc, left |-> check.left, rows |-> check.rows, coin |-> check.coin]
      BY <2>1 DEF Passes
    <3>2. check' = [check EXCEPT !.left = left, !.coin = c, !.pc = pc]
      OBVIOUS
    <3>3. check' = [[pc |-> check.pc, left |-> check.left, rows |-> check.rows, coin |-> check.coin]
                     EXCEPT !.left = left, !.coin = c, !.pc = pc]
      BY <3>1, <3>2, Zenon
    <3> HIDE DEF left, pc
    <3> QED BY <3>3
  <2>3. r \in Passes /\ r.coin = c /\ r.left = left /\ r.pc \in {"next", "exchange"}
    BY <2>1 DEF Passes, Items
  <2>4. alarm' \in {"none", "cache"}
    BY DEF compare
  <2>5. c \in Coins \ left
    OBVIOUS
  <2> HIDE DEF r, left
  <2>6. CheckSound'
    BY <1>3, <2>1, <2>2, <2>3, <2>5 DEF MarketInv, CheckSound
  <2>7. MarketShape'
    BY <1>1, <1>3, <2>1, <2>2, <2>3, <2>4 DEF MarketInv, MarketShape
  <2> QED BY <1>2, <1>3, <2>1, <2>6, <2>7 DEF MarketInv
<1>6. CASE checkExchange
  <2> USE <1>6 DEF checkExchange
  <2>1. check \in Passes /\ check.coin \in Coins /\ check.coin \notin check.left /\ calm' = calm /\ ~Busy(Checker)
    BY PassFacts DEF MarketInv, CheckSound
  <2>2. CASE /\ alarm' = compare("exchange", local[check.coin], check.rows[check.coin])
             /\ check' = [check EXCEPT !.pc = "next"] /\ fetch' = fetch
    <3>1. check' \in Passes /\ check'.pc = "next" /\ alarm' \in {"none", "exchange"}
      BY <2>1, <2>2 DEF Passes, compare
    <3>2. CheckSound'
      BY <1>3, <2>1, <2>2, <3>1 DEF CheckSound
    <3>3. MarketShape'
      BY <1>1, <1>3, <2>1, <2>2, <3>1 DEF MarketInv, MarketShape
    <3> QED BY <1>2, <1>3, <2>2, <3>2, <3>3 DEF MarketInv
  <2>3. CASE /\ fetch' = [fetch EXCEPT ![Checker] = Call(check.coin)]
             /\ check' = [check EXCEPT !.pc = "snapshot"] /\ alarm' = alarm
    <3>1. /\ check' \in Passes /\ check'.pc = "snapshot" /\ check'.coin = check.coin /\ check'.left = check.left
      BY <2>1, <2>3 DEF Passes
    <3>2. Call(check.coin) \in Fetching /\ Call(check.coin).pc = "fetch" /\ Call(check.coin).item = check.coin
      BY <2>1 DEF Call, Fetching, Items
    <3>3. /\ fetch' \in [Fetchers -> Calls] /\ fetch'[Checker] = Call(check.coin)
          /\ \A g \in Fetchers : g # Checker => fetch'[g] = fetch[g]
      BY <2>3, <3>2, MarketAssumption DEF MarketInv, MarketShape, Calls
    <3>4. CallsSound'
      BY <1>1, <3>2, <3>3 DEF MarketInv, CallsSound
    <3>5. CheckSound'
      BY <2>1, <3>1, <3>2, <3>3 DEF CheckSound
    <3>6. MarketShape'
      BY <1>1, <2>1, <2>3, <3>1, <3>3 DEF MarketInv, MarketShape
    <3> QED BY <1>2, <3>4, <3>5, <3>6 DEF MarketInv
  <2> QED BY <2>2, <2>3
<1>7. CASE CheckEnds
  <2> USE <1>7 DEF CheckEnds
  <2>1. check'.pc = "idle" /\ ~Busy(Checker)
    BY DEF Resting, MarketInv, CheckSound
  <2>2. CheckSound'
    BY <1>3, <2>1 DEF CheckSound
  <2>3. MarketShape'
    BY <1>1, <1>3 DEF MarketInv, MarketShape
  <2> QED BY <1>2, <1>3, <2>2, <2>3 DEF MarketInv
<1> QED BY <1>4, <1>5, <1>6, <1>7 DEF Checks

-------------------------------------------------------------------------------
(* What a restart sets out to write.                                       *)

(* A set listed in some order has every element in the list.               *)
LEMMA Permutation ==
  ASSUME NEW S, IsFiniteSet(S), NEW q \in SetToSeqs(S)
  PROVE  q \in Seq(S) /\ \A x \in S : \E j \in DOMAIN q : q[j] = x
<1>1. Cardinality(S) \in Nat
  BY FS_CardinalityType
<1> DEFINE n == Cardinality(S)
<1>2. q \in [1..n -> S] /\ \A i, j \in 1..n : i # j => q[i] # q[j]
  BY DEF SetToSeqs
<1> HIDE DEF n
<1>3. n \in Nat /\ q \in Seq(S) /\ DOMAIN q = 1..n
  BY <1>1, <1>2 DEF n
<1>4. q \in Injection(1..n, S)
  BY <1>2, <1>3, Zenon DEF Injection, IsInjective
<1>5. Cardinality(1..n) = n
  <2>1. IsFiniteSet(1..n) /\ Cardinality(1..n) = IF 1 > n THEN 0 ELSE n - 1 + 1
    BY <1>3, FS_Interval
  <2> QED BY <1>3, <2>1
<1>6. q \in Surjection(1..n, S)
  BY <1>4, <1>5, FS_Injection DEF n
<1> QED BY <1>3, <1>6 DEF Surjection

(* Two lists of writes, one after the other.                               *)
LEMMA Joined ==
  ASSUME NEW a \in Seq(Ops), NEW b \in Seq(Ops)
  PROVE  /\ a \o b \in Seq(Ops)
         /\ \A j \in DOMAIN (a \o b) : \/ \E i \in DOMAIN a : (a \o b)[j] = a[i]
                                       \/ \E i \in DOMAIN b : (a \o b)[j] = b[i]
         /\ \A i \in DOMAIN a : \E j \in DOMAIN (a \o b) : (a \o b)[j] = a[i]
         /\ \A i \in DOMAIN b : \E j \in DOMAIN (a \o b) : (a \o b)[j] = b[i]
<1>1. Len(a) \in Nat /\ Len(b) \in Nat /\ DOMAIN a = 1..Len(a) /\ DOMAIN b = 1..Len(b)
  OBVIOUS
<1>2. /\ a \o b \in Seq(Ops) /\ DOMAIN (a \o b) = 1..(Len(a) + Len(b))
      /\ \A j \in 1..(Len(a) + Len(b)) : (a \o b)[j] = IF j <= Len(a) THEN a[j] ELSE b[j - Len(a)]
  OBVIOUS
<1> DEFINE m == Len(a)
           n == Len(b)
           c == a \o b
<1> HIDE DEF m, n, c
<1>3. m \in Nat /\ n \in Nat /\ DOMAIN a = 1..m /\ DOMAIN b = 1..n
  BY <1>1 DEF m, n
<1>4. DOMAIN c = 1..(m + n) /\ \A j \in 1..(m + n) : c[j] = IF j <= m THEN a[j] ELSE b[j - m]
  BY <1>2 DEF m, n, c
<1>5. ASSUME NEW j \in DOMAIN c PROVE (\E i \in DOMAIN a : c[j] = a[i]) \/ \E i \in DOMAIN b : c[j] = b[i]
  <2>1. CASE j <= m
    BY <1>3, <1>4, <2>1
  <2>2. CASE ~(j <= m)
    <3>1. j - m \in DOMAIN b /\ c[j] = b[j - m]
      BY <1>3, <1>4, <2>2
    <3> QED BY <3>1
  <2> QED BY <2>1, <2>2
<1>6. ASSUME NEW i \in DOMAIN a PROVE \E j \in DOMAIN c : c[j] = a[i]
  <2>1. i \in DOMAIN c /\ c[i] = a[i]
    BY <1>3, <1>4
  <2> QED BY <2>1
<1>7. ASSUME NEW i \in DOMAIN b PROVE \E j \in DOMAIN c : c[j] = b[i]
  <2>1. i + m \in 1..(m + n) /\ ~(i + m <= m) /\ (i + m) - m = i
    BY <1>3
  <2>2. i + m \in DOMAIN c /\ c[i + m] = b[i]
    BY <1>4, <2>1
  <2> QED BY <2>2
<1> QED BY <1>2, <1>5, <1>6, <1>7 DEF c

(* The writes of a hydration say what the tables say.                      *)
LEMMA DueSound ==
  ASSUME MarketInv
  PROVE  /\ \A c \in Coins : OpSound(stored, PriceDue(c)) /\ PriceDue(c) \in Ops
         /\ OpSound(stored, BundleDue) /\ BundleDue \in Ops
         /\ OpSound(stored, AssetsDue) /\ AssetsDue \in Ops
<1>1. \A it \in Items : latest[it] \in Version /\ Had(stored, it, latest[it])
  BY DEF MarketInv, MarketShape, TablesSound, WasStored, Had
<1>2. ASSUME NEW c \in Coins PROVE OpSound(stored, PriceDue(c))
  <2>1. /\ PriceDue(c) \in SetOps /\ PriceDue(c).mode = "set" /\ PriceDue(c).val = latest[c]
        /\ PriceDue(c).key = Price(c)
    BY <1>1, KeysApart DEF PriceDue, cachePrice, SetOps, Items
  <2>2. FitFor(stored, Price(c), latest[c])
    BY <1>1, KeysApart DEF FitFor, Items
  <2> QED BY <2>1, <2>2 DEF OpSound, Ops
<1> DEFINE b == [c \in Coins |-> latest[c]]
<1>3. BundleSound(stored, b) /\ b \in [Coins -> Version]
  BY <1>1 DEF BundleSound, Items
<1>4. BundleDue = [key |-> CryptoKey, mode |-> "set", val |-> b]
  BY DEF BundleDue, cacheCryptoPrices
<1> HIDE DEF b
<1>5. BundleDue \in BundleOps /\ BundleDue.mode = "set" /\ BundleDue.key = CryptoKey /\ BundleDue.val = b
  BY <1>3, <1>4 DEF BundleOps
<1>6. OpSound(stored, BundleDue)
  BY <1>3, <1>5, KeysApart DEF OpSound, Ops, FitFor
<1>7. /\ AssetsDue \in SetOps /\ AssetsDue.mode = "set" /\ AssetsDue.key = <<"assets">>
      /\ AssetsDue.val = latest[AssetList]
  BY <1>1, KeysApart DEF AssetsDue, cacheAssets, SetOps, Items
<1>8. FitFor(stored, <<"assets">>, latest[AssetList])
  BY <1>1, KeysApart DEF FitFor, Items
<1>9. OpSound(stored, AssetsDue)
  BY <1>7, <1>8 DEF OpSound, Ops
<1> QED BY <1>2, <1>6, <1>9 DEF OpSound

Rows == {c \in Coins : latest[c] # 0}

(* The operations of a hydration set every stored price, and the bundle.   *)
LEMMA PricesDue ==
  ASSUME MarketInv, NEW have \in SetToSeqs(Rows)
  PROVE  /\ hydrateLatestPrices(have) \in Seq(Ops)
         /\ \A j \in DOMAIN hydrateLatestPrices(have) :
              \/ \E c \in Coins : hydrateLatestPrices(have)[j] = PriceDue(c)
              \/ hydrateLatestPrices(have)[j] = BundleDue
         /\ \A c \in Rows : \E j \in DOMAIN hydrateLatestPrices(have) : hydrateLatestPrices(have)[j] = PriceDue(c)
         /\ \E j \in DOMAIN hydrateLatestPrices(have) : hydrateLatestPrices(have)[j] = BundleDue
         /\ have = <<>> => Rows = {}
<1>1. Rows \subseteq Coins /\ IsFiniteSet(Rows)
  BY MarketAssumption, FS_Subset DEF Rows
<1>2. have \in Seq(Rows) /\ \A c \in Rows : \E j \in DOMAIN have : have[j] = c
  BY <1>1, Permutation
<1> DEFINE a == [j \in DOMAIN have |-> cachePrice(have[j], latest[have[j]])]
           b == <<BundleDue>>
<1>3. hydrateLatestPrices(have) = a \o b
  BY DEF hydrateLatestPrices, BundleDue
<1>4. /\ a \in Seq(Ops) /\ DOMAIN a = DOMAIN have
      /\ \A j \in DOMAIN a : have[j] \in Coins /\ a[j] = PriceDue(have[j])
  <2>1. Len(have) \in Nat /\ DOMAIN have = 1..Len(have) /\ \A j \in DOMAIN have : have[j] \in Coins
    BY <1>1, <1>2
  <2>2. \A j \in DOMAIN have : a[j] = PriceDue(have[j])
    BY DEF PriceDue
  <2>3. \A j \in DOMAIN have : a[j] \in Ops
    BY <2>1, <2>2, DueSound
  <2>4. a \in [1..Len(have) -> Ops]
    BY <2>1, <2>3
  <2>5. \A n \in Nat : \A s \in [1..n -> Ops] : s \in Seq(Ops)
    OBVIOUS
  <2>6. a \in Seq(Ops)
    BY <2>1, <2>4, <2>5, Zenon
  <2> QED BY <2>1, <2>2, <2>6
<1>5. b \in Seq(Ops) /\ DOMAIN b = {1} /\ b[1] = BundleDue
  BY DueSound
<1> HIDE DEF a, b
<1>6. /\ a \o b \in Seq(Ops)
      /\ \A j \in DOMAIN (a \o b) : \/ \E i \in DOMAIN a : (a \o b)[j] = a[i]
                                    \/ \E i \in DOMAIN b : (a \o b)[j] = b[i]
      /\ \A i \in DOMAIN a : \E j \in DOMAIN (a \o b) : (a \o b)[j] = a[i]
      /\ \A i \in DOMAIN b : \E j \in DOMAIN (a \o b) : (a \o b)[j] = b[i]
  BY <1>4, <1>5, Joined
<1>7. ASSUME NEW c \in Rows PROVE \E j \in DOMAIN (a \o b) : (a \o b)[j] = PriceDue(c)
  <2>1. PICK i \in DOMAIN have : have[i] = c
    BY <1>2
  <2>2. i \in DOMAIN a /\ a[i] = PriceDue(c)
    BY <1>4, <2>1
  <2> QED BY <1>6, <2>2
<1>8. \A j \in DOMAIN (a \o b) : (\E c \in Coins : (a \o b)[j] = PriceDue(c)) \/ (a \o b)[j] = BundleDue
  <2> SUFFICES ASSUME NEW j \in DOMAIN (a \o b)
               PROVE  (\E c \in Coins : (a \o b)[j] = PriceDue(c)) \/ (a \o b)[j] = BundleDue
    OBVIOUS
  <2>1. CASE \E i \in DOMAIN a : (a \o b)[j] = a[i]
    BY <1>4, <2>1
  <2>2. CASE \E i \in DOMAIN b : (a \o b)[j] = b[i]
    BY <1>5, <2>2
  <2> QED BY <1>6, <2>1, <2>2
<1>9. have = <<>> => Rows = {}
  BY <1>2
<1> QED BY <1>3, <1>5, <1>6, <1>7, <1>8, <1>9

(* The restart: one caller is left, and it writes what the tables say.     *)
LEMMA CrashMoves ==
  ASSUME MarketInv, MarketCrash
  PROVE  /\ fetch' \in [Fetchers -> Calls] /\ fetch'[Checker].pc = "hydrate" /\ fetch'[Checker] \in Starting
         /\ \A f \in Fetchers : f # Checker => fetch'[f] = Resting
         /\ \A j \in DOMAIN fetch'[Checker].todo :
              \/ \E c \in Coins : fetch'[Checker].todo[j] = PriceDue(c)
              \/ fetch'[Checker].todo[j] \in {BundleDue, AssetsDue}
         /\ fetch'[Checker].clean =>
              /\ \A c \in Rows : \E j \in DOMAIN fetch'[Checker].todo : fetch'[Checker].todo[j] = PriceDue(c)
              /\ Rows # {} => \E j \in DOMAIN fetch'[Checker].todo : fetch'[Checker].todo[j] = BundleDue
              /\ latest[AssetList] # 0 => \E j \in DOMAIN fetch'[Checker].todo : fetch'[Checker].todo[j] = AssetsDue
<1> DEFINE A(have, prices) == IF prices /\ have # <<>> THEN hydrateLatestPrices(have) ELSE <<>>
           B(assets) == IF assets THEN hydrateMarketAssets ELSE <<>>
<1>1. PICK have \in SetToSeqs(Rows), prices \in BOOLEAN, assets \in BOOLEAN :
        fetch' = [f \in Fetchers |-> IF f = Checker THEN Hydrating(A(have, prices) \o B(assets), prices /\ assets) ELSE Resting]
  BY DEF MarketCrash, Rows
<1> DEFINE a == A(have, prices)
           b == B(assets)
           todo == a \o b
           r == [pc |-> "hydrate", todo |-> todo, clean |-> prices /\ assets]
<1>2. /\ a \in Seq(Ops)
      /\ \A j \in DOMAIN a : (\E c \in Coins : a[j] = PriceDue(c)) \/ a[j] = BundleDue
      /\ prices => /\ \A c \in Rows : \E j \in DOMAIN a : a[j] = PriceDue(c)
                   /\ Rows # {} => \E j \in DOMAIN a : a[j] = BundleDue
  <2>1. CASE prices /\ have # <<>>
    <3>1. a = hydrateLatestPrices(have)
      BY <2>1
    <3> HIDE DEF a
    <3> QED BY <3>1, PricesDue
  <2>2. CASE prices /\ have = <<>>
    <3>1. a = <<>> /\ Rows = {}
      BY <2>2, PricesDue
    <3> HIDE DEF a
    <3> QED BY <3>1
  <2>3. CASE ~prices
    <3>1. a = <<>>
      BY <2>3
    <3> HIDE DEF a
    <3> QED BY <2>3, <3>1
  <2> QED BY <2>1, <2>2, <2>3
<1>3. /\ b \in Seq(Ops) /\ \A j \in DOMAIN b : b[j] = AssetsDue
      /\ assets /\ latest[AssetList] # 0 => \E j \in DOMAIN b : b[j] = AssetsDue
  <2>1. b = <<>> \/ b = <<AssetsDue>>
    BY DEF hydrateMarketAssets, AssetsDue
  <2>2. assets /\ latest[AssetList] # 0 => b = <<AssetsDue>>
    BY DEF hydrateMarketAssets, AssetsDue
  <2> HIDE DEF b
  <2>3. CASE b = <<>>
    <3>1. ~(assets /\ latest[AssetList] # 0)
      BY <2>2, <2>3
    <3> QED BY <2>3, <3>1
  <2>4. CASE b = <<AssetsDue>>
    <3>1. b \in Seq(Ops) /\ DOMAIN b = {1} /\ b[1] = AssetsDue
      BY <2>4, DueSound
    <3> QED BY <3>1
  <2> QED BY <2>1, <2>3, <2>4
<1>4. fetch' = [f \in Fetchers |-> IF f = Checker THEN r ELSE Resting]
  BY <1>1 DEF Hydrating
<1> HIDE DEF a, b, A, B
<1>5. /\ todo \in Seq(Ops)
      /\ \A j \in DOMAIN todo : (\E i \in DOMAIN a : todo[j] = a[i]) \/ \E i \in DOMAIN b : todo[j] = b[i]
      /\ \A i \in DOMAIN a : \E j \in DOMAIN todo : todo[j] = a[i]
      /\ \A i \in DOMAIN b : \E j \in DOMAIN todo : todo[j] = b[i]
  BY <1>2, <1>3, Joined
<1> HIDE DEF todo
<1>6. \A j \in DOMAIN todo : (\E c \in Coins : todo[j] = PriceDue(c)) \/ todo[j] \in {BundleDue, AssetsDue}
  BY <1>2, <1>3, <1>5
<1>7. /\ prices => /\ \A c \in Rows : \E j \in DOMAIN todo : todo[j] = PriceDue(c)
                   /\ Rows # {} => \E j \in DOMAIN todo : todo[j] = BundleDue
      /\ assets /\ latest[AssetList] # 0 => \E j \in DOMAIN todo : todo[j] = AssetsDue
  BY <1>2, <1>3, <1>5
<1>8. r \in Starting /\ r.pc = "hydrate" /\ r.todo = todo /\ (r.clean => prices /\ assets)
  BY <1>5 DEF Starting
<1> HIDE DEF r
<1>9. /\ fetch'[Checker] = r /\ \A f \in Fetchers : f # Checker => fetch'[f] = Resting
      /\ fetch' \in [Fetchers -> Calls]
  BY <1>4, <1>8, MarketAssumption DEF Calls
<1> QED BY <1>6, <1>7, <1>8, <1>9

(* A crash loses the fetchers and the queue, not the tables.               *)
LEMMA CrashKeeps ==
  ASSUME MarketInv, MarketCrash
  PROVE  MarketInv'
<1> USE DEF MarketCrash
<1>1. /\ fetch' \in [Fetchers -> Calls] /\ fetch'[Checker].pc = "hydrate"
      /\ \A f \in Fetchers : f # Checker => fetch'[f] = Resting
      /\ \A j \in DOMAIN fetch'[Checker].todo :
           \/ \E c \in Coins : fetch'[Checker].todo[j] = PriceDue(c)
           \/ fetch'[Checker].todo[j] \in {BundleDue, AssetsDue}
  BY CrashMoves
<1>2. /\ local' = [it \in Items |-> 0] /\ check' = Resting /\ alarm' = "none" /\ calm' = FALSE
      /\ slots' = [i \in Slot |-> NoTask] /\ UNCHANGED <<live, latest, stored, redis>>
      /\ restarts < MaxRestarts /\ restarts' = restarts + 1
  BY DEF QueueLost
<1>3. local' \in [Items -> Version] /\ restarts' \in 0..MaxRestarts /\ \A it \in Items : local'[it] <= live'[it]
  BY <1>2, MarketAssumption DEF MarketInv, MarketShape, Version
<1>4. TablesSound'
  BY <1>2, <1>3 DEF MarketInv, TablesSound, WasStored
<1>5. RedisSound' /\ SlotsSound'
  BY <1>2 DEF MarketInv, RedisSound, SlotsSound
<1>6. CheckSound'
  BY <1>1, <1>2 DEF CheckSound, Busy, Resting
<1>7. CallsSound'
  <2>1. \A j \in DOMAIN fetch'[Checker].todo : OpSound(stored, fetch'[Checker].todo[j])
    BY <1>1, DueSound
  <2>2. \A f \in Fetchers : f # Checker => fetch'[f].pc = "idle"
    BY <1>1 DEF Resting
  <2> QED BY <1>1, <1>2, <2>1, <2>2 DEF CallsSound
<1>8. slots' \in [Slot -> {NoTask} \cup [do : Ops, attempt : 1..MaxAttempts]]
  BY <1>2
<1>9. MarketShape'
  BY <1>1, <1>2, <1>3, <1>8 DEF MarketInv, MarketShape
<1> QED BY <1>4, <1>5, <1>6, <1>7, <1>9 DEF MarketInv

(* Every step keeps the first layer.                                       *)
LEMMA MarketNextHolds == MarketInv /\ [MarketNext]_marketVars => MarketInv'
<1> SUFFICES ASSUME MarketInv, [MarketNext]_marketVars PROVE MarketInv'
  OBVIOUS
<1>1. CASE MarketNext
  <2>1. CASE \/ \E it \in Items : LiveMoves(it) \/ LocalExpires(it)
             \/ \E k \in RedisKeys : RedisExpires(k)
    BY <2>1, AgeKeeps
  <2>2. ASSUME NEW f \in Fetchers, Works(f) \/ \E it \in Items : Begin(f, it) PROVE MarketInv'
    BY <2>2, FetchKeeps, StoreKeeps, WriteKeeps, KeepKeeps DEF Works
  <2>3. ASSUME NEW i \in Slot, MarketRetry(i) PROVE MarketInv'
    BY <2>3, RetryKeeps
  <2>4. CASE MarketCrash
    BY <2>4, CrashKeeps
  <2>5. CASE Checks
    BY <2>5, ChecksKeep
  <2> QED BY <1>1, <2>1, <2>2, <2>3, <2>4, <2>5 DEF MarketNext
<1>2. CASE UNCHANGED marketVars
  <2> USE <1>2 DEF marketVars
  <2>1. MarketShape' /\ TablesSound'
    BY DEF MarketInv, MarketShape, TablesSound, WasStored
  <2>2. RedisSound' /\ SlotsSound'
    BY DEF MarketInv, RedisSound, SlotsSound
  <2>3. CallsSound' /\ CheckSound'
    BY DEF MarketInv, CallsSound, CheckSound, Busy
  <2> QED BY <2>1, <2>2, <2>3 DEF MarketInv
<1> QED BY <1>1, <1>2

(* Tables, keys, calls, retries and the checker's pass stay sound.         *)
THEOREM MarketInvariant == MarketSpec => []MarketInv
<1>1. MarketInit => MarketInv
  BY MarketInitHolds
<1>2. MarketInv /\ [MarketNext]_marketVars => MarketInv'
  BY MarketNextHolds
<1> QED BY <1>1, <1>2, PTL DEF MarketSpec

(* Types: whatever calls, fails, is retried, expires or restarts, copies,  *)
(* tables, keys and queued writes of the market persistence have theirs.   *)
THEOREM MarketTypeCorrect == MarketSpec => []MarketTypeOK
<1>1. MarketInv => MarketTypeOK
  <2> SUFFICES ASSUME MarketInv PROVE MarketTypeOK
    OBVIOUS
  <2>1. \A k \in RedisKeys : redis[k] \in (IF k = CryptoKey THEN [Coins -> Version] ELSE Version)
    BY KeysApart DEF MarketInv, RedisSound, FitFor, BundleSound
  <2>2. ASSUME NEW it \in Items PROVE local[it] <= live[it] /\ latest[it] <= live[it]
    <3>1. local[it] <= live[it] /\ latest[it] \in stored[it] \cup {0} /\ live[it] \in Nat
          /\ \A v \in stored[it] : v \in 1..live[it]
      BY MarketAssumption DEF MarketInv, TablesSound, WasStored, MarketShape
    <3> QED BY <3>1
  <2>3. \A i \in Slot : slots[i] # NoTask => slots[i].attempt \in 1..MaxAttempts
    BY DEF MarketInv, MarketShape
  <2> QED BY <2>1, <2>2, <2>3 DEF MarketTypeOK, MarketInv, MarketShape
<1> QED BY <1>1, MarketInvariant, PTL

(* No price, bundle or asset list is ever in Redis that did not reach the  *)
(* tables: not by a write of cachePrice or updateCryptoPrices, a retry of  *)
(* an old closure or a hydration.                                          *)
THEOREM PublishedStaysStored == MarketSpec => []PublishedWasStored
<1>1. MarketInv => PublishedWasStored
  BY KeysApart DEF MarketInv, RedisSound, FitFor, BundleSound, Had, PublishedWasStored, WasStored
<1> QED BY <1>1, MarketInvariant, PTL

-------------------------------------------------------------------------------
(* The start-up: hydration runs alone and misses nothing.                  *)

(* What a hydration sets, by key.                                          *)
LEMMA DueKeys ==
  /\ \A c \in Coins : PriceDue(c).key = Price(c) /\ PriceDue(c).val = latest[c] /\ PriceDue(c).mode = "set"
  /\ BundleDue.key = CryptoKey /\ BundleDue.val = [c \in Coins |-> latest[c]] /\ BundleDue.mode = "set"
  /\ AssetsDue.key = <<"assets">> /\ AssetsDue.val = latest[AssetList] /\ AssetsDue.mode = "set"
  BY DEF PriceDue, cachePrice, BundleDue, cacheCryptoPrices, AssetsDue, cacheAssets

(* Without a hydration under way there is nothing to show of one.          *)
LEMMA NoHydration ==
  ASSUME \A f \in Fetchers : fetch'[f].pc # "hydrate"
  PROVE  HydrationInv'
  BY MarketAssumption DEF HydrationInv, HydrationAlone, HydrationFresh, Hydrates

(* A write of a hydration that no failure has disturbed.                   *)
LEMMA HydrateWrites ==
  ASSUME MarketInv, HydrationInv, Hydrates, Write(Checker)
  PROVE  HydrationInv'
<1> DEFINE todo == fetch[Checker].todo
           op == NextOp(Checker)
<1>0. Checker \in Fetchers
  BY MarketAssumption
<1>1. /\ InCache(Checker) /\ op.mode # "merge" /\ redis' = Applied(op)
      /\ UNCHANGED <<latest, stored, check, slots>> /\ OpDone(Checker)
  BY DEF Write
<1>2. /\ OpSound(stored, op) /\ todo \in Seq(Ops) /\ todo # <<>>
  BY <1>0, <1>1, NextOpSound
<1>3. /\ fetch'[Checker].pc = "hydrate" /\ fetch'[Checker].todo = Tail(todo)
      /\ fetch'[Checker].clean = fetch[Checker].clean
      /\ \A f \in Fetchers : f # Checker => fetch'[f] = fetch[f]
  BY <1>0, <1>1, OpMoves DEF Hydrates
<1>4. HydrationAlone'
  BY <1>1, <1>3 DEF HydrationInv, HydrationAlone, Hydrates
<1>5. ASSUME fetch[Checker].clean
      PROVE  /\ \A j \in DOMAIN Tail(todo) :
                  \/ \E c \in Coins : Tail(todo)[j] = PriceDue(c)
                  \/ Tail(todo)[j] \in {BundleDue, AssetsDue}
             /\ \A c \in Coins : \/ redis'[Price(c)] \in {0, latest[c]}
                                 \/ \E j \in DOMAIN Tail(todo) : Tail(todo)[j] = PriceDue(c)
             /\ \/ \A c \in Coins : redis'[CryptoKey][c] \in {0, latest[c]}
                \/ \E j \in DOMAIN Tail(todo) : Tail(todo)[j] = BundleDue
             /\ \/ redis'[<<"assets">>] \in {0, latest[AssetList]}
                \/ \E j \in DOMAIN Tail(todo) : Tail(todo)[j] = AssetsDue
  <2>1. /\ \A j \in DOMAIN todo : (\E c \in Coins : todo[j] = PriceDue(c)) \/ todo[j] \in {BundleDue, AssetsDue}
        /\ \A c \in Coins : redis[Price(c)] \in {0, latest[c]} \/ \E j \in DOMAIN todo : todo[j] = PriceDue(c)
        /\ (\A c \in Coins : redis[CryptoKey][c] \in {0, latest[c]}) \/ \E j \in DOMAIN todo : todo[j] = BundleDue
        /\ redis[<<"assets">>] \in {0, latest[AssetList]} \/ \E j \in DOMAIN todo : todo[j] = AssetsDue
    BY <1>5 DEF HydrationInv, HydrationFresh, DueIn
  <2>2. /\ 1 \in DOMAIN todo /\ op = todo[1]
        /\ \A j \in DOMAIN Tail(todo) : j + 1 \in DOMAIN todo /\ Tail(todo)[j] = todo[j + 1]
        /\ \A j \in DOMAIN todo : j # 1 => j - 1 \in DOMAIN Tail(todo) /\ Tail(todo)[j - 1] = todo[j]
    BY <1>2, TodoTail DEF NextOp
  <2> HIDE DEF todo, op
  <2>3. (\E c \in Coins : op = PriceDue(c)) \/ op \in {BundleDue, AssetsDue}
    BY <2>1, <2>2
  <2>4. op.mode = "set"
    BY <2>3, DueKeys
  <2>5. /\ \A k \in RedisKeys : k # op.key => redis'[k] = redis[k]
        /\ redis'[op.key] = op.val
    BY <1>1, <1>2, <2>4, AppliedSound DEF MarketInv
  <2>6. \A due : (\E j \in DOMAIN todo : todo[j] = due) => op = due \/ \E j \in DOMAIN Tail(todo) : Tail(todo)[j] = due
    BY <2>2
  <2>7. ASSUME NEW c \in Coins
        PROVE  redis'[Price(c)] \in {0, latest[c]} \/ \E j \in DOMAIN Tail(todo) : Tail(todo)[j] = PriceDue(c)
    <3>1. CASE op.key = Price(c)
      <4>1. op = PriceDue(c)
        BY <2>3, <3>1, DueKeys, KeysApart
      <4> QED BY <2>5, <3>1, <4>1, DueKeys
    <3>2. CASE op.key # Price(c)
      <4>1. op # PriceDue(c) /\ redis'[Price(c)] = redis[Price(c)]
        BY <2>5, <3>2, DueKeys, KeysApart
      <4> QED BY <2>1, <2>6, <4>1
    <3> QED BY <3>1, <3>2
  <2>8. \/ \A c \in Coins : redis'[CryptoKey][c] \in {0, latest[c]}
        \/ \E j \in DOMAIN Tail(todo) : Tail(todo)[j] = BundleDue
    <3>1. CASE op.key = CryptoKey
      <4>1. op = BundleDue
        BY <2>3, <3>1, DueKeys, KeysApart
      <4>2. redis'[CryptoKey] = [c \in Coins |-> latest[c]]
        BY <2>5, <3>1, <4>1, DueKeys
      <4> QED BY <4>2
    <3>2. CASE op.key # CryptoKey
      <4>1. op # BundleDue /\ redis'[CryptoKey] = redis[CryptoKey]
        BY <2>5, <3>2, DueKeys, KeysApart
      <4> QED BY <2>1, <2>6, <4>1
    <3> QED BY <3>1, <3>2
  <2>9. \/ redis'[<<"assets">>] \in {0, latest[AssetList]}
        \/ \E j \in DOMAIN Tail(todo) : Tail(todo)[j] = AssetsDue
    <3>1. CASE op.key = <<"assets">>
      <4>1. op = AssetsDue
        BY <2>3, <3>1, DueKeys, KeysApart
      <4> QED BY <2>5, <3>1, <4>1, DueKeys
    <3>2. CASE op.key # <<"assets">>
      <4>1. op # AssetsDue /\ redis'[<<"assets">>] = redis[<<"assets">>]
        BY <2>5, <3>2, DueKeys, KeysApart
      <4> QED BY <2>1, <2>6, <4>1
    <3> QED BY <3>1, <3>2
  <2> QED BY <2>1, <2>2, <2>7, <2>8, <2>9
<1>6. HydrationFresh'
  <2>1. /\ \A c \in Coins : PriceDue(c)' = PriceDue(c)
        /\ BundleDue' = BundleDue /\ AssetsDue' = AssetsDue
    BY <1>1 DEF PriceDue, BundleDue, AssetsDue
  <2> QED BY <1>1, <1>3, <1>5, <2>1 DEF HydrationFresh, Hydrates, DueIn
<1> QED BY <1>4, <1>6 DEF HydrationInv

(* A call by anyone, the hydrating start-up included.                      *)
LEMMA CallsHydrate ==
  ASSUME MarketInv, HydrationInv, NEW f \in Fetchers, Works(f) \/ \E it \in Items : Begin(f, it)
  PROVE  HydrationInv'
<1>0. Checker \in Fetchers /\ fetch \in [Fetchers -> Calls]
  BY MarketAssumption DEF MarketInv, MarketShape
<1>1. CASE ~Hydrates
  <2>1. \A g \in Fetchers : fetch[g].pc # "hydrate"
    BY <1>1 DEF HydrationInv, HydrationAlone, Hydrates
  <2>2. fetch'[f].pc # "hydrate" /\ \A g \in Fetchers : g # f => fetch'[g] = fetch[g]
    <3>1. CASE Fetch(f)
      BY <1>0, <3>1 DEF Fetch
    <3>2. CASE FetchFails(f) \/ Keep(f) \/ HydrateEnds(f)
      BY <1>0, <3>2 DEF FetchFails, Keep, HydrateEnds, Resting
    <3>3. CASE Store(f) \/ StoreFails(f)
      BY <1>0, <3>3 DEF Store, StoreFails, Writing
    <3>4. CASE ReadBundle(f)
      BY <2>1, <3>4, ReadMoves
    <3>5. CASE Write(f) \/ MarketWriteFails(f)
      BY <2>1, <3>5, OpMoves DEF Write, MarketWriteFails
    <3>6. ASSUME NEW it \in Items, Begin(f, it)
          PROVE  fetch'[f].pc # "hydrate" /\ \A g \in Fetchers : g # f => fetch'[g] = fetch[g]
      BY <1>0, <3>6 DEF Begin, Call
    <3> QED BY <3>1, <3>2, <3>3, <3>4, <3>5, <3>6 DEF Works
  <2> QED BY <2>1, <2>2, NoHydration
<1>2. CASE Hydrates
  <2>1. f = Checker /\ fetch[f].pc = "hydrate" /\ ~\E it \in Items : Begin(f, it)
    <3>1. f # Checker => fetch[f].pc = "idle"
      BY <1>2 DEF HydrationInv, HydrationAlone, Resting
    <3>2. ~\E it \in Items : Begin(f, it)
      BY <1>0, <1>2 DEF Begin, Hydrated, Hydrates
    <3>3. f # Checker => ~Works(f)
      BY <3>1 DEF Works, Fetch, FetchFails, Store, StoreFails, ReadBundle, Write, MarketWriteFails, Keep, HydrateEnds, InCache
    <3> QED BY <1>2, <3>2, <3>3 DEF Hydrates
  <2>2. CASE ReadBundle(f)
    <3>1. /\ fetch'[f].pc = "hydrate" /\ fetch'[f].clean = fetch[f].clean
          /\ \A g \in Fetchers : g # f => fetch'[g] = fetch[g]
      BY <2>1, <2>2, ReadMoves
    <3>2. UNCHANGED <<check, slots>>
      BY <2>2 DEF ReadBundle
    <3>3. HydrationAlone'
      BY <2>1, <3>1, <3>2 DEF HydrationInv, HydrationAlone, Hydrates
    <3>4. ~fetch[f].clean
      <4>1. NextOp(f) = fetch[f].todo[1] /\ 1 \in DOMAIN fetch[f].todo
        BY <2>2, NextOpSound, TodoTail DEF ReadBundle, NextOp
      <4> QED BY <1>2, <2>1, <2>2, <4>1, DueKeys DEF HydrationInv, HydrationFresh, ReadBundle
    <3>5. HydrationFresh'
      BY <2>1, <3>1, <3>4 DEF HydrationFresh
    <3> QED BY <3>3, <3>5 DEF HydrationInv
  <2>3. CASE Write(f)
    BY <1>2, <2>1, <2>3, HydrateWrites
  <2>4. CASE MarketWriteFails(f)
    <3>1. /\ fetch'[f].pc = "hydrate" /\ fetch'[f].clean = FALSE
          /\ \A g \in Fetchers : g # f => fetch'[g] = fetch[g]
      BY <2>1, <2>4, OpMoves DEF MarketWriteFails
    <3>2. UNCHANGED check
      BY <2>4 DEF MarketWriteFails
    <3> QED BY <1>2, <2>1, <3>1, <3>2 DEF HydrationInv, HydrationAlone, HydrationFresh, Hydrates
  <2>5. CASE HydrateEnds(f)
    <3>1. \A g \in Fetchers : fetch'[g].pc # "hydrate"
      BY <1>0, <1>2, <2>1, <2>5 DEF HydrateEnds, HydrationInv, HydrationAlone, Resting
    <3> QED BY <3>1, NoHydration
  <2> QED BY <2>1, <2>2, <2>3, <2>4, <2>5 DEF Works, Fetch, FetchFails, Store, StoreFails, Keep
<1> QED BY <1>1, <1>2

(* No process has hydrated yet.                                            *)
LEMMA HydrationInitHolds == MarketInit => HydrationInv
<1> SUFFICES ASSUME MarketInit PROVE HydrationInv
  OBVIOUS
<1>1. \A f \in Fetchers : fetch[f].pc = "idle"
  BY DEF MarketInit, Resting
<1> QED BY <1>1, MarketAssumption DEF HydrationInv, HydrationAlone, HydrationFresh, Hydrates

(* Every step keeps the second layer.                                      *)
LEMMA HydrationNextHolds == MarketInv /\ HydrationInv /\ [MarketNext]_marketVars => HydrationInv'
<1> SUFFICES ASSUME MarketInv, HydrationInv, [MarketNext]_marketVars PROVE HydrationInv'
  OBVIOUS
<1>0. Checker \in Fetchers
  BY MarketAssumption
<1>1. ASSUME UNCHANGED <<latest, redis, fetch, check, slots>> PROVE HydrationInv'
  <2>1. /\ \A c \in Coins : PriceDue(c)' = PriceDue(c)
        /\ BundleDue' = BundleDue /\ AssetsDue' = AssetsDue
    BY <1>1 DEF PriceDue, BundleDue, AssetsDue
  <2>2. HydrationAlone'
    BY <1>1 DEF HydrationInv, HydrationAlone, Hydrates
  <2>3. HydrationFresh'
    BY <1>1, <2>1 DEF HydrationInv, HydrationFresh, Hydrates, DueIn
  <2> QED BY <2>2, <2>3 DEF HydrationInv
<1>2. CASE \E it \in Items : LiveMoves(it) \/ LocalExpires(it)
  BY <1>1, <1>2 DEF LiveMoves, LocalExpires
<1>3. ASSUME NEW k \in RedisKeys, RedisExpires(k) PROVE HydrationInv'
  <2>1. UNCHANGED <<latest, fetch, check, slots>> /\ redis' = [redis EXCEPT ![k] = EmptyKey(k)]
    BY <1>3 DEF RedisExpires
  <2>2. /\ \A c \in Coins : PriceDue(c)' = PriceDue(c)
        /\ BundleDue' = BundleDue /\ AssetsDue' = AssetsDue
    BY <2>1 DEF PriceDue, BundleDue, AssetsDue
  <2>3. \A r \in RedisKeys : redis'[r] = redis[r] \/ (r = k /\ redis'[r] = EmptyKey(r))
    BY <2>1 DEF MarketInv, MarketShape
  <2>4. /\ \A c \in Coins : redis'[Price(c)] = redis[Price(c)] \/ redis'[Price(c)] = 0
        /\ redis'[CryptoKey] = redis[CryptoKey] \/ \A c \in Coins : redis'[CryptoKey][c] = 0
        /\ redis'[<<"assets">>] = redis[<<"assets">>] \/ redis'[<<"assets">>] = 0
    <3>1. /\ \A c \in Coins : EmptyKey(Price(c)) = 0 /\ Price(c) \in RedisKeys
          /\ EmptyKey(CryptoKey) = NoPrices /\ EmptyKey(<<"assets">>) = 0
          /\ CryptoKey \in RedisKeys /\ <<"assets">> \in RedisKeys
      BY KeysApart DEF EmptyKey
    <3>2. \A c \in Coins : NoPrices[c] = 0
      BY DEF NoPrices
    <3> QED BY <2>3, <3>1, <3>2
  <2>5. HydrationAlone'
    BY <2>1 DEF HydrationInv, HydrationAlone, Hydrates
  <2>6. HydrationFresh'
    BY <2>1, <2>2, <2>4 DEF HydrationInv, HydrationFresh, Hydrates, DueIn
  <2> QED BY <2>5, <2>6 DEF HydrationInv
<1>4. ASSUME NEW f \in Fetchers, Works(f) \/ \E it \in Items : Begin(f, it) PROVE HydrationInv'
  BY <1>4, CallsHydrate
<1>5. ASSUME NEW i \in Slot, MarketRetry(i) PROVE HydrationInv'
  <2>1. slots[i] # NoTask /\ UNCHANGED <<latest, fetch, check>>
    BY <1>5 DEF MarketRetry, RetryReadsBundle, MarketRetrySucceeds, MarketRetryFails, marketTask, others
  <2>2. ~(Hydrates /\ fetch[Checker].clean)
    BY <2>1 DEF HydrationInv, HydrationAlone
  <2> QED BY <2>1, <2>2 DEF HydrationInv, HydrationAlone, HydrationFresh, Hydrates
<1>6. CASE MarketCrash
  <2>1. /\ check' = Resting /\ \A i \in Slot : slots'[i] = NoTask
        /\ UNCHANGED <<latest, stored, redis>>
    BY <1>6 DEF MarketCrash, QueueLost
  <2>2. /\ fetch'[Checker].pc = "hydrate" /\ \A f \in Fetchers : f # Checker => fetch'[f] = Resting
        /\ \A j \in DOMAIN fetch'[Checker].todo :
              \/ \E c \in Coins : fetch'[Checker].todo[j] = PriceDue(c)
              \/ fetch'[Checker].todo[j] \in {BundleDue, AssetsDue}
        /\ fetch'[Checker].clean =>
              /\ \A c \in Rows : \E j \in DOMAIN fetch'[Checker].todo : fetch'[Checker].todo[j] = PriceDue(c)
              /\ Rows # {} => \E j \in DOMAIN fetch'[Checker].todo : fetch'[Checker].todo[j] = BundleDue
              /\ latest[AssetList] # 0 => \E j \in DOMAIN fetch'[Checker].todo : fetch'[Checker].todo[j] = AssetsDue
    BY <1>6, CrashMoves
  <2>3. /\ \A c \in Coins : PriceDue(c)' = PriceDue(c)
        /\ BundleDue' = BundleDue /\ AssetsDue' = AssetsDue
    BY <2>1 DEF PriceDue, BundleDue, AssetsDue
  <2>4. HydrationAlone'
    BY <2>1, <2>2 DEF HydrationAlone, Hydrates, Resting
  <2>5. /\ \A c \in Coins : latest[c] = 0 => redis[Price(c)] = 0 /\ redis[CryptoKey][c] = 0
        /\ latest[AssetList] = 0 => redis[<<"assets">>] = 0
    <3>1. \A it \in Items : latest[it] = 0 => stored[it] = {}
      BY DEF MarketInv, TablesSound
    <3>2. \A it \in Items : \A v : latest[it] = 0 /\ Had(stored, it, v) => v = 0
      BY <3>1 DEF Had
    <3>3. /\ \A c \in Coins : Had(stored, c, redis[Price(c)]) /\ Had(stored, c, redis[CryptoKey][c])
          /\ Had(stored, AssetList, redis[<<"assets">>])
      BY KeysApart DEF MarketInv, RedisSound, FitFor, BundleSound
    <3> QED BY <3>2, <3>3 DEF Items
  <2>6. HydrationFresh'
    <3>1. /\ \A j \in DOMAIN fetch'[Checker].todo :
              \/ \E c \in Coins : fetch'[Checker].todo[j] = PriceDue(c)'
              \/ fetch'[Checker].todo[j] \in {BundleDue', AssetsDue'}
      BY <2>2, <2>3
    <3>2. ASSUME fetch'[Checker].clean
          PROVE  /\ \A c \in Coins : \/ redis[Price(c)] \in {0, latest[c]}
                                     \/ \E j \in DOMAIN fetch'[Checker].todo : fetch'[Checker].todo[j] = PriceDue(c)'
                 /\ \/ \A c \in Coins : redis[CryptoKey][c] \in {0, latest[c]}
                    \/ \E j \in DOMAIN fetch'[Checker].todo : fetch'[Checker].todo[j] = BundleDue'
                 /\ \/ redis[<<"assets">>] \in {0, latest[AssetList]}
                    \/ \E j \in DOMAIN fetch'[Checker].todo : fetch'[Checker].todo[j] = AssetsDue'
      <4>1. \A c \in Coins : c \in Rows \/ latest[c] = 0
        BY DEF Rows
      <4> QED BY <2>2, <2>3, <2>5, <3>2, <4>1
    <3> QED BY <2>1, <3>1, <3>2 DEF HydrationFresh, DueIn
  <2> QED BY <2>4, <2>6 DEF HydrationInv
<1>7. CASE Checks
  <2>1. \A f \in Fetchers : fetch[f].pc # "hydrate"
    <3>1. loadLatestRows => \A f \in Fetchers : fetch[f].pc # "hydrate"
      BY DEF loadLatestRows, Hydrated
    <3>2. check # Resting => \A f \in Fetchers : fetch[f].pc # "hydrate"
      BY DEF HydrationInv, HydrationAlone, Hydrates
    <3>3. (\E c \in Coins : checkCache(c)) \/ checkExchange \/ CheckEnds => check # Resting
      <4>1. (\E c \in Coins : checkCache(c)) \/ checkExchange \/ CheckEnds => check.pc \in {"next", "exchange"}
        BY DEF checkCache, checkExchange, CheckEnds
      <4>2. Resting.pc = "idle"
        BY DEF Resting
      <4> QED BY <4>1, <4>2
    <3> QED BY <1>7, <3>1, <3>2, <3>3 DEF Checks
  <2>2. fetch' = fetch \/ fetch' = [fetch EXCEPT ![Checker] = Call(check.coin)]
    BY <1>7 DEF Checks, loadLatestRows, checkCache, checkExchange, CheckEnds
  <2>3. \A f \in Fetchers : fetch'[f].pc # "hydrate"
    BY <1>0, <2>1, <2>2 DEF MarketInv, MarketShape, Call
  <2> QED BY <2>3, NoHydration
<1>8. CASE UNCHANGED marketVars
  BY <1>1, <1>8 DEF marketVars
<1> QED BY <1>2, <1>3, <1>4, <1>5, <1>6, <1>7, <1>8 DEF MarketNext

(* A start-up in which no query and no write failed has left no key behind *)
(* that says something else than the tables, whatever the process before   *)
(* had cached and whatever it had still to retry.                          *)
THEOREM StartupStaysFresh == MarketSpec => []StartupRefreshes
<1>1. MarketInit => HydrationInv
  BY HydrationInitHolds
<1>2. MarketInv /\ HydrationInv /\ [MarketNext]_marketVars => HydrationInv'
  BY HydrationNextHolds
<1>3. HydrationInv => StartupRefreshes
  <2> SUFFICES ASSUME HydrationInv, NEW f \in Fetchers,
                      fetch[f].pc = "hydrate", fetch[f].todo = <<>>, fetch[f].clean
               PROVE  /\ \A c \in Coins : /\ redis[Price(c)] \in {0, latest[c]}
                                          /\ redis[CryptoKey][c] \in {0, latest[c]}
                      /\ redis[<<"assets">>] \in {0, latest[AssetList]}
    BY DEF StartupRefreshes
  <2>1. f = Checker
    BY DEF HydrationInv, HydrationAlone
  <2>2. \A op : ~DueIn(op)
    BY <2>1 DEF DueIn
  <2> QED BY <2>1, <2>2 DEF HydrationInv, HydrationFresh, Hydrates
<1> QED BY <1>1, <1>2, <1>3, MarketInvariant, PTL DEF MarketSpec

-------------------------------------------------------------------------------
(* The undisturbed process.                                                *)

(* Nothing has failed yet.                                                 *)
LEMMA CalmInitHolds == MarketInit => CalmInv
<1> SUFFICES ASSUME MarketInit PROVE CalmInv
  OBVIOUS
<1>1. \A f \in Fetchers : fetch[f] = Resting /\ fetch[f].pc = "idle"
  BY DEF MarketInit, Resting
<1>2. check = Resting /\ \A i \in Slot : slots[i] = NoTask
  BY DEF MarketInit, QueueInit
<1>3. \A c \in Coins : redis[Price(c)] = 0
  BY KeysApart DEF MarketInit, EmptyKey
<1>4. alarm # "cache"
  BY DEF MarketInit
<1> QED BY <1>1, <1>2, <1>3, <1>4 DEF CalmInv, CalmQuiet, CalmFresh, CacheAlarmsExplained

(* With a disturbance nothing is claimed.                                  *)
LEMMA Disturbed == ASSUME ~calm' PROVE CalmInv'
  BY DEF CalmInv, CalmQuiet, CalmFresh, CacheAlarmsExplained

(* Nothing the calm depends on moved: keys may have expired.               *)
LEMMA CalmStays ==
  ASSUME CalmInv, UNCHANGED <<latest, fetch, check, alarm, calm, slots>>,
         \A c \in Coins : redis'[Price(c)] \in {redis[Price(c)], 0}
  PROVE  CalmInv'
<1>1. CalmQuiet' /\ CacheAlarmsExplained'
  BY DEF CalmInv, CalmQuiet, CacheAlarmsExplained
<1>2. \A c \in Coins : cachePrice(c, latest[c])' = cachePrice(c, latest[c])
  BY DEF cachePrice
<1>3. CalmFresh'
  BY <1>2 DEF CalmInv, CalmFresh
<1> QED BY <1>1, <1>3 DEF CalmInv

(* In the calm only one call is under way.                                 *)
LEMMA CalmAlone ==
  ASSUME MarketInv, CalmInv, calm, NEW f \in Fetchers, fetch[f].pc # "idle"
  PROVE  /\ \A g \in Fetchers : g # f => fetch[g] = Resting /\ fetch[g].pc = "idle"
         /\ fetch[f].pc \in {"fetch", "store", "cache"} /\ fetch[f] # Resting
         /\ check # Resting => /\ f = Checker /\ check.pc = "snapshot" /\ check.coin = fetch[f].item
                               /\ check.coin \notin check.left
<1>1. fetch[f] # Resting /\ Resting.pc = "idle"
  BY DEF Resting
<1>2. /\ \A g \in Fetchers : g # f => fetch[g] = Resting
      /\ fetch[f].pc \in {"fetch", "store", "cache"}
      /\ check # Resting => f = Checker
  BY <1>1 DEF CalmInv, CalmQuiet
<1>3. check # Resting => check.pc = "snapshot" /\ check.coin = fetch[f].item /\ check.coin \notin check.left
  BY <1>2 DEF MarketInv, CheckSound, Busy
<1> QED BY <1>1, <1>2, <1>3

(* It goes on, and nothing else moves.                                     *)
LEMMA CalmMoves ==
  ASSUME MarketInv, CalmInv, calm, NEW f \in Fetchers, fetch[f].pc # "idle",
         \A g \in Fetchers : g # f => fetch'[g] = fetch[g],
         fetch'[f].pc \in {"idle", "fetch", "store", "cache"},
         slots' = slots,
         \/ check' = check
         \/ f = Checker /\ check' # Resting
  PROVE  CalmQuiet'
<1>1. /\ \A g \in Fetchers : g # f => fetch'[g] = Resting /\ fetch'[g].pc = "idle"
      /\ check' # Resting => f = Checker
  BY CalmAlone
<1> QED BY <1>1 DEF CalmInv, CalmQuiet

(* A call that is answered, fails or is over leaves the keys alone.        *)
LEMMA CalmCalls ==
  ASSUME MarketInv, CalmInv, calm', NEW f \in Fetchers, Fetch(f) \/ FetchFails(f) \/ Keep(f)
  PROVE  CalmInv'
<1>0. /\ calm /\ UNCHANGED <<latest, redis, slots>> /\ fetch[f].pc # "idle" /\ fetch \in [Fetchers -> Calls]
  BY DEF Fetch, FetchFails, Keep, others, MarketInv, MarketShape
<1>1. /\ \A g \in Fetchers : g # f => fetch[g] = Resting /\ fetch[g].pc = "idle"
      /\ fetch[f].pc \in {"fetch", "store", "cache"}
      /\ check # Resting => f = Checker
  BY <1>0, CalmAlone
<1>2. /\ \A g \in Fetchers : g # f => fetch'[g] = fetch[g]
      /\ fetch'[f].pc \in {"idle", "store"}
  BY <1>0 DEF Fetch, FetchFails, Keep, Resting
<1>3. /\ check' = check \/ (f = Checker /\ check' # Resting /\ check'.left = check.left /\ check'.rows = check.rows /\ check # Resting)
      /\ alarm' = alarm \/ alarm' # "cache"
  <2>1. CASE Fetch(f)
    BY <2>1 DEF Fetch, others
  <2>2. CASE f # Checker /\ (FetchFails(f) \/ Keep(f))
    BY <2>2 DEF FetchFails, Keep, others
  <2>3. CASE f = Checker /\ (FetchFails(f) \/ Keep(f))
    <3>1. check' = [check EXCEPT !.pc = "next"] /\ Busy(Checker)
      BY <1>1, <2>3 DEF FetchFails, Keep, Busy
    <3>2. check' \in Passes /\ check'.pc = "next" /\ check'.left = check.left /\ check'.rows = check.rows
      BY <3>1, PassGoesOn
    <3>3. check.pc = "snapshot" /\ Resting.pc = "idle"
      BY <3>1 DEF MarketInv, CheckSound, Resting
    <3>4. alarm' = alarm \/ alarm' # "cache"
      BY <2>3 DEF FetchFails, Keep, others, compare
    <3> QED BY <2>3, <3>2, <3>3, <3>4
  <2> QED BY <2>1, <2>2, <2>3
<1>4. CalmQuiet'
  BY <1>0, <1>2, <1>3, CalmMoves
<1>5. CalmFresh'
  <2>1. \A g \in Fetchers : fetch'[g].pc # "cache"
    BY <1>1, <1>2
  <2>2. ~(fetch[f].pc = "cache" /\ fetch[f].todo # <<>>)
    BY <1>1 DEF Fetch, FetchFails, Keep
  <2>3. \A c \in Coins : redis[Price(c)] \in {0, latest[c]}
    BY <1>0, <1>1, <2>2 DEF CalmInv, CalmFresh
  <2>4. check' # Resting => \A c \in check'.left : check'.rows[c] = latest[c]
    BY <1>0, <1>3 DEF CalmInv, CalmFresh
  <2> QED BY <1>0, <2>1, <2>3, <2>4 DEF CalmFresh
<1>6. CacheAlarmsExplained'
  BY <1>0, <1>3 DEF CalmInv, CacheAlarmsExplained
<1> QED BY <1>4, <1>5, <1>6 DEF CalmInv

(* The transaction of a call is followed by the write of its price key.    *)
LEMMA CalmStores ==
  ASSUME MarketInv, CalmInv, calm', NEW f \in Fetchers, Store(f)
  PROVE  CalmInv'
<1> DEFINE it == fetch[f].item
           v == fetch[f].ver
           todo == RecordOps(it, v)
<1>0. /\ calm /\ UNCHANGED <<live, local, redis, slots, check, alarm, calm>> /\ fetch[f].pc = "store" /\ fetch \in [Fetchers -> Calls]
      /\ Commit(f)
      /\ fetch' = [fetch EXCEPT ![f] = [pc |-> "cache", item |-> it, ver |-> v, todo |-> todo, clean |-> TRUE]]
  BY DEF Store, MarketInv, MarketShape, Writing
<1>1. /\ \A g \in Fetchers : g # f => fetch[g] = Resting /\ fetch[g].pc = "idle"
      /\ check # Resting => it \notin check.left
  BY <1>0, CalmAlone
<1>2. /\ fetch'[f].pc = "cache" /\ fetch'[f].item = it /\ fetch'[f].ver = v /\ fetch'[f].todo = todo
      /\ \A g \in Fetchers : g # f => fetch'[g] = fetch[g]
  BY <1>0
<1>3. /\ latest'[it] = v /\ v \in stored'[it] /\ it \in Items /\ v \in Version
      /\ \A i \in Items : i # it => latest'[i] = latest[i]
  BY <1>0, CommitKeeps, CallFacts DEF MarketInv
<1>4. /\ todo # <<>> /\ (it \in Coins => Head(todo) = cachePrice(it, v))
      /\ \A j \in DOMAIN todo, c \in Coins : todo[j].key = Price(c) => it = c /\ todo[j] = cachePrice(c, v)
  BY <1>3, RecordSound
<1> HIDE DEF it, v, todo
<1>5. CalmQuiet'
  BY <1>0, <1>2, CalmMoves
<1>6. \A c \in Coins : cachePrice(c, latest[c])' = cachePrice(c, latest'[c])
  BY DEF cachePrice
<1>7. \A c \in Coins : c # it => redis[Price(c)] \in {0, latest[c]}
  BY <1>0, <1>1 DEF CalmInv, CalmFresh
<1>8. CalmFresh'
  <2>1. ASSUME NEW g \in Fetchers, fetch'[g].pc = "cache"
        PROVE  /\ latest'[fetch'[g].item] = fetch'[g].ver
               /\ \A j \in DOMAIN fetch'[g].todo, c \in Coins : fetch'[g].todo[j].key = Price(c) =>
                    fetch'[g].item = c /\ fetch'[g].todo[j] = cachePrice(c, latest'[c])
    <3>1. g = f
      BY <1>1, <1>2, <2>1
    <3> QED BY <1>2, <1>3, <1>4, <3>1
  <2>2. ASSUME NEW c \in Coins
        PROVE  \/ redis'[Price(c)] \in {0, latest'[c]}
               \/ \E g \in Fetchers : /\ fetch'[g].pc = "cache" /\ fetch'[g].item = c
                                      /\ fetch'[g].todo # <<>> /\ Head(fetch'[g].todo) = cachePrice(c, latest'[c])
    <3>1. CASE c = it
      BY <1>2, <1>3, <1>4, <3>1
    <3>2. CASE c # it
      BY <1>0, <1>3, <1>7, <3>2 DEF Items
    <3> QED BY <3>1, <3>2
  <2>3. check' # Resting => \A c \in check'.left : check'.rows[c] = latest'[c]
    <3> SUFFICES ASSUME check # Resting, NEW c \in check.left PROVE check.rows[c] = latest'[c]
      BY <1>0
    <3>1. c \in Coins /\ c # it
      BY <1>1 DEF MarketInv, MarketShape, Passes
    <3> QED BY <1>0, <1>3, <3>1 DEF CalmInv, CalmFresh, Items
  <2> QED BY <1>6, <2>1, <2>2, <2>3 DEF CalmFresh
<1>9. CacheAlarmsExplained'
  BY <1>0 DEF CalmInv, CacheAlarmsExplained
<1> QED BY <1>5, <1>8, <1>9 DEF CalmInv

(* The writes of the call: the price key gets the row's price.             *)
LEMMA CalmWrites ==
  ASSUME MarketInv, CalmInv, calm', NEW f \in Fetchers, ReadBundle(f) \/ Write(f)
  PROVE  CalmInv'
<1> DEFINE it == fetch[f].item
           todo == fetch[f].todo
           op == NextOp(f)
<1>0. /\ calm /\ UNCHANGED <<latest, slots, check, alarm, calm>> /\ InCache(f) /\ fetch[f].pc # "idle"
  BY DEF ReadBundle, Write, others, InCache
<1>1. /\ \A g \in Fetchers : g # f => fetch[g] = Resting /\ fetch[g].pc = "idle"
      /\ fetch[f].pc = "cache"
  BY <1>0, CalmAlone DEF InCache
<1>2. /\ todo \in Seq(Ops) /\ todo # <<>> /\ OpSound(stored, op) /\ op \in Ops
      /\ 1 \in DOMAIN todo /\ op = todo[1] /\ op = Head(todo)
  BY <1>0, NextOpSound, TodoTail DEF NextOp
<1>3. /\ latest[it] = fetch[f].ver
      /\ \A j \in DOMAIN todo, c \in Coins : todo[j].key = Price(c) => it = c /\ todo[j] = cachePrice(c, latest[c])
      /\ \A c \in Coins : redis[Price(c)] \in {0, latest[c]} \/ (it = c /\ op = cachePrice(c, latest[c]))
  BY <1>0, <1>1, <1>2 DEF CalmInv, CalmFresh
<1>4. \A c \in Coins : cachePrice(c, latest[c]).key = Price(c) /\ cachePrice(c, latest[c]).mode = "set"
                       /\ cachePrice(c, latest[c]).val = latest[c]
  BY DEF cachePrice
<1> HIDE DEF it, todo, op
<1>5. /\ fetch'[f].pc = "cache" /\ fetch'[f].item = it /\ fetch'[f].ver = fetch[f].ver
      /\ \A g \in Fetchers : g # f => fetch'[g] = fetch[g]
      /\ \A j \in DOMAIN fetch'[f].todo, c \in Coins : fetch'[f].todo[j].key = Price(c) =>
           it = c /\ fetch'[f].todo[j] = cachePrice(c, latest[c])
  <2>1. CASE ReadBundle(f)
    <3> DEFINE m == Merging(NextOp(f))
    <3>1. /\ fetch'[f].pc = "cache" /\ fetch'[f].item = it /\ fetch'[f].ver = fetch[f].ver
          /\ \A g \in Fetchers : g # f => fetch'[g] = fetch[g]
          /\ fetch'[f].todo = <<m>> \o Tail(todo) /\ m \in Ops /\ m.key = CryptoKey
      BY <1>1, <2>1, ReadMoves DEF it, todo
    <3> HIDE DEF m
    <3>2. /\ DOMAIN fetch'[f].todo = DOMAIN todo
          /\ \A j \in DOMAIN todo : fetch'[f].todo[j] = IF j = 1 THEN m ELSE todo[j]
      BY <1>2, <3>1, TodoFirst
    <3> QED BY <1>3, <3>1, <3>2, KeysApart
  <2>2. CASE Write(f)
    <3>1. /\ fetch'[f].pc = "cache" /\ fetch'[f].item = it /\ fetch'[f].ver = fetch[f].ver
          /\ \A g \in Fetchers : g # f => fetch'[g] = fetch[g]
          /\ fetch'[f].todo = Tail(todo)
      BY <1>0, <1>1, <2>2, OpMoves DEF Write, it, todo
    <3>2. \A j \in DOMAIN Tail(todo) : j + 1 \in DOMAIN todo /\ Tail(todo)[j] = todo[j + 1]
      BY <1>2, TodoTail
    <3> QED BY <1>3, <3>1, <3>2
  <2> QED BY <2>1, <2>2
<1>6. \A c \in Coins : redis'[Price(c)] \in {0, latest[c]}
  <2> SUFFICES ASSUME NEW c \in Coins PROVE redis'[Price(c)] \in {0, latest[c]}
    OBVIOUS
  <2>1. CASE ReadBundle(f)
    <3>1. op.mode = "merge" /\ redis' = redis
      BY <2>1 DEF ReadBundle, others, op
    <3> QED BY <1>3, <1>4, <3>1
  <2>2. CASE Write(f)
    <3>1. op.mode # "merge" /\ redis' = Applied(op)
      BY <2>2 DEF Write, op
    <3>2. /\ \A k \in RedisKeys : k # op.key => redis'[k] = redis[k]
          /\ op.mode = "set" => redis'[op.key] = op.val
      BY <1>2, <3>1, AppliedSound DEF MarketInv
    <3>3. CASE op.key = Price(c)
      <4>1. op = cachePrice(c, latest[c])
        BY <1>2, <1>3, <3>3
      <4> QED BY <1>4, <3>2, <3>3, <4>1
    <3>4. CASE op.key # Price(c)
      <4>1. redis'[Price(c)] = redis[Price(c)] /\ op # cachePrice(c, latest[c])
        BY <1>4, <3>2, <3>4, KeysApart
      <4> QED BY <1>3, <4>1
    <3> QED BY <3>3, <3>4
  <2> QED BY <2>1, <2>2
<1>7. CalmQuiet'
  BY <1>0, <1>5, CalmMoves
<1>8. CalmFresh'
  <2>1. \A c \in Coins : cachePrice(c, latest[c])' = cachePrice(c, latest[c])
    BY <1>0 DEF cachePrice
  <2>2. ASSUME NEW g \in Fetchers, fetch'[g].pc = "cache"
        PROVE  /\ latest[fetch'[g].item] = fetch'[g].ver
               /\ \A j \in DOMAIN fetch'[g].todo, c \in Coins : fetch'[g].todo[j].key = Price(c) =>
                    fetch'[g].item = c /\ fetch'[g].todo[j] = cachePrice(c, latest[c])
    <3>1. g = f
      BY <1>1, <1>5, <2>2
    <3> QED BY <1>3, <1>5, <3>1
  <2>3. check' # Resting => \A c \in check'.left : check'.rows[c] = latest'[c]
    BY <1>0 DEF CalmInv, CalmFresh
  <2> QED BY <1>0, <1>6, <2>1, <2>2, <2>3 DEF CalmFresh
<1>9. CacheAlarmsExplained'
  BY <1>0 DEF CalmInv, CacheAlarmsExplained
<1> QED BY <1>7, <1>8, <1>9 DEF CalmInv

(* The checker reads rows that stay current until it has used them.        *)
LEMMA CalmChecks ==
  ASSUME MarketInv, CalmInv, calm', Checks
  PROVE  CalmInv'
<1>0. /\ calm /\ UNCHANGED <<latest, redis, slots>> /\ Checker \in Fetchers /\ fetch \in [Fetchers -> Calls]
  BY MarketAssumption DEF Checks, loadLatestRows, checkCache, checkExchange, CheckEnds, MarketInv, MarketShape
<1>1. \A c \in Coins : cachePrice(c, latest[c])' = cachePrice(c, latest[c])
  BY <1>0 DEF cachePrice
<1>2. ASSUME NoCall PROVE \A f \in Fetchers : fetch[f] = Resting /\ fetch[f].pc = "idle"
  BY <1>2 DEF NoCall, Resting
<1>3. ASSUME check # Resting, check.pc # "snapshot" PROVE \A f \in Fetchers : fetch[f].pc = "idle" /\ fetch[f] = Resting
  <2> SUFFICES ASSUME NEW f \in Fetchers PROVE fetch[f].pc = "idle" /\ fetch[f] = Resting
    OBVIOUS
  <2>1. fetch[f].pc = "idle"
    BY <1>0, <1>3, CalmAlone
  <2> QED BY <2>1, CallFacts DEF MarketInv
<1>4. ASSUME \A f \in Fetchers : fetch[f].pc = "idle" PROVE \A c \in Coins : redis[Price(c)] \in {0, latest[c]}
  BY <1>0, <1>4 DEF CalmInv, CalmFresh
<1>5. ASSUME UNCHANGED fetch, \A f \in Fetchers : fetch[f].pc = "idle" /\ fetch[f] = Resting,
             check' # Resting => \A c \in check'.left : check'.rows[c] = latest[c]
      PROVE  CalmQuiet' /\ CalmFresh'
  <2>1. \A f \in Fetchers : fetch'[f].pc = "idle" /\ fetch'[f] = Resting
    BY <1>5
  <2>2. CalmQuiet'
    BY <1>0, <2>1 DEF CalmInv, CalmQuiet
  <2>3. CalmFresh'
    BY <1>0, <1>4, <1>5, <2>1 DEF CalmFresh
  <2> QED BY <2>2, <2>3
<1>6. CASE loadLatestRows
  <2>1. /\ NoCall /\ UNCHANGED <<fetch, alarm>>
        /\ check' = [pc |-> "next", left |-> Coins, rows |-> latest, coin |-> AssetList]
    BY <1>6 DEF loadLatestRows
  <2>2. \A c \in check'.left : check'.rows[c] = latest[c]
    BY <2>1
  <2> QED BY <1>0, <1>2, <1>5, <2>1, <2>2 DEF CalmInv, CacheAlarmsExplained
<1>7. ASSUME NEW c \in Coins, checkCache(c) PROVE CalmInv'
  <2>1. /\ check.pc = "next" /\ c \in check.left /\ UNCHANGED fetch
        /\ check \in Passes /\ check # Resting
        /\ alarm' = IF check.rows[c] = 0 THEN "none" ELSE compare("cache", redis[Price(c)], check.rows[c])
    BY <1>7, PassFacts DEF checkCache, MarketInv
  <2>2. \A d \in check.left : check.rows[d] = latest[d]
    BY <1>0, <2>1 DEF CalmInv, CalmFresh
  <2>3. \A f \in Fetchers : fetch[f].pc = "idle" /\ fetch[f] = Resting
    BY <1>3, <2>1
  <2>4. alarm' # "cache"
    <3>1. redis[Price(c)] \in {0, check.rows[c]}
      BY <1>4, <2>1, <2>2, <2>3
    <3> QED BY <2>1, <3>1 DEF compare
  <2>5. check'.left \subseteq check.left /\ check'.rows = check.rows
    BY <1>7, <2>1 DEF checkCache, Passes
  <2> QED BY <1>5, <2>1, <2>2, <2>3, <2>4, <2>5 DEF CalmInv, CacheAlarmsExplained
<1>8. CASE checkExchange
  <2>1. /\ check.pc = "exchange" /\ check \in Passes /\ check # Resting
    BY <1>8, PassFacts DEF checkExchange, MarketInv
  <2>2. \A d \in check.left : check.rows[d] = latest[d]
    BY <1>0, <2>1 DEF CalmInv, CalmFresh
  <2>3. \A f \in Fetchers : fetch[f].pc = "idle" /\ fetch[f] = Resting
    BY <1>3, <2>1
  <2>4. check'.left = check.left /\ check'.rows = check.rows /\ check' # Resting
    <3>1. check' = [check EXCEPT !.pc = "next"] \/ check' = [check EXCEPT !.pc = "snapshot"]
      BY <1>8 DEF checkExchange
    <3>2. check'.left = check.left /\ check'.rows = check.rows /\ check'.pc \in {"next", "snapshot"}
      BY <2>1, <3>1 DEF Passes
    <3>3. Resting.pc = "idle"
      BY DEF Resting
    <3> QED BY <3>2, <3>3
  <2>5. CacheAlarmsExplained'
    BY <1>0, <1>8 DEF checkExchange, compare, CalmInv, CacheAlarmsExplained
  <2>6. CASE UNCHANGED fetch
    BY <1>5, <2>2, <2>3, <2>4, <2>5, <2>6 DEF CalmInv
  <2>7. CASE fetch' = [fetch EXCEPT ![Checker] = Call(check.coin)]
    <3>1. /\ fetch'[Checker].pc = "fetch"
          /\ \A f \in Fetchers : f # Checker => fetch'[f] = Resting /\ fetch'[f].pc = "idle"
      BY <1>0, <2>3, <2>7 DEF Call
    <3>2. CalmQuiet'
      BY <1>0, <3>1 DEF CalmInv, CalmQuiet
    <3>3. CalmFresh'
      <4>1. \A f \in Fetchers : fetch'[f].pc # "cache"
        BY <3>1
      <4>2. \A c \in Coins : redis'[Price(c)] \in {0, latest'[c]}
        BY <1>0, <1>4, <2>3
      <4>3. \A d \in check'.left : check'.rows[d] = latest'[d]
        BY <1>0, <2>2, <2>4
      <4> QED BY <4>1, <4>2, <4>3 DEF CalmFresh
    <3> QED BY <2>5, <3>2, <3>3 DEF CalmInv
  <2> QED BY <1>8, <2>6, <2>7 DEF checkExchange
<1>9. CASE CheckEnds
  <2>1. check.pc = "next" /\ check' = Resting /\ alarm' = "none" /\ UNCHANGED fetch
    BY <1>9 DEF CheckEnds
  <2>2. check # Resting
    BY <2>1 DEF Resting
  <2> QED BY <1>3, <1>5, <2>1, <2>2 DEF CalmInv, CacheAlarmsExplained
<1> QED BY <1>6, <1>7, <1>8, <1>9 DEF Checks

(* Every step keeps the third layer.                                       *)
LEMMA CalmNextHolds == MarketInv /\ CalmInv /\ [MarketNext]_marketVars => CalmInv'
<1> SUFFICES ASSUME MarketInv, CalmInv, [MarketNext]_marketVars, calm' PROVE CalmInv'
  BY Disturbed
<1>1. CASE \E it \in Items : LiveMoves(it) \/ LocalExpires(it)
  BY <1>1, CalmStays DEF LiveMoves, LocalExpires
<1>2. ASSUME NEW k \in RedisKeys, RedisExpires(k) PROVE CalmInv'
  <2>1. \A c \in Coins : redis'[Price(c)] \in {redis[Price(c)], 0}
    BY <1>2, KeysApart DEF RedisExpires, EmptyKey, MarketInv, MarketShape
  <2> QED BY <1>2, <2>1, CalmStays DEF RedisExpires
<1>3. ASSUME NEW f \in Fetchers, Works(f) PROVE CalmInv'
  <2>1. ~StoreFails(f) /\ ~MarketWriteFails(f)
    BY DEF StoreFails, MarketWriteFails
  <2>2. ~HydrateEnds(f)
    BY CalmAlone DEF HydrateEnds, others
  <2> QED BY <1>3, <2>1, <2>2, CalmCalls, CalmStores, CalmWrites DEF Works
<1>4. ASSUME NEW f \in Fetchers, NEW it \in Items, Begin(f, it) PROVE CalmInv'
  <2>1. /\ calm /\ NoCall /\ check = Resting /\ UNCHANGED <<latest, redis, slots, check, alarm>>
        /\ fetch' = [fetch EXCEPT ![f] = Call(it)] /\ fetch \in [Fetchers -> Calls]
    BY <1>4 DEF Begin, MarketInv, MarketShape
  <2>2. \A g \in Fetchers : fetch[g] = Resting /\ fetch[g].pc = "idle"
    BY <2>1 DEF NoCall, Resting
  <2>3. fetch'[f].pc = "fetch" /\ \A g \in Fetchers : g # f => fetch'[g] = Resting /\ fetch'[g].pc = "idle"
    BY <2>1, <2>2 DEF Call
  <2>4. CalmQuiet'
    BY <2>1, <2>3 DEF CalmInv, CalmQuiet
  <2>5. CalmFresh'
    <3>1. \A g \in Fetchers : fetch'[g].pc # "cache"
      BY <2>3
    <3>2. \A c \in Coins : redis'[Price(c)] \in {0, latest'[c]}
      BY <2>1, <2>2 DEF CalmInv, CalmFresh
    <3> QED BY <2>1, <3>1, <3>2 DEF CalmFresh
  <2>6. CacheAlarmsExplained'
    BY <2>1 DEF CalmInv, CacheAlarmsExplained
  <2> QED BY <2>4, <2>5, <2>6 DEF CalmInv
<1>5. ASSUME NEW i \in Slot, MarketRetry(i) PROVE CalmInv'
  <2>1. slots[i] # NoTask /\ calm
    BY <1>5 DEF MarketRetry, RetryReadsBundle, MarketRetrySucceeds, MarketRetryFails, marketTask, others
  <2> QED BY <2>1 DEF CalmInv, CalmQuiet
<1>6. CASE MarketCrash
  BY <1>6 DEF MarketCrash
<1>7. CASE Checks
  BY <1>7, CalmChecks
<1>8. CASE UNCHANGED marketVars
  BY <1>8, CalmStays DEF marketVars
<1> QED BY <1>1, <1>2, <1>3, <1>4, <1>5, <1>6, <1>7, <1>8 DEF MarketNext

(* MarketChecker reports a cached price that differs from the row it read  *)
(* only after a failed write, overlapping calls or a call beside its pass. *)
THEOREM AlarmsStayExplained == MarketSpec => []CacheAlarmsExplained
<1>1. MarketInit => CalmInv
  BY CalmInitHolds
<1>2. MarketInv /\ CalmInv /\ [MarketNext]_marketVars => CalmInv'
  BY CalmNextHolds
<1>3. CalmInv => CacheAlarmsExplained
  BY DEF CalmInv
<1> QED BY <1>1, <1>2, <1>3, MarketInvariant, PTL DEF MarketSpec

-------------------------------------------------------------------------------
(* A queued retry runs down, reads of the bundle included.                 *)

(* Steps a task has left: a read, where it merges, and a write an attempt. *)
TaskLeft(t) == 2 * (MaxAttempts - t.attempt) + (IF t.do.mode = "merge" THEN 1 ELSE 0)

(* What a step may do to a slot that is taken: free it, or bring the same  *)
(* closure nearer to its last attempt.                                     *)
TaskRunsDown(i) ==
  slots[i] # NoTask =>
    \/ slots'[i] \in {slots[i], NoTask}
    \/ /\ Closure(slots'[i].do) = Closure(slots[i].do)
       /\ TaskLeft(slots'[i]) \in Nat /\ TaskLeft(slots'[i]) < TaskLeft(slots[i])

(* No step puts another task over one that is queued, changes what it      *)
(* captured, or takes an attempt or a read of the bundle back.             *)
TasksRunDown == \A i \in Slot : TaskRunsDown(i)

(* A new failure takes a free slot, or none.                               *)
LEMMA FailureTakesFree ==
  ASSUME MarketShape, NEW task, handleCacheFailure(task)
  PROVE  TasksRunDown
<1>1. slots' = slots \/ \E i \in Slot : slots[i] = NoTask /\ slots' = [slots EXCEPT ![i] = [do |-> task, attempt |-> 1]]
  BY DEF handleCacheFailure, Enqueue, Free
<1>2. slots \in [Slot -> {NoTask} \cup Tasks]
  BY DEF MarketShape, Tasks
<1>3. CASE slots' = slots
  BY <1>3 DEF TasksRunDown, TaskRunsDown
<1>4. ASSUME NEW i \in Slot, slots[i] = NoTask, slots' = [slots EXCEPT ![i] = [do |-> task, attempt |-> 1]]
      PROVE  TasksRunDown
  <2>1. \A k \in Slot : k # i => slots'[k] = slots[k]
    BY <1>2, <1>4
  <2> QED BY <1>4, <2>1 DEF TasksRunDown, TaskRunsDown
<1> QED BY <1>1, <1>3, <1>4

(* Only slot i moved: it was freed, or its task came nearer to its end.    *)
LEMMA OneRunsDown ==
  ASSUME NEW i \in Slot, TaskRunsDown(i), \A k \in Slot : k # i => slots'[k] = slots[k]
  PROVE  TasksRunDown
BY DEF TasksRunDown, TaskRunsDown

(* The closure of a closure is itself, and so is that of a read bundle.    *)
LEMMA ClosureOf ==
  ASSUME NEW op \in Ops
  PROVE  /\ Closure(Closure(op)) = Closure(op)
         /\ op.mode = "merge" => Closure(Merging(op)) = op /\ Closure(op) = op
         /\ op.mode # "merged" => Closure(op).mode = op.mode
         /\ op.mode = "merged" => Closure(op).mode = "merge"
<1>1. op.mode = "merge" => op \in MergeOps
  BY DEF Ops, SetOps, BundleOps, MergeOps, MergedOps
<1>2. CASE op.mode = "merge"
  <2>1. op = [key |-> CryptoKey, mode |-> "merge", coin |-> op.coin, val |-> op.val]
    BY <1>1, <1>2 DEF MergeOps
  <2>2. Closure(op) = op
    BY <1>2 DEF Closure
  <2>3. /\ Merging(op).mode = "merged" /\ Merging(op).coin = op.coin /\ Merging(op).val = op.val
    BY DEF Merging
  <2>4. Closure(Merging(op)) = op
    BY <2>1, <2>3 DEF Closure
  <2> QED BY <1>2, <2>2, <2>4
<1>3. CASE op.mode = "merged"
  BY <1>3 DEF Closure
<1>4. CASE op.mode \notin {"merge", "merged"}
  BY <1>4 DEF Closure
<1> QED BY <1>2, <1>3, <1>4

(* A failed attempt of a merge starts over with the read, and there is one *)
(* attempt less.                                                           *)
LEMMA RetryRunsDown ==
  ASSUME MarketShape, NEW i \in Slot, MarketRetry(i)
  PROVE  TasksRunDown
<1>1. slots \in [Slot -> {NoTask} \cup Tasks] /\ slots[i] # NoTask /\ slots[i] \in Tasks
  BY DEF MarketShape, Tasks, MarketRetry, RetryReadsBundle, MarketRetrySucceeds, MarketRetryFails, marketTask
<1> DEFINE op == slots[i].do
           n == slots[i].attempt
<1>2. op \in Ops /\ n \in 1..MaxAttempts /\ MaxAttempts \in Nat
  BY <1>1, QueueAssumption DEF Tasks
<1>3. CASE Release(i)
  <2>1. slots'[i] = NoTask /\ \A k \in Slot : k # i => slots'[k] = slots[k]
    BY <1>1, <1>3 DEF Release
  <2> QED BY <2>1, OneRunsDown DEF TaskRunsDown
<1>4. CASE n < MaxAttempts /\ slots' = [slots EXCEPT ![i] = [do |-> Closure(op), attempt |-> @.attempt + 1]]
  <2>1. slots'[i] = [do |-> Closure(op), attempt |-> n + 1] /\ \A k \in Slot : k # i => slots'[k] = slots[k]
    BY <1>1, <1>4
  <2>2. slots'[i].do = Closure(op) /\ slots'[i].attempt = n + 1
    BY <2>1
  <2>3. Closure(slots'[i].do) = Closure(op)
    BY <1>2, <2>2, ClosureOf
  <2>4. TaskLeft(slots'[i]) = 2 * (MaxAttempts - (n + 1)) + (IF op.mode \in {"merge", "merged"} THEN 1 ELSE 0)
    BY <1>2, <2>2, ClosureOf DEF TaskLeft
  <2>5. TaskLeft(slots[i]) = 2 * (MaxAttempts - n) + (IF op.mode = "merge" THEN 1 ELSE 0)
    BY DEF TaskLeft
  <2>6. TaskLeft(slots'[i]) \in Nat /\ TaskLeft(slots'[i]) < TaskLeft(slots[i])
    <3> HIDE DEF op, n
    <3>1. n \in Nat /\ n + 1 <= MaxAttempts
      BY <1>2, <1>4
    <3>2. CASE op.mode = "merge"
      BY <1>2, <2>4, <2>5, <3>1, <3>2
    <3>3. CASE op.mode # "merge"
      BY <1>2, <2>4, <2>5, <3>1, <3>3
    <3> QED BY <3>2, <3>3
  <2> QED BY <2>1, <2>3, <2>6, OneRunsDown DEF TaskRunsDown
<1>5. CASE RetryReadsBundle(i)
  <2>1. op.mode = "merge" /\ slots' = [slots EXCEPT ![i].do = Merging(@)]
    BY <1>5 DEF RetryReadsBundle
  <2>2. slots' = [slots EXCEPT ![i] = [slots[i] EXCEPT !.do = Merging(op)]]
    BY <1>1, <2>1
  <2>3. slots'[i] = [slots[i] EXCEPT !.do = Merging(op)] /\ \A k \in Slot : k # i => slots'[k] = slots[k]
    BY <1>1, <2>2
  <2>4. slots'[i].do = Merging(op) /\ slots'[i].attempt = n
    BY <1>1, <2>3 DEF Tasks
  <2>5. Closure(slots'[i].do) = Closure(op)
    BY <1>2, <2>1, <2>4, ClosureOf
  <2>6. TaskLeft(slots'[i]) = 2 * (MaxAttempts - n) + 0 /\ TaskLeft(slots[i]) = 2 * (MaxAttempts - n) + 1
    BY <2>1, <2>4 DEF TaskLeft, Merging
  <2>7. TaskLeft(slots'[i]) \in Nat /\ TaskLeft(slots'[i]) < TaskLeft(slots[i])
    <3> HIDE DEF op, n
    <3> QED BY <1>2, <2>6
  <2> QED BY <2>3, <2>5, <2>7, OneRunsDown DEF TaskRunsDown
<1> QED BY <1>3, <1>4, <1>5 DEF MarketRetry, MarketRetrySucceeds, MarketRetryFails, AttemptFails

(* Only a failed write, an attempt and a crash touch the queue.            *)
LEMMA MarketRunsDown == MarketInv /\ [MarketNext]_marketVars => TasksRunDown
<1> SUFFICES ASSUME MarketInv, [MarketNext]_marketVars PROVE TasksRunDown
  OBVIOUS
<1>0. MarketShape
  BY DEF MarketInv
<1>1. CASE UNCHANGED slots
  BY <1>1 DEF TasksRunDown, TaskRunsDown
<1>2. ASSUME NEW it \in Items, LiveMoves(it) \/ LocalExpires(it) PROVE UNCHANGED slots
  BY <1>2 DEF LiveMoves, LocalExpires
<1>3. ASSUME NEW f \in Fetchers, Works(f) PROVE TasksRunDown
  <2>1. CASE MarketWriteFails(f)
    BY <1>0, <2>1, FailureTakesFree DEF MarketWriteFails
  <2>2. CASE Fetch(f) \/ FetchFails(f) \/ Store(f) \/ StoreFails(f)
    BY <1>1, <2>2 DEF Fetch, FetchFails, Store, StoreFails
  <2>3. CASE ReadBundle(f) \/ Write(f) \/ Keep(f) \/ HydrateEnds(f)
    BY <1>1, <2>3 DEF ReadBundle, Write, Keep, HydrateEnds
  <2> QED BY <1>3, <2>1, <2>2, <2>3 DEF Works
<1>4. ASSUME NEW f \in Fetchers, NEW it \in Items, Begin(f, it) PROVE UNCHANGED slots
  BY <1>4 DEF Begin
<1>5. ASSUME NEW i \in Slot, MarketRetry(i) PROVE TasksRunDown
  BY <1>0, <1>5, RetryRunsDown
<1>6. ASSUME NEW k \in RedisKeys, RedisExpires(k) PROVE UNCHANGED slots
  BY <1>6 DEF RedisExpires
<1>7. CASE MarketCrash
  BY <1>7 DEF MarketCrash, QueueLost, TasksRunDown, TaskRunsDown
<1>8. CASE Checks
  <2>1. ASSUME NEW c \in Coins, checkCache(c) PROVE UNCHANGED slots
    BY <2>1 DEF checkCache
  <2>2. CASE loadLatestRows \/ checkExchange \/ CheckEnds
    BY <1>1, <2>2 DEF loadLatestRows, checkExchange, CheckEnds
  <2> QED BY <1>1, <1>8, <2>1, <2>2 DEF Checks
<1>9. CASE UNCHANGED marketVars
  BY <1>1, <1>9 DEF marketVars
<1> QED BY <1>1, <1>2, <1>3, <1>4, <1>5, <1>6, <1>7, <1>8, <1>9 DEF MarketNext

(* No retry of the market cache goes on for ever or is displaced by a      *)
(* newer failure: a queued closure keeps its slot, its coin and its price, *)
(* although a merge reads the bundle anew at every attempt, and each step  *)
(* of its goroutine leaves fewer steps, down to none after MaxAttempts     *)
(* attempts.  This is the safety half of RetriesDrain.                     *)
THEOREM MarketRetriesRunDown == MarketSpec => [][TasksRunDown]_marketVars
<1>1. MarketInv /\ [MarketNext]_marketVars => [TasksRunDown]_marketVars
  BY MarketRunsDown
<1> QED BY <1>1, MarketInvariant, PTL DEF MarketSpec
===============================================================================
