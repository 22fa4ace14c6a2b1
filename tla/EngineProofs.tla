----------------------------- MODULE EngineProofs -----------------------------
(* Proofs about EnginePersistence for any symbols, events, list limit and  *)
(* retry queue.                                                            *)
EXTENDS EnginePersistence, FiniteSetTheorems, SequenceTheorems, TLAPS

RowType == [status : {"none", "open", "closed"}, entry : Event]

Lists == BoundedSeq(Event, RecentLimit)

(* The cache operations by the way they come by their value.               *)
PositionOps == [key : {"positions"}, sym : Symbols, val : Event]

ListOps == [key : {"trades", "conversations"}, val : Event]

PlainOps == [key : {"decision", "analytics", "since", "leaderboard"}, val : Event]

HydrateOps == [key : {"positions"}, whole : Position] \cup [key : {"trades"}, whole : Lists]
              \cup [key : {"decision"}, whole : Event]

CacheOps == PositionOps \cup ListOps \cup PlainOps \cup HydrateOps

SetTasks == [key : {"positions"}, mode : {"set"}, val : Position]
            \cup [key : {"trades", "conversations"}, mode : {"set"}, val : Lists]
            \cup [key : {"decision", "analytics", "since", "leaderboard"}, mode : {"set"}, val : Event]

CacheTasks == SetTasks \cup [key : Hashed, mode : {"expire"}]

Tasks == [do : CacheTasks, attempt : 1..MaxAttempts]

Recording == [pc : {"open", "find", "update", "trade"}, sym : Symbols, id : Event, closing : Event, found : RowType]

Refreshing == job.pc \in {"load", "write"}

RowsBacked(r, w) == r \in [Symbols -> RowType] /\ \A s \in Symbols : r[s].status = "open" => r[s].entry \in w

(* Variables have their shapes, and the opens in the table were written.   *)
EngineShape ==
  /\ events \in Event /\ held \in Position /\ tainted \in BOOLEAN
  /\ RowsBacked(rows, written)
  /\ written \subseteq Event /\ cycles \subseteq Event /\ convs \subseteq Event
  /\ trades \subseteq [id : Event, closed : Event, entry : Event]
  /\ cache = [k \in Keys |-> cache[k]]
  /\ slots \in [Slot -> {NoTask} \cup Tasks]

(* The job is an event on its way into the tables, or a list of refreshes. *)
JobShape ==
  \/ job = Idle
  \/ job \in Recording
  \/ /\ Refreshing /\ job = [pc |-> job.pc, todo |-> job.todo, old |-> job.old]
     /\ job.todo \in Seq(CacheOps) /\ job.todo # <<>>
     /\ job.pc = "load" => NeedsLoad(Op)

(* A value of key k made of what is in the tables.                         *)
Fit(w, t, v, y, k, x) ==
  /\ k \in Keys
  /\ k = "positions" => x \in Position /\ \A s \in Symbols : x[s] \in w \cup {0}
  /\ k = "trades" => x \in Lists /\ \A j \in DOMAIN x : \E r \in t : r.id = x[j]
  /\ k = "conversations" => x \in Lists /\ \A j \in DOMAIN x : x[j] \in v
  /\ k = "decision" => x \in Event /\ x \in y \cup {0}
  /\ k \in {"analytics", "since", "leaderboard"} => x \in Event

(* An operation that will write such a value.                              *)
OpFit(w, t, v, y, op) ==
  /\ op \in CacheOps
  /\ op \in PositionOps => op.val \in w \cup {0}
  /\ op \in ListOps /\ op.key = "trades" => \E r \in t : r.id = op.val
  /\ op \in ListOps /\ op.key = "conversations" => op.val \in v
  /\ op \in PlainOps => Fit(w, t, v, y, op.key, op.val)
  /\ op \in HydrateOps => Fit(w, t, v, y, op.key, op.whole)

Sound(k, x) == Fit(written, trades, convs, cycles, k, x)

OpSound(op) == OpFit(written, trades, convs, cycles, op)

CacheSound == \A k \in Keys : Sound(k, cache[k])

TodoSound ==
  Refreshing => /\ \A j \in DOMAIN job.todo : OpSound(job.todo[j])
                /\ job.pc = "write" /\ NeedsLoad(Op) => Sound(Op.key, job.old)

SlotsSound == \A i \in Slot : slots[i] # NoTask /\ slots[i].do.mode = "set" => Sound(slots[i].do.key, slots[i].do.val)

(* The inductive invariant of what is cached.                              *)
EngineInv == EngineShape /\ JobShape /\ CacheSound /\ TodoSound /\ SlotsSound

-------------------------------------------------------------------------------
(* Entries and trades.                                                     *)

(* Numbers in use are numbers of events that have happened.                *)
Bounded ==
  /\ \A n \in written : n <= events
  /\ \A s \in Symbols : held[s] <= events
  /\ \A t \in trades : t.closed <= events
  /\ job \in Recording => job.id <= events /\ job.closing <= events

(* A position whose open was stored has its row, until its close has read  *)
(* the row; an open that is not stored yet has a number nothing else has.  *)
EntriesKept ==
  /\ \A s \in Symbols : held[s] # 0 /\ held[s] \in written => rows[s].entry = held[s]
  /\ job.pc = "open" => /\ job.id \notin written /\ held[job.sym] = job.id
                        /\ \A s \in Symbols : s # job.sym => held[s] # job.id
                        /\ \A t \in trades : t.closed # job.id
  /\ job.pc \in {"find", "update", "trade"} => held[job.sym] = 0
  /\ job.pc = "find" /\ job.closing \in written => rows[job.sym].entry = job.closing
  /\ job.pc \in {"update", "trade"} /\ job.closing \in written => job.found.entry = job.closing

EntriesInv == Bounded /\ EntriesKept /\ TradesTruthful

-------------------------------------------------------------------------------
(* The positions value and its retries.                                    *)

OpenRow(n) == [status |-> "open", entry |-> n]

(* What value v shows is open in rows r, but for the symbols in due.       *)
Match(r, due, v) == \A s \in Symbols : s \notin due /\ v[s] # 0 => r[s] = OpenRow(v[s])

(* The symbol whose row has changed and whose refresh is still to come.    *)
Due == IF job.pc = "trade" THEN {job.sym}
       ELSE IF Refreshing /\ Op \in PositionOps THEN {Op.sym} ELSE {}

(* The slots a write of the positions value waits in.                      *)
Waiting(q) == {i \in Slot : q[i] # NoTask /\ q[i].do.key = "positions" /\ q[i].do.mode = "set"}

(* The positions value is refreshed first, from the row as it is.          *)
RefreshCurrent ==
  Refreshing =>
    /\ \A j \in DOMAIN job.todo : j # 1 => job.todo[j].key # "positions"
    /\ Op \in PositionOps /\ Op.val # 0 => rows[Op.sym] = OpenRow(Op.val)
    /\ Op \in HydrateOps /\ Op.key = "positions" => Waiting(slots) = {} /\ Match(rows, {}, Op.whole)

(* One value counts: the one that waits for its retry or, without one, the *)
(* one in Redis.                                                           *)
OneOf(r, due, q, c) ==
  /\ \A i, k \in Waiting(q) : i = k
  /\ \A i \in Waiting(q) : Match(r, due, q[i].do.val)
  /\ Waiting(q) = {} => Match(r, due, c["positions"])

(* Untainted, that value is right, and a refresh under way has read it.    *)
OneValue ==
  ~tainted =>
    /\ OneOf(rows, Due, slots, cache)
    /\ job.pc = "write" /\ Op \in PositionOps => Waiting(slots) = {} /\ Match(rows, Due, job.old)

RepairInv == RefreshCurrent /\ OneValue

-------------------------------------------------------------------------------
(* Numbers, lists and operations.                                          *)

(* Event numbers, zero for none.                                           *)
LEMMA EventFacts == 0 \in Event /\ MaxEvents \in Nat /\ \A n \in Event : n \in Nat /\ n <= MaxEvents
  BY EngineAssumption DEF Event

(* The bounded lists.                                                      *)
LEMMA ListFacts ==
  /\ \A x \in Lists : x \in Seq(Event) /\ Len(x) <= RecentLimit
  /\ \A x \in Seq(Event) : Len(x) <= RecentLimit => x \in Lists
  /\ <<>> \in Lists
<1>1. ASSUME NEW x \in Lists PROVE x \in Seq(Event) /\ Len(x) <= RecentLimit
  <2>1. PICK m \in 0..RecentLimit : x \in [1..m -> Event]
    BY DEF Lists, BoundedSeq, SeqOf
  <2>2. m \in Nat /\ m <= RecentLimit
    BY EngineAssumption
  <2> QED BY <2>1, <2>2
<1>2. ASSUME NEW x \in Seq(Event), Len(x) <= RecentLimit PROVE x \in Lists
  <2>1. Len(x) \in 0..RecentLimit /\ x \in [1..Len(x) -> Event]
    BY <1>2, EngineAssumption
  <2> QED BY <2>1 DEF Lists, BoundedSeq, SeqOf
<1>3. <<>> \in Seq(Event) /\ Len(<<>>) <= RecentLimit
  BY EngineAssumption
<1> QED BY <1>1, <1>2, <1>3

(* A list that is cut keeps its first entries.                             *)
LEMMA CutFacts ==
  ASSUME NEW q \in Seq(Event)
  PROVE  Cut(q) \in Lists /\ \A j \in DOMAIN Cut(q) : j \in DOMAIN q /\ Cut(q)[j] = q[j]
<1> DEFINE n == IF Len(q) < RecentLimit THEN Len(q) ELSE RecentLimit
<1>1. n \in Nat /\ n <= Len(q) /\ n <= RecentLimit /\ Len(q) \in Nat /\ DOMAIN q = 1..Len(q)
  BY EngineAssumption
<1>2. Cut(q) = SubSeq(q, 1, n)
  BY DEF Cut
<1> HIDE DEF n
<1>3. 1 \in Int /\ n \in Int /\ \A i \in 1..n : q[i] \in Event
  BY <1>1
<1>4. /\ SubSeq(q, 1, n) \in Seq(Event)
      /\ Len(SubSeq(q, 1, n)) = IF 1 <= n THEN n - 1 + 1 ELSE 0
      /\ \A i \in 1..(n - 1 + 1) : SubSeq(q, 1, n)[i] = q[1 + i - 1]
  BY <1>3, SubSeqProperties
<1>5. Len(Cut(q)) = n /\ Cut(q) \in Seq(Event) /\ DOMAIN Cut(q) = 1..n
  BY <1>1, <1>2, <1>4
<1>6. ASSUME NEW i \in 1..n PROVE i \in DOMAIN q /\ Cut(q)[i] = q[i]
  <2>1. i \in 1..(n - 1 + 1) /\ 1 + i - 1 = i
    BY <1>1
  <2> QED BY <1>1, <1>2, <1>4, <2>1
<1> QED BY <1>1, <1>5, <1>6, ListFacts

(* The newest entry goes to the front.                                     *)
LEMMA RecentFacts ==
  ASSUME NEW q \in Lists, NEW n \in Event
  PROVE  /\ Recent(q, n) \in Lists
         /\ \A j \in DOMAIN Recent(q, n) : Recent(q, n)[j] = n \/ \E i \in DOMAIN q : Recent(q, n)[j] = q[i]
<1>1. q \in Seq(Event) /\ <<n>> \in Seq(Event) /\ Len(<<n>>) = 1 /\ <<n>>[1] = n /\ Len(q) \in Nat /\ DOMAIN q = 1..Len(q)
  BY ListFacts
<1> DEFINE a == <<n>>
           b == a \o q
<1>2. a \in Seq(Event) /\ Len(a) = 1 /\ a[1] = n
  BY <1>1
<1> HIDE DEF a
<1>3. /\ b \in Seq(Event) /\ Len(b) = 1 + Len(q)
      /\ \A i \in 1..(1 + Len(q)) : b[i] = IF i <= 1 THEN a[i] ELSE q[i - 1]
  <2>1. /\ a \o q \in Seq(Event) /\ Len(a \o q) = Len(a) + Len(q)
        /\ \A i \in 1..(Len(a) + Len(q)) : (a \o q)[i] = IF i <= Len(a) THEN a[i] ELSE q[i - Len(a)]
    BY <1>1, <1>2, ConcatProperties
  <2> HIDE DEF b
  <2>2. b = a \o q
    BY DEF b
  <2> QED BY <1>1, <1>2, <2>1, <2>2
<1>4. Recent(q, n) = Cut(b)
  BY DEF Recent, a
<1>5. DOMAIN b = 1..(1 + Len(q))
  BY <1>3
<1> HIDE DEF b
<1>6. Cut(b) \in Lists /\ \A j \in DOMAIN Cut(b) : j \in DOMAIN b /\ Cut(b)[j] = b[j]
  BY <1>3, CutFacts
<1>7. ASSUME NEW j \in 1..(1 + Len(q)) PROVE b[j] = n \/ \E i \in DOMAIN q : b[j] = q[i]
  <2>1. CASE j = 1
    BY <1>1, <1>2, <1>3, <2>1
  <2>2. CASE j # 1
    <3>1. ~(j <= 1) /\ j - 1 \in 1..Len(q)
      BY <1>1, <2>2
    <3> QED BY <1>1, <1>3, <3>1
  <2> QED BY <2>1, <2>2
<1> QED BY <1>4, <1>5, <1>6, <1>7

(* The kinds of operations are told apart by their fields.                 *)
LEMMA OpKinds ==
  /\ \A op \in PositionOps : op.key = "positions" /\ "whole" \notin DOMAIN op /\ op.sym \in Symbols /\ op.val \in Event
  /\ \A op \in ListOps : op.key \in {"trades", "conversations"} /\ "whole" \notin DOMAIN op /\ op.val \in Event
  /\ \A op \in PlainOps : op.key \in {"decision", "analytics", "since", "leaderboard"} /\ "whole" \notin DOMAIN op
  /\ \A op \in HydrateOps : op.key \in {"positions", "trades", "decision"} /\ "whole" \in DOMAIN op
  /\ \A op \in CacheOps : op.key \in Keys
<1>1. \A op \in PositionOps : op.key = "positions" /\ "whole" \notin DOMAIN op /\ op.sym \in Symbols /\ op.val \in Event
  BY DEF PositionOps
<1>2. \A op \in ListOps : op.key \in {"trades", "conversations"} /\ "whole" \notin DOMAIN op /\ op.val \in Event
  BY DEF ListOps
<1>3. \A op \in PlainOps : op.key \in {"decision", "analytics", "since", "leaderboard"} /\ "whole" \notin DOMAIN op
  BY DEF PlainOps
<1>4. \A op \in HydrateOps : op.key \in {"positions", "trades", "decision"} /\ "whole" \in DOMAIN op
  BY DEF HydrateOps
<1> QED BY <1>1, <1>2, <1>3, <1>4 DEF CacheOps, Keys

(* Only refreshes of positions and lists read the cache before they write  *)
(* it.                                                                     *)
LEMMA LoadKinds ==
  /\ \A op \in PositionOps : NeedsLoad(op) /\ op \notin ListOps /\ op \notin PlainOps /\ op \notin HydrateOps
  /\ \A op \in ListOps : NeedsLoad(op) /\ op \notin PlainOps /\ op \notin HydrateOps
  /\ \A op \in PlainOps : ~NeedsLoad(op) /\ op \notin HydrateOps
  /\ \A op \in HydrateOps : ~NeedsLoad(op)
  BY OpKinds DEF NeedsLoad, Merged

(* What fits the tables fits the larger ones.                              *)
LEMMA FitGrows ==
  ASSUME NEW w, NEW w2, w \subseteq w2, NEW t, NEW t2, t \subseteq t2,
         NEW v, NEW v2, v \subseteq v2, NEW y, NEW y2, y \subseteq y2
  PROVE  /\ \A k, x : Fit(w, t, v, y, k, x) => Fit(w2, t2, v2, y2, k, x)
         /\ \A op : OpFit(w, t, v, y, op) => OpFit(w2, t2, v2, y2, op)
<1>1. \A k, x : Fit(w, t, v, y, k, x) => Fit(w2, t2, v2, y2, k, x)
  BY DEF Fit
<1>2. \A op : OpFit(w, t, v, y, op) => OpFit(w2, t2, v2, y2, op)
  BY <1>1 DEF OpFit
<1> QED BY <1>1, <1>2

(* What an operation writes is made of what is in the tables.              *)
LEMMA PayloadFits ==
  ASSUME NEW w, NEW t, NEW v, NEW y, NEW op, OpFit(w, t, v, y, op),
         NEW old, NeedsLoad(op) => Fit(w, t, v, y, op.key, old)
  PROVE  Fit(w, t, v, y, op.key, Payload(op, old))
<1>1. CASE op \in PositionOps
  <2>1. op.key = "positions" /\ op.sym \in Symbols /\ op.val \in Event /\ op.val \in w \cup {0}
    BY <1>1, OpKinds DEF OpFit
  <2>2. Payload(op, old) = [old EXCEPT ![op.sym] = op.val]
    BY <1>1, OpKinds DEF Payload
  <2>3. old \in Position /\ \A s \in Symbols : old[s] \in w \cup {0}
    BY <1>1, <2>1, LoadKinds DEF Fit
  <2>4. Payload(op, old) \in Position /\ \A s \in Symbols : Payload(op, old)[s] \in w \cup {0}
    BY <2>1, <2>2, <2>3 DEF Position
  <2> QED BY <2>1, <2>4 DEF Fit, Keys
<1>2. CASE op \in ListOps
  <2>1. op.key \in {"trades", "conversations"} /\ op.val \in Event /\ Payload(op, old) = Recent(old, op.val)
    BY <1>2, OpKinds DEF Payload
  <2>2. old \in Lists
    BY <1>2, <2>1, LoadKinds DEF Fit
  <2>3. /\ Payload(op, old) \in Lists
        /\ \A j \in DOMAIN Payload(op, old) : \/ Payload(op, old)[j] = op.val
                                              \/ \E i \in DOMAIN old : Payload(op, old)[j] = old[i]
    BY <2>1, <2>2, RecentFacts
  <2>4. CASE op.key = "trades"
    <3>1. (\E r \in t : r.id = op.val) /\ \A i \in DOMAIN old : \E r \in t : r.id = old[i]
      BY <1>2, <2>4, LoadKinds DEF OpFit, Fit
    <3>2. \A j \in DOMAIN Payload(op, old) : \E r \in t : r.id = Payload(op, old)[j]
      BY <2>3, <3>1
    <3> QED BY <2>3, <2>4, <3>2 DEF Fit, Keys
  <2>5. CASE op.key = "conversations"
    <3>1. op.val \in v /\ \A i \in DOMAIN old : old[i] \in v
      BY <1>2, <2>5, LoadKinds DEF OpFit, Fit
    <3>2. \A j \in DOMAIN Payload(op, old) : Payload(op, old)[j] \in v
      BY <2>3, <3>1
    <3> QED BY <2>3, <2>5, <3>2 DEF Fit, Keys
  <2> QED BY <2>1, <2>4, <2>5
<1>3. CASE op \in PlainOps
  <2>1. Payload(op, old) = op.val
    BY <1>3, OpKinds DEF Payload
  <2> QED BY <1>3, <2>1 DEF OpFit
<1>4. CASE op \in HydrateOps
  <2>1. Payload(op, old) = op.whole
    BY <1>4, OpKinds DEF Payload
  <2> QED BY <1>4, <2>1 DEF OpFit
<1> QED BY <1>1, <1>2, <1>3, <1>4 DEF OpFit, CacheOps

-------------------------------------------------------------------------------
(* The job and the retry queue.                                            *)

(* What a job is at each of its steps.                                     *)
LEMMA JobFacts ==
  ASSUME JobShape
  PROVE  /\ job.pc = "idle" <=> job = Idle
         /\ job.pc \in {"open", "find", "update", "trade"} <=> job \in Recording
         /\ job \in Recording => /\ job.sym \in Symbols /\ job.id \in Event /\ job.closing \in Event
                                 /\ job.found \in RowType /\ job.found.entry \in Event
         /\ Refreshing => /\ job = [pc |-> job.pc, todo |-> job.todo, old |-> job.old]
                          /\ job.todo \in Seq(CacheOps) /\ job.todo # <<>>
                          /\ job.pc = "load" => NeedsLoad(Op)
                          /\ 1 \in DOMAIN job.todo /\ Op = job.todo[1] /\ Op \in CacheOps
         /\ job.pc \in {"idle", "open", "find", "update", "trade", "load", "write"}
<1>1. CASE job = Idle
  <2>1. job.pc = "idle"
    BY <1>1 DEF Idle
  <2>2. job \notin Recording
    BY <2>1 DEF Recording
  <2> QED BY <1>1, <2>1, <2>2 DEF Refreshing
<1>2. CASE job \in Recording
  <2>1. /\ job.pc \in {"open", "find", "update", "trade"} /\ job.sym \in Symbols /\ job.id \in Event
        /\ job.closing \in Event /\ job.found \in RowType
    BY <1>2 DEF Recording
  <2>2. job # Idle /\ job.found.entry \in Event
    BY <2>1 DEF Idle, RowType
  <2> QED BY <1>2, <2>1, <2>2 DEF Refreshing
<1>3. CASE /\ Refreshing /\ job = [pc |-> job.pc, todo |-> job.todo, old |-> job.old]
           /\ job.todo \in Seq(CacheOps) /\ job.todo # <<>>
           /\ job.pc = "load" => NeedsLoad(Op)
  <2>1. job.pc \in {"load", "write"}
    BY <1>3 DEF Refreshing
  <2>2. job # Idle /\ job \notin Recording
    BY <2>1 DEF Idle, Recording
  <2>3. 1 \in DOMAIN job.todo /\ Op = job.todo[1] /\ Op \in CacheOps
    BY <1>3 DEF Op
  <2> QED BY <1>3, <2>1, <2>2, <2>3
<1> QED BY <1>1, <1>2, <1>3 DEF JobShape

(* The job goes on with a list of refreshes, or is over.                   *)
LEMMA CachingMoves ==
  \A todo \in Seq(CacheOps) : job' = Caching(todo) =>
    /\ todo = <<>> => job' = Idle /\ job'.pc = "idle"
    /\ todo # <<>> => /\ job' = [pc |-> job'.pc, todo |-> todo, old |-> <<>>]
                      /\ job'.todo = todo /\ job'.old = <<>> /\ job'.pc \in {"load", "write"}
                      /\ job'.pc = "load" <=> NeedsLoad(Head(todo))
<1> SUFFICES ASSUME NEW todo \in Seq(CacheOps), job' = Caching(todo)
             PROVE  /\ todo = <<>> => job' = Idle /\ job'.pc = "idle"
                    /\ todo # <<>> => /\ job' = [pc |-> job'.pc, todo |-> todo, old |-> <<>>]
                                      /\ job'.todo = todo /\ job'.old = <<>> /\ job'.pc \in {"load", "write"}
                                      /\ job'.pc = "load" <=> NeedsLoad(Head(todo))
  OBVIOUS
<1>1. CASE todo = <<>>
  BY <1>1 DEF Caching, Idle
<1>2. CASE todo # <<>>
  <2> DEFINE p == IF NeedsLoad(Head(todo)) THEN "load" ELSE "write"
  <2>1. job' = [pc |-> p, todo |-> todo, old |-> <<>>]
    BY <1>2 DEF Caching
  <2>2. p \in {"load", "write"} /\ (p = "load" <=> NeedsLoad(Head(todo)))
    OBVIOUS
  <2> HIDE DEF p
  <2> QED BY <1>2, <2>1, <2>2
<1> QED BY <1>1, <1>2

(* A job that goes on to cache operations that fit is sound.               *)
LEMMA CachingSound ==
  \A todo \in Seq(CacheOps) :
    job' = Caching(todo) /\ (\A j \in DOMAIN todo : OpFit(written', trades', convs', cycles', todo[j])) =>
      JobShape' /\ TodoSound'
<1> SUFFICES ASSUME NEW todo \in Seq(CacheOps), job' = Caching(todo),
                    \A j \in DOMAIN todo : OpFit(written', trades', convs', cycles', todo[j])
             PROVE  JobShape' /\ TodoSound'
  OBVIOUS
<1>1. CASE todo = <<>>
  <2>1. job' = Idle /\ job'.pc = "idle"
    BY <1>1, CachingMoves
  <2> QED BY <2>1 DEF JobShape, TodoSound, Refreshing
<1>2. CASE todo # <<>>
  <2>1. /\ job' = [pc |-> job'.pc, todo |-> todo, old |-> <<>>]
        /\ job'.todo = todo /\ job'.old = <<>> /\ job'.pc \in {"load", "write"}
        /\ job'.pc = "load" <=> NeedsLoad(Head(todo))
    BY <1>2, CachingMoves
  <2>2. JobShape'
    BY <1>2, <2>1 DEF JobShape, Refreshing, Op
  <2>3. TodoSound'
    BY <2>1 DEF TodoSound, Refreshing, OpSound, Op
  <2> QED BY <2>2, <2>3
<1> QED BY <1>1, <1>2

(* Tables only grow, and what is cached or queued is backed all the same.  *)
LEMMA TablesGrow ==
  ASSUME EngineInv, written \subseteq written', trades \subseteq trades', convs \subseteq convs', cycles \subseteq cycles',
         UNCHANGED <<cache, slots>>
  PROVE  CacheSound' /\ SlotsSound'
<1>1. \A k, x : Fit(written, trades, convs, cycles, k, x) => Fit(written', trades', convs', cycles', k, x)
  BY FitGrows
<1> QED BY <1>1 DEF EngineInv, CacheSound, SlotsSound, Sound

(* A failed write leaves the slots alone or fills one.                     *)
LEMMA FailureQueued ==
  ASSUME EngineShape
  PROVE  \A task \in CacheTasks : handleCacheFailure(task) =>
           /\ slots' \in [Slot -> {NoTask} \cup Tasks]
           /\ \/ slots' = slots
              \/ \E i \in Slot : /\ slots[i] = NoTask /\ slots'[i] # NoTask /\ slots'[i].do = task
                                 /\ \A k \in Slot : k # i => slots'[k] = slots[k]
<1> SUFFICES ASSUME NEW task \in CacheTasks, handleCacheFailure(task)
             PROVE  /\ slots' \in [Slot -> {NoTask} \cup Tasks]
                    /\ \/ slots' = slots
                       \/ \E i \in Slot : /\ slots[i] = NoTask /\ slots'[i] # NoTask /\ slots'[i].do = task
                                          /\ \A k \in Slot : k # i => slots'[k] = slots[k]
  OBVIOUS
<1> DEFINE r == [do |-> task, attempt |-> 1]
<1>1. slots \in [Slot -> {NoTask} \cup Tasks]
  BY DEF EngineShape
<1>2. r \in Tasks /\ r.do = task
  BY QueueAssumption DEF Tasks
<1>3. slots' = slots \/ \E i \in Slot : slots[i] = NoTask /\ slots' = [slots EXCEPT ![i] = r]
  BY DEF handleCacheFailure, Enqueue, Free
<1> HIDE DEF r
<1>4. CASE slots' = slots
  BY <1>1, <1>4
<1>5. ASSUME NEW i \in Slot, slots[i] = NoTask, slots' = [slots EXCEPT ![i] = r]
      PROVE  /\ slots' \in [Slot -> {NoTask} \cup Tasks]
             /\ \/ slots' = slots
                \/ /\ slots[i] = NoTask /\ slots'[i] # NoTask /\ slots'[i].do = task
                   /\ \A k \in Slot : k # i => slots'[k] = slots[k]
  <2>1. /\ slots' \in [Slot -> {NoTask} \cup Tasks] /\ slots'[i] = r
        /\ \A k \in Slot : k # i => slots'[k] = slots[k]
    BY <1>1, <1>2, <1>5
  <2>2. CASE r = NoTask
    BY <1>1, <1>5, <2>1, <2>2
  <2>3. CASE r # NoTask
    BY <1>2, <1>5, <2>1, <2>3
  <2> QED BY <2>2, <2>3
<1> QED BY <1>3, <1>4, <1>5

(* A slot is freed, or its task is there once more with a later attempt.   *)
LEMMA AttemptKeeps ==
  ASSUME EngineShape, NEW i \in Slot, slots[i] # NoTask, AttemptFails(i, slots[i].do)
  PROVE  /\ slots' \in [Slot -> {NoTask} \cup Tasks]
         /\ \A k \in Slot : k # i => slots'[k] = slots[k]
         /\ slots'[i] # NoTask => slots'[i].do = slots[i].do
<1> DEFINE task == slots[i].do
<1>1. slots \in [Slot -> {NoTask} \cup Tasks] /\ slots[i] \in Tasks /\ task \in CacheTasks
  BY DEF EngineShape, Tasks
<1>2. CASE Release(i)
  BY <1>1, <1>2 DEF Release
<1>3. CASE slots[i].attempt < MaxAttempts /\ slots' = [slots EXCEPT ![i] = [do |-> task, attempt |-> @.attempt + 1]]
  <2>1. slots[i].attempt \in 1..MaxAttempts
    BY <1>1 DEF Tasks
  <2>2. slots[i].attempt + 1 \in 1..MaxAttempts
    BY <1>3, <2>1, QueueAssumption
  <2>3. [do |-> task, attempt |-> slots[i].attempt + 1] \in Tasks
    BY <1>1, <2>2 DEF Tasks
  <2>4. slots' = [slots EXCEPT ![i] = [do |-> task, attempt |-> slots[i].attempt + 1]]
    BY <1>3
  <2> QED BY <1>1, <2>3, <2>4
<1> QED BY <1>2, <1>3 DEF AttemptFails

(* The tasks a failed refresh may leave behind.                            *)
LEMMA TaskFacts ==
  /\ \A w, t, v, y, k, x : Fit(w, t, v, y, k, x) =>
       /\ SetTask(k, x) \in CacheTasks /\ SetTask(k, x).mode = "set"
       /\ SetTask(k, x).key = k /\ SetTask(k, x).val = x
  /\ \A k \in Hashed : ExpireTask(k) \in CacheTasks /\ ExpireTask(k).mode = "expire" /\ ExpireTask(k).key = k
  /\ \A task \in CacheTasks : task.key \in Keys /\ task.mode \in {"set", "expire"}
<1>1. ASSUME NEW w, NEW t, NEW v, NEW y, NEW k, NEW x, Fit(w, t, v, y, k, x)
      PROVE  SetTask(k, x) \in CacheTasks
  <2>1. CASE k = "positions"
    <3>1. x \in Position
      BY <1>1, <2>1 DEF Fit
    <3>2. SetTask(k, x) \in [key : {"positions"}, mode : {"set"}, val : Position]
      BY <2>1, <3>1 DEF SetTask
    <3> QED BY <3>2 DEF CacheTasks, SetTasks
  <2>2. CASE k \in {"trades", "conversations"}
    <3>1. x \in Lists
      BY <1>1, <2>2 DEF Fit
    <3>2. SetTask(k, x) \in [key : {"trades", "conversations"}, mode : {"set"}, val : Lists]
      BY <2>2, <3>1 DEF SetTask
    <3> QED BY <3>2 DEF CacheTasks, SetTasks
  <2>3. CASE k \in {"decision", "analytics", "since", "leaderboard"}
    <3>1. x \in Event
      BY <1>1, <2>3 DEF Fit
    <3>2. SetTask(k, x) \in [key : {"decision", "analytics", "since", "leaderboard"}, mode : {"set"}, val : Event]
      BY <2>3, <3>1 DEF SetTask
    <3> QED BY <3>2 DEF CacheTasks, SetTasks
  <2> QED BY <1>1, <2>1, <2>2, <2>3 DEF Fit, Keys
<1>2. \A k, x : SetTask(k, x).mode = "set" /\ SetTask(k, x).key = k /\ SetTask(k, x).val = x
  BY DEF SetTask
<1>3. \A k \in Hashed : ExpireTask(k) \in CacheTasks /\ ExpireTask(k).mode = "expire" /\ ExpireTask(k).key = k
  BY DEF ExpireTask, CacheTasks
<1>4. ASSUME NEW task \in CacheTasks PROVE task.key \in Keys /\ task.mode \in {"set", "expire"}
  <2>1. CASE task \in SetTasks
    BY <2>1 DEF SetTasks, Keys
  <2>2. CASE task \in [key : Hashed, mode : {"expire"}]
    BY <2>2 DEF Hashed, Keys
  <2> QED BY <2>1, <2>2 DEF CacheTasks
<1> QED BY <1>1, <1>2, <1>3, <1>4

(* Lists of one and of two refreshes.                                      *)
LEMMA ShortLists ==
  /\ \A op \in CacheOps : /\ <<op>> \in Seq(CacheOps) /\ <<op>> # <<>> /\ Head(<<op>>) = op
                          /\ \A j \in DOMAIN <<op>> : j = 1 /\ <<op>>[j] = op
                          /\ <<op>> \o <<>> = <<op>>
  /\ \A a, b \in CacheOps :
       /\ <<a>> \o <<b>> \in Seq(CacheOps) /\ <<a>> \o <<b>> # <<>> /\ Head(<<a>> \o <<b>>) = a
       /\ \A j \in DOMAIN (<<a>> \o <<b>>) : \/ j = 1 /\ (<<a>> \o <<b>>)[j] = a
                                             \/ j = 2 /\ (<<a>> \o <<b>>)[j] = b
<1>1. ASSUME NEW op \in CacheOps
      PROVE  /\ <<op>> \in Seq(CacheOps) /\ <<op>> # <<>> /\ Head(<<op>>) = op
             /\ \A j \in DOMAIN <<op>> : j = 1 /\ <<op>>[j] = op
             /\ <<op>> \o <<>> = <<op>>
  OBVIOUS
<1>2. ASSUME NEW a \in CacheOps, NEW b \in CacheOps
      PROVE  /\ <<a>> \o <<b>> \in Seq(CacheOps) /\ <<a>> \o <<b>> # <<>> /\ Head(<<a>> \o <<b>>) = a
             /\ \A j \in DOMAIN (<<a>> \o <<b>>) : \/ j = 1 /\ (<<a>> \o <<b>>)[j] = a
                                                   \/ j = 2 /\ (<<a>> \o <<b>>)[j] = b
  <2> DEFINE x == <<a>>
             z == <<b>>
             q == x \o z
  <2>1. x \in Seq(CacheOps) /\ z \in Seq(CacheOps) /\ Len(x) = 1 /\ Len(z) = 1 /\ x[1] = a /\ z[1] = b
    OBVIOUS
  <2> HIDE DEF x, z
  <2>2. /\ q \in Seq(CacheOps) /\ Len(q) = Len(x) + Len(z)
        /\ \A i \in 1..(Len(x) + Len(z)) : q[i] = IF i <= Len(x) THEN x[i] ELSE z[i - Len(x)]
    BY <2>1, ConcatProperties
  <2> HIDE DEF q
  <2>3. Len(q) = 2 /\ \A i \in 1..2 : q[i] = IF i <= 1 THEN x[i] ELSE z[i - 1]
    BY <2>1, <2>2
  <2>4. 1 \in 1..2 /\ 2 \in 1..2 /\ \A j \in 1..2 : j = 1 \/ j = 2
    OBVIOUS
  <2>5. q[1] = a /\ q[2] = b
    BY <2>1, <2>3, <2>4
  <2>6. DOMAIN q = 1..2 /\ q # <<>>
    <3>1. DOMAIN q = 1..Len(q)
      BY <2>2
    <3>2. q # <<>>
      BY <2>3
    <3> QED BY <2>3, <3>1, <3>2
  <2>7. Head(q) = a
    BY <2>2, <2>5, <2>6
  <2>8. q = <<a>> \o <<b>>
    BY DEF q, x, z
  <2> QED BY <2>2, <2>4, <2>5, <2>6, <2>7, <2>8
<1> QED BY <1>1, <1>2

(* The job goes on with one refresh or two.                                *)
LEMMA ShortJobs ==
  /\ \A op \in CacheOps :
       OpFit(written', trades', convs', cycles', op) /\ job' = Caching(<<op>>) => JobShape' /\ TodoSound'
  /\ \A a, b \in CacheOps :
       /\ OpFit(written', trades', convs', cycles', a) /\ OpFit(written', trades', convs', cycles', b)
       /\ job' = Caching(<<a>> \o <<b>>)
       => JobShape' /\ TodoSound'
<1>1. ASSUME NEW op \in CacheOps, OpFit(written', trades', convs', cycles', op), job' = Caching(<<op>>)
      PROVE  JobShape' /\ TodoSound'
  <2> DEFINE q == <<op>>
  <2>1. q \in Seq(CacheOps) /\ \A j \in DOMAIN q : q[j] = op
    BY ShortLists
  <2>2. job' = Caching(q)
    BY <1>1
  <2> HIDE DEF q
  <2>3. \A j \in DOMAIN q : OpFit(written', trades', convs', cycles', q[j])
    BY <1>1, <2>1
  <2> QED BY <2>1, <2>2, <2>3, CachingSound
<1>2. ASSUME NEW a \in CacheOps, NEW b \in CacheOps,
             OpFit(written', trades', convs', cycles', a), OpFit(written', trades', convs', cycles', b),
             job' = Caching(<<a>> \o <<b>>)
      PROVE  JobShape' /\ TodoSound'
  <2> DEFINE q == <<a>> \o <<b>>
  <2>1. q \in Seq(CacheOps) /\ \A j \in DOMAIN q : q[j] = a \/ q[j] = b
    BY ShortLists
  <2>2. job' = Caching(q)
    BY <1>2
  <2> HIDE DEF q
  <2>3. \A j \in DOMAIN q : OpFit(written', trades', convs', cycles', q[j])
    BY <1>2, <2>1
  <2> QED BY <2>1, <2>2, <2>3, CachingSound
<1> QED BY <1>1, <1>2

(* The operations the handlers ask for.                                    *)
LEMMA MadeOps ==
  ASSUME NEW n \in Event
  PROVE  /\ \A s \in Symbols : /\ cacheOpenPosition(s, n) \in PositionOps /\ cacheOpenPosition(s, n).val = n
                               /\ cacheOpenPosition(s, n).sym = s /\ cacheOpenPosition(s, n).key = "positions"
         /\ appendRecentTrade(n) \in ListOps /\ appendRecentTrade(n).key = "trades" /\ appendRecentTrade(n).val = n
         /\ cacheConversationID(n) \in ListOps /\ cacheConversationID(n).key = "conversations" /\ cacheConversationID(n).val = n
         /\ cacheDecisionSummary(n) \in PlainOps /\ cacheDecisionSummary(n).key = "decision" /\ cacheDecisionSummary(n).val = n
  BY DEF cacheOpenPosition, appendRecentTrade, cacheConversationID, cacheDecisionSummary, PositionOps, ListOps, PlainOps

(* The operations the handlers make fit the tables they are made from.     *)
LEMMA MadeFit ==
  ASSUME NEW w, NEW t, NEW v, NEW y, NEW n \in Event
  PROVE  /\ \A s \in Symbols : n \in w \cup {0} => OpFit(w, t, v, y, cacheOpenPosition(s, n))
         /\ (\E r \in t : r.id = n) => OpFit(w, t, v, y, appendRecentTrade(n))
         /\ n \in v => OpFit(w, t, v, y, cacheConversationID(n))
         /\ n \in y => OpFit(w, t, v, y, cacheDecisionSummary(n))
<1>1. \A s \in Symbols : n \in w \cup {0} => OpFit(w, t, v, y, cacheOpenPosition(s, n))
  BY MadeOps, LoadKinds DEF OpFit, CacheOps
<1>2. (\E r \in t : r.id = n) => OpFit(w, t, v, y, appendRecentTrade(n))
  BY MadeOps, LoadKinds, OpKinds DEF OpFit, CacheOps
<1>3. n \in v => OpFit(w, t, v, y, cacheConversationID(n))
  BY MadeOps, LoadKinds, OpKinds DEF OpFit, CacheOps
<1>4. n \in y => OpFit(w, t, v, y, cacheDecisionSummary(n))
  <2>1. n \in y => Fit(w, t, v, y, "decision", n)
    BY DEF Fit, Keys
  <2> QED BY <2>1, MadeOps, LoadKinds, OpKinds DEF OpFit, CacheOps
<1> QED BY <1>1, <1>2, <1>3, <1>4

-------------------------------------------------------------------------------
(* What is cached.                                                         *)

(* An empty value is backed by any tables.                                 *)
LEMMA EmptyFits == \A k \in Keys : \A w, t, v, y : Fit(w, t, v, y, k, Empty(k))
<1> SUFFICES ASSUME NEW k \in Keys, NEW w, NEW t, NEW v, NEW y PROVE Fit(w, t, v, y, k, Empty(k))
  OBVIOUS
<1>1. CASE k = "positions"
  BY <1>1, EventFacts DEF Empty, Fit, NoPositions, Position
<1>2. CASE k \in {"trades", "conversations"}
  <2>1. Empty(k) = <<>>
    BY <1>2 DEF Empty
  <2>2. DOMAIN <<>> = {}
    OBVIOUS
  <2> QED BY <1>2, <2>1, <2>2, ListFacts DEF Fit
<1>3. CASE k \in {"decision", "analytics", "since", "leaderboard"}
  <2>1. Empty(k) = 0
    BY <1>3 DEF Empty
  <2> QED BY <1>3, <2>1, EventFacts DEF Fit
<1> QED BY <1>1, <1>2, <1>3 DEF Keys

(* Empty tables and an empty cache.                                        *)
LEMMA EngineInitHolds == EngineInit => EngineInv
<1> SUFFICES ASSUME EngineInit PROVE EngineInv
  OBVIOUS
<1>1. NoRow \in RowType /\ NoPositions \in Position
  BY EventFacts DEF NoRow, RowType, NoPositions, Position
<1>2. EngineShape
  <2>1. RowsBacked(rows, written)
    BY <1>1 DEF EngineInit, RowsBacked, NoRow
  <2> QED BY <1>1, <2>1, EventFacts DEF EngineInit, EngineShape, QueueInit
<1>3. job = Idle /\ job.pc = "idle"
  BY DEF EngineInit, Idle
<1>4. JobShape /\ TodoSound
  BY <1>3 DEF JobShape, TodoSound, Refreshing
<1>5. CacheSound
  BY EmptyFits DEF EngineInit, CacheSound, Sound
<1>6. SlotsSound
  BY DEF EngineInit, QueueInit, SlotsSound
<1> QED BY <1>2, <1>4, <1>5, <1>6 DEF EngineInv

(* The tables, the cache and the queue stay as they are.                   *)
LEMMA NothingStored ==
  ASSUME EngineInv, UNCHANGED <<tables, cache, slots>>
  PROVE  /\ CacheSound' /\ SlotsSound'
         /\ UNCHANGED job => JobShape' /\ TodoSound'
<1>1. UNCHANGED <<rows, written, trades, cycles, convs, cache, slots>>
  BY DEF tables
<1>2. CacheSound' /\ SlotsSound'
  BY <1>1, TablesGrow
<1>3. UNCHANGED job => JobShape' /\ TodoSound'
  BY <1>1 DEF EngineInv, JobShape, TodoSound, OpSound, Sound, Refreshing, Op
<1> QED BY <1>2, <1>3

(* A new event has a number of its own.                                    *)
LEMMA EventNumber ==
  ASSUME EngineShape, NextEvent
  PROVE  events + 1 \in Event /\ events' = events + 1 /\ events \in Nat /\ job = Idle
  BY EngineAssumption DEF EngineShape, NextEvent, Event

(* The job of a new event.                                                 *)
LEMMA Started ==
  \A pc \in {"open", "find"}, s \in Symbols, n \in Event, c \in Event : At(pc, s, n, c) \in Recording
  BY EventFacts DEF At, Recording, RowType, NoRow

(* A recorded event is in one of its steps: nothing to refresh yet.        *)
LEMMA RecordingQuiet ==
  job' \in Recording => JobShape' /\ TodoSound' /\ job'.pc \in {"open", "find", "update", "trade"}
<1> SUFFICES ASSUME job' \in Recording PROVE JobShape' /\ TodoSound' /\ job'.pc \in {"open", "find", "update", "trade"}
  OBVIOUS
<1>1. job'.pc \in {"open", "find", "update", "trade"}
  BY DEF Recording
<1> QED BY <1>1 DEF JobShape, TodoSound, Refreshing

(* Without a job there is nothing to do.                                   *)
LEMMA IdleQuiet == job' = Idle => JobShape' /\ TodoSound'
<1> SUFFICES ASSUME job' = Idle PROVE JobShape' /\ TodoSound'
  OBVIOUS
<1>1. job'.pc = "idle"
  BY DEF Idle
<1> QED BY <1>1 DEF JobShape, TodoSound, Refreshing

(* The Manager's events, and the changes it does not report.               *)
LEMMA BookSteps ==
  ASSUME EngineInv, NEW s \in Symbols, RecordOpen(s) \/ RecordClose(s) \/ Released(s) \/ Adopted(s)
  PROVE  EngineInv'
<1>1. EngineShape /\ held \in Position /\ 0 \in Event
  BY EventFacts DEF EngineInv, EngineShape
<1>2. UNCHANGED <<tables, cache, tainted, slots>>
  BY DEF RecordOpen, RecordClose, Released, Adopted
<1>3. CacheSound' /\ SlotsSound' /\ (UNCHANGED job => JobShape' /\ TodoSound')
  BY <1>2, NothingStored
<1>4. ASSUME events' \in Event, held' \in Position PROVE EngineShape'
  BY <1>1, <1>2, <1>4 DEF EngineShape, tables
<1>5. CASE RecordOpen(s)
  <2>1. events + 1 \in Event /\ events' = events + 1
    BY <1>1, <1>5, EventNumber DEF RecordOpen
  <2>2. held' \in Position
    BY <1>1, <1>5, <2>1 DEF RecordOpen, Position
  <2>3. job' \in Recording
    BY <1>5, <1>1, <2>1, Started DEF RecordOpen
  <2> QED BY <1>3, <1>4, <2>1, <2>2, <2>3, RecordingQuiet DEF EngineInv
<1>6. CASE RecordClose(s)
  <2>1. events + 1 \in Event /\ events' = events + 1
    BY <1>1, <1>6, EventNumber DEF RecordClose
  <2>2. held' \in Position /\ held[s] \in Event
    BY <1>1, <1>6, <2>1 DEF RecordClose, Position
  <2>3. job' \in Recording
    BY <1>6, <2>1, <2>2, Started DEF RecordClose
  <2> QED BY <1>3, <1>4, <2>1, <2>2, <2>3, RecordingQuiet DEF EngineInv
<1>7. CASE Released(s)
  <2>1. held' \in Position /\ UNCHANGED <<events, job>> /\ events \in Event
    BY <1>1, <1>7 DEF Released, Position, EngineShape
  <2> QED BY <1>3, <1>4, <2>1 DEF EngineInv
<1>8. CASE Adopted(s)
  <2>1. events + 1 \in Event /\ events' = events + 1
    BY <1>1, <1>8, EventNumber DEF Adopted
  <2>2. held' \in Position /\ UNCHANGED job
    BY <1>1, <1>8, <2>1 DEF Adopted, Position
  <2> QED BY <1>3, <1>4, <2>1, <2>2 DEF EngineInv
<1> QED BY <1>5, <1>6, <1>7, <1>8

(* The analytics refresh touches neither positions nor lists.              *)
LEMMA AnalyticsOps ==
  /\ analyticsOps \in Seq(CacheOps) /\ analyticsOps # <<>> /\ Head(analyticsOps) \in PlainOps
  /\ \A j \in DOMAIN analyticsOps : analyticsOps[j] \in PlainOps /\ analyticsOps[j].key # "positions"
  /\ \A w, t, v, y : \A j \in DOMAIN analyticsOps : OpFit(w, t, v, y, analyticsOps[j])
<1> DEFINE a == [key |-> "analytics", val |-> 0]
           b == [key |-> "since", val |-> 0]
           c == [key |-> "leaderboard", val |-> 0]
<1>1. a \in PlainOps /\ b \in PlainOps /\ c \in PlainOps /\ a \in CacheOps /\ b \in CacheOps /\ c \in CacheOps
  BY EventFacts DEF PlainOps, CacheOps
<1>2. a.key = "analytics" /\ b.key = "since" /\ c.key = "leaderboard" /\ a.val = 0 /\ b.val = 0 /\ c.val = 0
  OBVIOUS
<1> HIDE DEF a, b, c
<1>3. analyticsOps = <<a, b, c>>
  BY DEF analyticsOps, a, b, c
<1>4. <<a, b, c>> \in Seq(CacheOps) /\ <<a, b, c>> # <<>> /\ Head(<<a, b, c>>) = a /\ DOMAIN <<a, b, c>> = 1..3
  BY <1>1
<1>5. \A j \in DOMAIN <<a, b, c>> : <<a, b, c>>[j] \in {a, b, c}
  <2>1. \A j \in 1..3 : j = 1 \/ j = 2 \/ j = 3
    OBVIOUS
  <2>2. <<a, b, c>>[1] = a /\ <<a, b, c>>[2] = b /\ <<a, b, c>>[3] = c
    OBVIOUS
  <2> QED BY <1>4, <2>1, <2>2
<1>6. \A w, t, v, y : \A op \in {a, b, c} : OpFit(w, t, v, y, op)
  <2> SUFFICES ASSUME NEW w, NEW t, NEW v, NEW y, NEW op \in {a, b, c} PROVE OpFit(w, t, v, y, op)
    OBVIOUS
  <2>1. op \in PlainOps /\ op \in CacheOps /\ op.key \in {"analytics", "since", "leaderboard"} /\ op.val = 0
    BY <1>1, <1>2
  <2>2. Fit(w, t, v, y, op.key, op.val)
    BY <2>1, EventFacts DEF Fit, Keys
  <2>3. op \notin PositionOps /\ op \notin ListOps /\ op \notin HydrateOps
    BY <2>1, LoadKinds
  <2> QED BY <2>1, <2>2, <2>3 DEF OpFit
<1>7. \A op \in {a, b, c} : op \in PlainOps /\ op.key # "positions"
  BY <1>1, <1>2
<1> QED BY <1>1, <1>3, <1>4, <1>5, <1>6, <1>7

(* Decision cycles, conversations and analytics.                           *)
LEMMA SideSteps ==
  ASSUME EngineInv, RecordDecisionCycle \/ RecordConversation \/ RecordAnalytics
  PROVE  EngineInv'
<1>1. EngineShape
  BY DEF EngineInv
<1>2. events + 1 \in Event /\ events' = events + 1
  BY <1>1, EventNumber DEF RecordDecisionCycle, RecordConversation, RecordAnalytics, SideEvent
<1>3. UNCHANGED <<held, rows, written, trades, cache, tainted, slots>>
  BY DEF RecordDecisionCycle, RecordConversation, RecordAnalytics, tables
<1>4. CASE RecordDecisionCycle
  <2>1. cycles' \in {cycles, cycles \cup {events + 1}} /\ convs' = convs
    BY <1>4 DEF RecordDecisionCycle
  <2>2. EngineShape'
    BY <1>1, <1>2, <1>3, <2>1 DEF EngineShape
  <2>3. CacheSound' /\ SlotsSound'
    BY <1>3, <2>1, TablesGrow
  <2>4. JobShape' /\ TodoSound'
    <3>1. CASE job' = Idle
      BY <3>1, IdleQuiet
    <3>2. CASE cycles' = cycles \cup {events + 1} /\ job' = Caching(<<cacheDecisionSummary(events + 1)>>)
      <4> DEFINE op == cacheDecisionSummary(events + 1)
      <4>1. op \in CacheOps
        BY <1>2, MadeOps DEF CacheOps
      <4>2. OpFit(written', trades', convs', cycles', op)
        <5>1. events + 1 \in cycles'
          BY <3>2
        <5> QED BY <1>2, <5>1, MadeFit
      <4>3. job' = Caching(<<op>>)
        BY <3>2
      <4> HIDE DEF op
      <4> QED BY <4>1, <4>2, <4>3, ShortJobs
    <3> QED BY <1>4, <3>1, <3>2 DEF RecordDecisionCycle
  <2> QED BY <2>2, <2>3, <2>4 DEF EngineInv
<1>5. CASE RecordConversation
  <2>1. convs' \in {convs, convs \cup {events + 1}} /\ cycles' = cycles
    BY <1>5 DEF RecordConversation
  <2>2. EngineShape'
    BY <1>1, <1>2, <1>3, <2>1 DEF EngineShape
  <2>3. CacheSound' /\ SlotsSound'
    BY <1>3, <2>1, TablesGrow
  <2>4. JobShape' /\ TodoSound'
    <3>1. CASE job' = Idle
      BY <3>1, IdleQuiet
    <3>2. CASE convs' = convs \cup {events + 1} /\ job' = Caching(<<cacheConversationID(events + 1)>>)
      <4> DEFINE op == cacheConversationID(events + 1)
      <4>1. op \in CacheOps
        BY <1>2, MadeOps DEF CacheOps
      <4>2. OpFit(written', trades', convs', cycles', op)
        <5>1. events + 1 \in convs'
          BY <3>2
        <5> QED BY <1>2, <5>1, MadeFit
      <4>3. job' = Caching(<<op>>)
        BY <3>2
      <4> HIDE DEF op
      <4> QED BY <4>1, <4>2, <4>3, ShortJobs
    <3> QED BY <1>5, <3>1, <3>2 DEF RecordConversation
  <2> QED BY <2>2, <2>3, <2>4 DEF EngineInv
<1>6. CASE RecordAnalytics
  <2>1. UNCHANGED <<tables, cycles, convs>> /\ job' = Caching(analyticsOps)
    BY <1>6 DEF RecordAnalytics, tables
  <2>2. EngineShape'
    BY <1>1, <1>2, <1>3, <2>1 DEF EngineShape
  <2>3. CacheSound' /\ SlotsSound'
    BY <1>3, <2>1, NothingStored
  <2>4. JobShape' /\ TodoSound'
    BY <2>1, AnalyticsOps, CachingSound
  <2> QED BY <2>2, <2>3, <2>4 DEF EngineInv
<1> QED BY <1>4, <1>5, <1>6

(* An update leaves rows that a recorded event backs.                      *)
LEMMA UpdatedRow ==
  ASSUME EngineShape, JobShape, job \in Recording, UpdateRow
  PROVE  RowsBacked(rows', written)
<1>1. RowsBacked(rows, written) /\ job.sym \in Symbols /\ job.found.entry \in Event
  BY JobFacts DEF EngineShape
<1> DEFINE c == [status |-> "closed", entry |-> job.found.entry]
<1>2. NoRow \in RowType /\ c \in RowType /\ NoRow.status = "none" /\ c.status = "closed"
  BY <1>1, EventFacts DEF NoRow, RowType
<1>3. rows' = [rows EXCEPT ![job.sym] = IF @ = NoRow THEN NoRow ELSE c]
  BY DEF UpdateRow
<1> HIDE DEF c
<1>4. \A s \in Symbols : rows'[s] = rows[s] \/ rows'[s] = NoRow \/ rows'[s] = c
  BY <1>1, <1>3 DEF RowsBacked
<1>5. rows' \in [Symbols -> RowType]
  BY <1>1, <1>2, <1>3 DEF RowsBacked
<1> QED BY <1>1, <1>2, <1>4, <1>5 DEF RowsBacked

(* The statements of an open and of a close.                               *)
LEMMA TableSteps ==
  ASSUME EngineInv, OpenStored \/ OpenFails \/ FindRow \/ CloseStored \/ insertTrade \/ CloseFails
  PROVE  EngineInv'
<1>1. EngineShape /\ JobShape
  BY DEF EngineInv
<1>2. job \in Recording
  BY <1>1, JobFacts DEF OpenStored, OpenFails, FindRow, CloseStored, insertTrade, CloseFails
<1>3. job.sym \in Symbols /\ job.id \in Event /\ job.closing \in Event /\ job.found \in RowType /\ job.found.entry \in Event
  BY <1>1, <1>2, JobFacts
<1>4. UNCHANGED <<events, held, cycles, convs, cache, slots>>
  BY DEF OpenStored, OpenFails, FindRow, CloseStored, insertTrade, CloseFails, tables
<1>5. tainted' \in BOOLEAN
  BY <1>1 DEF OpenStored, OpenFails, FindRow, CloseStored, insertTrade, CloseFails, EngineShape
<1>6. ASSUME RowsBacked(rows', written'), written' \in {written, written \cup {job.id}}, trades' \in {trades, trades \cup {Trade}},
             JobShape' /\ TodoSound'
      PROVE  EngineInv'
  <2>1. Trade \in [id : Event, closed : Event, entry : Event]
    BY <1>3 DEF Trade
  <2>2. EngineShape'
    BY <1>1, <1>3, <1>4, <1>5, <1>6, <2>1 DEF EngineShape
  <2>3. CacheSound' /\ SlotsSound'
    BY <1>4, <1>6, TablesGrow
  <2> QED BY <1>6, <2>2, <2>3 DEF EngineInv
<1>7. UpsertCommits => RowsBacked(rows', written') /\ written' = written \cup {job.id}
  <2> DEFINE o == [status |-> "open", entry |-> job.id]
  <2>1. o \in RowType /\ o.entry = job.id
    BY <1>3 DEF RowType
  <2>2. UpsertCommits => rows' = [rows EXCEPT ![job.sym] = o] /\ written' = written \cup {job.id}
    BY DEF UpsertCommits, UpsertRow
  <2> HIDE DEF o
  <2> QED BY <1>1, <1>3, <2>1, <2>2 DEF RowsBacked, EngineShape
<1>8. RowsBacked(rows, written)
  BY <1>1 DEF EngineShape
<1>9. \A n \in Event : cacheOpenPosition(job.sym, n) \in CacheOps /\ appendRecentTrade(n) \in CacheOps
  BY <1>3, MadeOps DEF CacheOps
<1>10. OpFit(written', trades', convs', cycles', cacheOpenPosition(job.sym, 0))
  BY <1>3, EventFacts, MadeFit
<1>11. CASE OpenStored
  <2>1. UpsertCommits /\ UNCHANGED trades /\ job' = Caching(<<cacheOpenPosition(job.sym, job.id)>>)
    BY <1>11 DEF OpenStored
  <2>2. job.id \in written'
    BY <1>7, <2>1
  <2>3. OpFit(written', trades', convs', cycles', cacheOpenPosition(job.sym, job.id))
    BY <1>3, <2>2, MadeFit
  <2>4. JobShape' /\ TodoSound'
    BY <1>3, <1>9, <2>1, <2>3, ShortJobs
  <2> QED BY <1>6, <1>7, <2>1, <2>4
<1>12. CASE OpenFails
  <2>1. JobShape' /\ TodoSound'
    BY <1>12, IdleQuiet DEF OpenFails
  <2>2. UNCHANGED trades /\ (UpsertCommits \/ UNCHANGED <<rows, written>>)
    BY <1>12 DEF OpenFails
  <2> QED BY <1>6, <1>7, <1>8, <2>1, <2>2
<1>13. CASE FindRow
  <2>1. UNCHANGED <<rows, written, trades>> /\ job' = [job EXCEPT !.pc = "update", !.found = rows[job.sym]]
    BY <1>13 DEF FindRow, tables
  <2>2. rows[job.sym] \in RowType
    BY <1>3, <1>8 DEF RowsBacked
  <2>3. job' \in Recording
    BY <1>2, <2>1, <2>2 DEF Recording
  <2> QED BY <1>6, <1>8, <2>1, <2>3, RecordingQuiet
<1>14. CASE CloseStored
  <2>1. UpdateRow /\ UNCHANGED <<written, trades>>
    BY <1>14 DEF CloseStored
  <2>2. RowsBacked(rows', written)
    BY <1>1, <1>2, <2>1, UpdatedRow
  <2>3. JobShape' /\ TodoSound'
    <3>1. CASE job.found = NoRow
      <4>1. job' = Caching(CloseOps(job.sym, <<>>))
        BY <1>14, <3>1 DEF CloseStored
      <4>2. CloseOps(job.sym, <<>>) = <<cacheOpenPosition(job.sym, 0)>>
        BY <1>9, EventFacts, ShortLists DEF CloseOps
      <4> QED BY <1>9, <1>10, <4>1, <4>2, EventFacts, ShortJobs
    <3>2. CASE job.found # NoRow
      <4>1. job' = [job EXCEPT !.pc = "trade"]
        BY <1>14, <3>2 DEF CloseStored
      <4>2. job' \in Recording
        BY <1>2, <4>1 DEF Recording
      <4> QED BY <4>2, RecordingQuiet
    <3> QED BY <3>1, <3>2
  <2> QED BY <1>6, <2>1, <2>2, <2>3
<1>15. CASE insertTrade
  <2>1. UNCHANGED <<rows, written>> /\ trades' = trades \cup {Trade}
    BY <1>15 DEF insertTrade
  <2>2. job' = Caching(<<cacheOpenPosition(job.sym, 0)>> \o <<appendRecentTrade(job.id)>>)
    BY <1>15 DEF insertTrade, CloseOps
  <2>3. Trade \in trades' /\ Trade.id = job.id
    BY <2>1 DEF Trade
  <2>4. OpFit(written', trades', convs', cycles', appendRecentTrade(job.id))
    BY <1>3, <2>3, MadeFit
  <2>5. JobShape' /\ TodoSound'
    BY <1>3, <1>9, <1>10, <2>2, <2>4, EventFacts, ShortJobs
  <2> QED BY <1>6, <1>8, <2>1, <2>5
<1>16. CASE CloseFails
  <2>1. JobShape' /\ TodoSound'
    BY <1>16, IdleQuiet DEF CloseFails
  <2>2. /\ UNCHANGED written
        /\ UNCHANGED <<rows, trades>> \/ (UpdateRow /\ UNCHANGED trades) \/ (trades' = trades \cup {Trade} /\ UNCHANGED rows)
    BY <1>16 DEF CloseFails
  <2>3. UpdateRow => RowsBacked(rows', written)
    BY <1>1, <1>2, UpdatedRow
  <2> QED BY <1>6, <1>8, <2>1, <2>2, <2>3
<1> QED BY <1>11, <1>12, <1>13, <1>14, <1>15, <1>16

(* The refreshes that are left.                                            *)
LEMMA Rest ==
  ASSUME EngineInv, Refreshing
  PROVE  /\ Tail(job.todo) \in Seq(CacheOps)
         /\ \A j \in DOMAIN Tail(job.todo) : j + 1 \in DOMAIN job.todo /\ j + 1 # 1 /\ Tail(job.todo)[j] = job.todo[j + 1]
         /\ OpSound(Op) /\ Op \in CacheOps /\ Op.key \in Keys
         /\ job.pc = "write" => Sound(Op.key, Value)
<1>1. JobShape /\ TodoSound
  BY DEF EngineInv
<1>2. job.todo \in Seq(CacheOps) /\ job.todo # <<>> /\ 1 \in DOMAIN job.todo /\ Op = job.todo[1] /\ Op \in CacheOps
  BY <1>1, JobFacts
<1>3. OpSound(Op) /\ Op.key \in Keys
  BY <1>1, <1>2, OpKinds DEF TodoSound
<1> DEFINE q == job.todo
<1>4. Tail(q) \in Seq(CacheOps)
  BY <1>2
<1>5. \A j \in DOMAIN Tail(q) : j + 1 \in DOMAIN q /\ j + 1 # 1 /\ Tail(q)[j] = q[j + 1]
  <2>1. Len(q) \in Nat /\ Len(q) # 0 /\ Len(Tail(q)) = Len(q) - 1 /\ \A i \in 1..(Len(q) - 1) : Tail(q)[i] = q[i + 1]
    BY <1>2
  <2>2. DOMAIN Tail(q) = 1..(Len(q) - 1) /\ DOMAIN q = 1..Len(q)
    BY <1>2, <1>4, <2>1
  <2>3. \A j \in 1..(Len(q) - 1) : j + 1 \in 1..Len(q) /\ j + 1 # 1
    BY <2>1
  <2> QED BY <2>1, <2>2, <2>3
<1>6. ASSUME job.pc = "write" PROVE Sound(Op.key, Value)
  <2>1. NeedsLoad(Op) => Sound(Op.key, job.old)
    BY <1>1, <1>6 DEF TodoSound
  <2>2. \A op : OpFit(written, trades, convs, cycles, op) =>
          \A old : (NeedsLoad(op) => Fit(written, trades, convs, cycles, op.key, old)) =>
            Fit(written, trades, convs, cycles, op.key, Payload(op, old))
    BY PayloadFits
  <2> QED BY <1>3, <2>1, <2>2 DEF OpSound, Sound, Value
<1> QED BY <1>2, <1>3, <1>4, <1>5, <1>6

(* A job with one operation less is still sound.                           *)
LEMMA DoneSound ==
  ASSUME EngineInv, Refreshing, Done, UNCHANGED records
  PROVE  JobShape' /\ TodoSound'
<1> DEFINE q == Tail(job.todo)
<1>1. q \in Seq(CacheOps) /\ \A j \in DOMAIN q : j + 1 \in DOMAIN job.todo /\ q[j] = job.todo[j + 1]
  BY Rest
<1>2. \A j \in DOMAIN job.todo : OpFit(written, trades, convs, cycles, job.todo[j])
  BY DEF EngineInv, TodoSound, OpSound
<1>3. UNCHANGED <<written, trades, convs, cycles>> /\ job' = Caching(q)
  BY DEF records, tables, Done
<1> HIDE DEF q
<1>4. \A j \in DOMAIN q : OpFit(written', trades', convs', cycles', q[j])
  BY <1>1, <1>2, <1>3
<1> QED BY <1>1, <1>3, <1>4, CachingSound

(* A sound value is put into the cache.                                    *)
LEMMA CachePut ==
  ASSUME EngineInv, UNCHANGED records
  PROVE  \A k, x : Sound(k, x) /\ cache' \in {cache, [cache EXCEPT ![k] = x]} =>
           CacheSound' /\ cache' = [c \in Keys |-> cache'[c]]
<1> SUFFICES ASSUME NEW k, NEW x, Sound(k, x), cache' \in {cache, [cache EXCEPT ![k] = x]}
             PROVE  CacheSound' /\ cache' = [c \in Keys |-> cache'[c]]
  OBVIOUS
<1>1. cache = [c \in Keys |-> cache[c]] /\ UNCHANGED <<written, trades, convs, cycles>> /\ k \in Keys
  BY DEF EngineInv, EngineShape, records, tables, Sound, Fit
<1>2. \A c \in Keys : Fit(written, trades, convs, cycles, c, cache[c])
  BY DEF EngineInv, CacheSound, Sound
<1>3. Fit(written, trades, convs, cycles, k, x)
  BY DEF Sound
<1>4. DOMAIN cache = Keys
  BY <1>1
<1>5. DOMAIN cache' = Keys /\ \A c \in Keys : cache'[c] = cache[c] \/ (c = k /\ cache'[c] = x)
  BY <1>1, <1>4
<1>6. \A c \in Keys : Fit(written', trades', convs', cycles', c, cache'[c])
  BY <1>1, <1>2, <1>3, <1>5
<1>7. cache' = [c \in Keys |-> cache'[c]]
  <2>1. cache' = cache \/ cache' = [cache EXCEPT ![k] = x]
    OBVIOUS
  <2>2. CASE cache' = cache
    BY <1>1, <2>2
  <2>3. CASE cache' = [cache EXCEPT ![k] = x]
    <3> DEFINE f == [c \in Keys |-> cache[c]]
    <3>1. [f EXCEPT ![k] = x] = [c \in Keys |-> [f EXCEPT ![k] = x][c]]
      OBVIOUS
    <3>2. cache = f
      BY <1>1
    <3> HIDE DEF f
    <3> QED BY <2>3, <3>1, <3>2
  <2> QED BY <2>1, <2>2, <2>3
<1> QED BY <1>6, <1>7 DEF CacheSound, Sound

(* The queue keeps its sound writes when it is given one more, or none.    *)
LEMMA QueuePut ==
  ASSUME EngineInv, UNCHANGED records
  PROVE  \A task \in CacheTasks :
           handleCacheFailure(task) /\ (task.mode = "set" => Sound(task.key, task.val)) =>
             SlotsSound' /\ slots' \in [Slot -> {NoTask} \cup Tasks]
<1> SUFFICES ASSUME NEW task \in CacheTasks, handleCacheFailure(task), task.mode = "set" => Sound(task.key, task.val)
             PROVE  SlotsSound' /\ slots' \in [Slot -> {NoTask} \cup Tasks]
  OBVIOUS
<1>1. UNCHANGED <<written, trades, convs, cycles>>
  BY DEF records, tables
<1>2. /\ slots' \in [Slot -> {NoTask} \cup Tasks]
      /\ \/ slots' = slots
         \/ \E i \in Slot : /\ slots[i] = NoTask /\ slots'[i] # NoTask /\ slots'[i].do = task
                            /\ \A k \in Slot : k # i => slots'[k] = slots[k]
  BY FailureQueued DEF EngineInv
<1>3. \A i \in Slot : slots'[i] = slots[i] \/ slots'[i].do = task
  BY <1>2
<1>4. SlotsSound
  BY DEF EngineInv
<1>5. SlotsSound'
  BY <1>1, <1>3, <1>4 DEF SlotsSound, Sound
<1> QED BY <1>2, <1>5

(* The refreshes.                                                          *)
LEMMA RefreshSteps ==
  ASSUME EngineInv, LoadCache \/ LoadFails \/ WriteCache \/ WriteFails
  PROVE  EngineInv'
<1>1. EngineShape /\ JobShape /\ Refreshing /\ UNCHANGED records
  BY DEF EngineInv, LoadCache, LoadFails, WriteCache, WriteFails, Refreshing
<1>2. tainted' \in BOOLEAN
  BY <1>1 DEF LoadCache, LoadFails, WriteCache, WriteFails, EngineShape
<1>3. ASSUME slots' \in [Slot -> {NoTask} \cup Tasks], cache' = [c \in Keys |-> cache'[c]] PROVE EngineShape'
  BY <1>1, <1>2, <1>3 DEF EngineShape, records, tables
<1>4. slots \in [Slot -> {NoTask} \cup Tasks] /\ cache = [c \in Keys |-> cache[c]]
  BY <1>1 DEF EngineShape
<1>5. CASE LoadCache
  <2>1. UNCHANGED <<tables, cache, slots>> /\ UNCHANGED <<written, trades, convs, cycles>>
    BY <1>1, <1>5 DEF LoadCache, records, tables
  <2>2. EngineShape' /\ CacheSound' /\ SlotsSound'
    BY <1>3, <1>4, <2>1, NothingStored
  <2>3. /\ job = [pc |-> job.pc, todo |-> job.todo, old |-> job.old] /\ job.todo \in Seq(CacheOps) /\ job.todo # <<>>
        /\ NeedsLoad(Op)
    BY <1>1, <1>5, JobFacts DEF LoadCache
  <2>4. job' = [pc |-> "write", todo |-> job.todo, old |-> cache[Op.key]]
    BY <1>5 DEF LoadCache
  <2>5. job'.pc = "write" /\ job'.todo = job.todo /\ job'.old = cache[Op.key] /\ Op' = Op
    BY <2>4 DEF Op
  <2>6. JobShape'
    BY <2>3, <2>4, <2>5 DEF JobShape, Refreshing
  <2>7. Sound(Op.key, cache[Op.key]) /\ \A j \in DOMAIN job.todo : OpSound(job.todo[j])
    BY <1>1, Rest DEF EngineInv, CacheSound, TodoSound
  <2>8. TodoSound'
    BY <2>1, <2>5, <2>7 DEF TodoSound, OpSound, Sound
  <2> QED BY <2>2, <2>6, <2>8 DEF EngineInv
<1>6. CASE LoadFails
  <2>1. UNCHANGED <<tables, cache, slots>> /\ Done
    BY <1>1, <1>6 DEF LoadFails, records
  <2>2. EngineShape' /\ CacheSound' /\ SlotsSound'
    BY <1>3, <1>4, <2>1, NothingStored
  <2> QED BY <1>1, <2>1, <2>2, DoneSound DEF EngineInv
<1>7. CASE WriteCache
  <2>1. job.pc = "write" /\ Done /\ cache' = [cache EXCEPT ![Op.key] = Value]
    BY <1>7 DEF WriteCache
  <2>2. Sound(Op.key, Value)
    BY <1>1, <2>1, Rest
  <2>3. CacheSound' /\ cache' = [c \in Keys |-> cache'[c]]
    BY <1>1, <2>1, <2>2, CachePut
  <2>4. SlotsSound' /\ slots' \in [Slot -> {NoTask} \cup Tasks]
    <3>1. CASE UNCHANGED slots
      BY <1>1, <1>4, <3>1 DEF EngineInv, SlotsSound, Sound, records, tables
    <3>2. CASE Op.key \in Hashed /\ handleCacheFailure(ExpireTask(Op.key))
      <4>1. ExpireTask(Op.key) \in CacheTasks /\ ExpireTask(Op.key).mode = "expire"
        BY <3>2, TaskFacts
      <4> QED BY <1>1, <3>2, <4>1, QueuePut
    <3> QED BY <1>7, <3>1, <3>2 DEF WriteCache
  <2> QED BY <1>1, <1>3, <2>1, <2>3, <2>4, DoneSound DEF EngineInv
<1>8. CASE WriteFails
  <2>1. job.pc = "write" /\ Done /\ cache' \in {cache, [cache EXCEPT ![Op.key] = Value]}
    BY <1>8 DEF WriteFails
  <2>2. Sound(Op.key, Value)
    BY <1>1, <2>1, Rest
  <2>3. CacheSound' /\ cache' = [c \in Keys |-> cache'[c]]
    BY <1>1, <2>1, <2>2, CachePut
  <2>4. SlotsSound' /\ slots' \in [Slot -> {NoTask} \cup Tasks]
    <3> DEFINE task == SetTask(Op.key, Value)
    <3>1. task \in CacheTasks /\ task.key = Op.key /\ task.val = Value
      BY <2>2, TaskFacts DEF Sound
    <3>2. handleCacheFailure(task)
      BY <1>8 DEF WriteFails
    <3> HIDE DEF task
    <3> QED BY <1>1, <2>2, <3>1, <3>2, QueuePut
  <2> QED BY <1>1, <1>3, <2>1, <2>3, <2>4, DoneSound DEF EngineInv
<1> QED BY <1>5, <1>6, <1>7, <1>8

(* The retries.                                                            *)
LEMMA RetrySteps ==
  ASSUME EngineInv, NEW i \in Slot, EngineRetry(i)
  PROVE  EngineInv'
<1>1. EngineShape /\ engineTask(i) /\ UNCHANGED <<records, job>>
  BY DEF EngineInv, EngineRetry, RetrySucceeds, RetryFails
<1>2. tainted' \in BOOLEAN
  BY <1>1 DEF EngineRetry, RetrySucceeds, RetryFails, EngineShape
<1>3. slots \in [Slot -> {NoTask} \cup Tasks] /\ slots[i] # NoTask /\ slots[i] \in Tasks
  BY <1>1 DEF EngineShape, engineTask
<1>4. slots[i].do \in CacheTasks
  BY <1>3 DEF Tasks
<1>5. /\ slots' \in [Slot -> {NoTask} \cup Tasks]
      /\ \A k \in Slot : slots'[k] # NoTask => slots[k] # NoTask /\ slots'[k].do = slots[k].do
  <2>1. CASE Release(i)
    BY <1>3, <2>1 DEF Release
  <2>2. CASE AttemptFails(i, slots[i].do)
    <3>1. /\ slots' \in [Slot -> {NoTask} \cup Tasks]
          /\ \A k \in Slot : k # i => slots'[k] = slots[k]
          /\ slots'[i] # NoTask => slots'[i].do = slots[i].do
      BY <1>1, <1>3, <2>2, AttemptKeeps
    <3> QED BY <1>3, <3>1
  <2> QED BY <2>1, <2>2 DEF EngineRetry, RetrySucceeds, RetryFails
<1>6. UNCHANGED <<written, trades, convs, cycles>>
  BY <1>1 DEF records, tables
<1>7. SlotsSound'
  BY <1>5, <1>6 DEF EngineInv, SlotsSound, Sound
<1>8. CacheSound' /\ cache' = [c \in Keys |-> cache'[c]]
  <2>1. cache' \in {cache, TaskApplied(slots[i].do)}
    BY DEF EngineRetry, RetrySucceeds, RetryFails
  <2>2. CASE cache' = cache
    BY <1>1, <1>6, <2>2 DEF EngineInv, CacheSound, Sound, EngineShape
  <2>3. CASE cache' # cache
    <3>1. slots[i].do.mode = "set" /\ cache' = [cache EXCEPT ![slots[i].do.key] = slots[i].do.val]
      BY <2>1, <2>3 DEF TaskApplied
    <3>2. Sound(slots[i].do.key, slots[i].do.val)
      BY <1>3, <3>1 DEF EngineInv, SlotsSound
    <3> QED BY <1>1, <3>1, <3>2, CachePut
  <2> QED BY <2>2, <2>3
<1>9. EngineShape'
  BY <1>1, <1>2, <1>5, <1>8 DEF EngineShape, records, tables
<1>10. JobShape' /\ TodoSound'
  BY <1>1, <1>6 DEF EngineInv, JobShape, TodoSound, OpSound, Sound, Refreshing, Op
<1> QED BY <1>7, <1>8, <1>9, <1>10 DEF EngineInv

(* A key that expires leaves an absent value.                              *)
LEMMA ExpireStep ==
  ASSUME EngineInv, NEW k \in Keys, Expire(k)
  PROVE  EngineInv'
<1>1. EngineShape /\ UNCHANGED <<records, job, slots>> /\ cache' = [cache EXCEPT ![k] = Empty(k)]
  BY DEF EngineInv, Expire
<1>2. tainted' \in BOOLEAN
  BY <1>1 DEF Expire, EngineShape
<1>3. CacheSound' /\ cache' = [c \in Keys |-> cache'[c]]
  <2>1. Sound(k, Empty(k))
    BY EmptyFits DEF Sound
  <2> QED BY <1>1, <2>1, CachePut
<1>4. EngineShape'
  BY <1>1, <1>2, <1>3 DEF EngineShape, records, tables
<1>5. JobShape' /\ TodoSound' /\ SlotsSound'
  BY <1>1 DEF EngineInv, JobShape, TodoSound, SlotsSound, OpSound, Sound, Refreshing, Op, records, tables
<1> QED BY <1>3, <1>4, <1>5 DEF EngineInv

(* A set listed in some order.                                             *)
LEMMA Listing ==
  ASSUME NEW S, IsFiniteSet(S), NEW q \in SetToSeqs(S)
  PROVE  q \in Seq(S) /\ \A j \in DOMAIN q : q[j] \in S
<1>1. Cardinality(S) \in Nat
  BY FS_CardinalityType
<1> DEFINE n == Cardinality(S)
<1>2. q \in [1..n -> S]
  BY DEF SetToSeqs
<1> HIDE DEF n
<1>3. n \in Nat
  BY <1>1 DEF n
<1> QED BY <1>2, <1>3

(* Two lists, one after the other.                                         *)
LEMMA Joined ==
  ASSUME NEW S, NEW a \in Seq(S), NEW b \in Seq(S)
  PROVE  /\ a \o b \in Seq(S)
         /\ \A j \in DOMAIN (a \o b) : \/ j \in DOMAIN a /\ (a \o b)[j] = a[j]
                                       \/ \E i \in DOMAIN b : (a \o b)[j] = b[i]
<1>1. Len(a) \in Nat /\ Len(b) \in Nat /\ DOMAIN a = 1..Len(a) /\ DOMAIN b = 1..Len(b)
  OBVIOUS
<1> DEFINE q == a \o b
<1>2. /\ q \in Seq(S) /\ Len(q) = Len(a) + Len(b)
      /\ \A i \in 1..(Len(a) + Len(b)) : q[i] = IF i <= Len(a) THEN a[i] ELSE b[i - Len(a)]
  BY ConcatProperties
<1> HIDE DEF q
<1>3. DOMAIN q = 1..(Len(a) + Len(b))
  BY <1>2
<1>4. ASSUME NEW j \in 1..(Len(a) + Len(b))
      PROVE  \/ j \in DOMAIN a /\ q[j] = a[j]
             \/ \E i \in DOMAIN b : q[j] = b[i]
  <2>1. CASE j <= Len(a)
    BY <1>1, <1>2, <2>1
  <2>2. CASE ~(j <= Len(a))
    <3>1. j - Len(a) \in DOMAIN b
      BY <1>1, <2>2
    <3> QED BY <1>2, <2>2, <3>1
  <2> QED BY <2>1, <2>2
<1> QED BY <1>2, <1>3, <1>4 DEF q

(* What start-up sets out to write: the positions first, if there are any, *)
(* as the table has them; all of it backed by the tables.                  *)
HydratedOp(op) ==
  /\ op \in HydrateOps /\ OpSound(op)
  /\ op.key = "positions" => Match(rows, {}, op.whole)

(* The hydration of positions is one operation; the ones that follow do    *)
(* not touch the positions, ...                                            *)
LEMMA HydratedPositions ==
  ASSUME EngineInv
  PROVE  /\ hydratePositions \in Seq(CacheOps)
         /\ \A j \in DOMAIN hydratePositions : j = 1 /\ HydratedOp(hydratePositions[j])
<1>1. RowsBacked(rows, written) /\ 0 \in Event
  BY EventFacts DEF EngineInv, EngineShape
<1> DEFINE x == [s \in Symbols |-> IF rows[s].status = "open" THEN rows[s].entry ELSE 0]
           op == hydrateOp("positions", x)
<1>2. \A s \in Symbols : rows[s] \in RowType /\ rows[s].entry \in Event
  BY <1>1 DEF RowsBacked, RowType
<1>3. x \in Position
  BY <1>1, <1>2 DEF Position
<1>4. \A s \in Symbols : x[s] \in written \cup {0}
  BY <1>1 DEF RowsBacked
<1>5. Match(rows, {}, x)
  <2> SUFFICES ASSUME NEW s \in Symbols, x[s] # 0 PROVE rows[s] = OpenRow(x[s])
    BY DEF Match
  <2>1. rows[s].status = "open" /\ rows[s].entry = x[s]
    OBVIOUS
  <2> QED BY <1>2, <2>1 DEF OpenRow, RowType
<1> HIDE DEF x
<1>6. op \in HydrateOps /\ op.key = "positions" /\ op.whole = x
  BY <1>3 DEF hydrateOp, HydrateOps
<1>7. OpSound(op)
  <2>1. Fit(written, trades, convs, cycles, op.key, op.whole)
    BY <1>3, <1>4, <1>6 DEF Fit, Keys
  <2> QED BY <1>6, <2>1, LoadKinds DEF OpSound, OpFit, CacheOps
<1>8. HydratedOp(op) /\ op \in CacheOps
  BY <1>5, <1>6, <1>7 DEF HydratedOp, CacheOps
<1>9. hydratePositions \in {<<>>, <<op>>}
  BY DEF hydratePositions, x
<1> HIDE DEF op
<1>10. <<op>> \in Seq(CacheOps) /\ \A j \in DOMAIN <<op>> : j = 1 /\ <<op>>[j] = op
  BY <1>8, ShortLists
<1>11. <<>> \in Seq(CacheOps) /\ DOMAIN <<>> = {}
  OBVIOUS
<1>12. CASE hydratePositions = <<>>
  BY <1>11, <1>12
<1>13. CASE hydratePositions = <<op>>
  BY <1>8, <1>10, <1>13
<1> QED BY <1>9, <1>12, <1>13

(* ... not the ones for trades ...                                         *)
LEMMA HydratedTrades ==
  ASSUME EngineInv, NEW q \in RecentByModel
  PROVE  /\ hydrateTrades(q) \in Seq(CacheOps)
         /\ \A j \in DOMAIN hydrateTrades(q) : HydratedOp(hydrateTrades(q)[j]) /\ hydrateTrades(q)[j].key # "positions"
<1> DEFINE S == {t.id : t \in trades}
<1>1. S \subseteq Event /\ IsFiniteSet(Event)
  <2>1. trades \subseteq [id : Event, closed : Event, entry : Event]
    BY DEF EngineInv, EngineShape
  <2>2. IsFiniteSet(0..MaxEvents)
    BY EngineAssumption, FS_Interval
  <2> QED BY <2>1, <2>2 DEF Event
<1>2. IsFiniteSet(S)
  BY <1>1, FS_Subset
<1>3. q \in SetToSeqs(S)
  BY DEF RecentByModel
<1>4. \A n \in S : \E r \in trades : r.id = n
  OBVIOUS
<1> HIDE DEF S
<1>5. q \in Seq(S) /\ \A j \in DOMAIN q : q[j] \in S
  BY <1>2, <1>3, Listing
<1>6. q \in Seq(Event)
  BY <1>1, <1>5
<1> DEFINE x == Cut(q)
<1>7. x \in Lists /\ \A j \in DOMAIN x : j \in DOMAIN q /\ x[j] = q[j]
  BY <1>6, CutFacts
<1> HIDE DEF x
<1>8. \A j \in DOMAIN x : \E r \in trades : r.id = x[j]
  BY <1>4, <1>5, <1>7
<1> DEFINE op == hydrateOp("trades", x)
<1>9. op \in HydrateOps /\ op.key = "trades" /\ op.whole = x
  BY <1>7 DEF hydrateOp, HydrateOps
<1>10. OpSound(op)
  <2>1. Fit(written, trades, convs, cycles, op.key, op.whole)
    BY <1>7, <1>8, <1>9 DEF Fit, Keys
  <2> QED BY <1>9, <2>1, LoadKinds DEF OpSound, OpFit, CacheOps
<1>11. HydratedOp(op) /\ op \in CacheOps /\ op.key # "positions"
  BY <1>9, <1>10 DEF HydratedOp, CacheOps
<1>12. hydrateTrades(q) \in {<<>>, <<op>>}
  BY DEF hydrateTrades, x
<1> HIDE DEF op
<1>13. <<op>> \in Seq(CacheOps) /\ \A j \in DOMAIN <<op>> : j = 1 /\ <<op>>[j] = op
  BY <1>11, ShortLists
<1>14. <<>> \in Seq(CacheOps) /\ DOMAIN <<>> = {}
  OBVIOUS
<1>15. CASE hydrateTrades(q) = <<>>
  BY <1>14, <1>15
<1>16. CASE hydrateTrades(q) = <<op>>
  BY <1>11, <1>13, <1>16
<1> QED BY <1>12, <1>15, <1>16

(* ... nor the ones for decision cycles.                                   *)
LEMMA HydratedCycles ==
  ASSUME EngineInv, NEW d \in hydrateDecisionCycles
  PROVE  /\ d \in Seq(CacheOps)
         /\ \A j \in DOMAIN d : HydratedOp(d[j]) /\ d[j].key # "positions"
<1>1. CASE d = <<>>
  <2>1. <<>> \in Seq(CacheOps) /\ DOMAIN <<>> = {}
    OBVIOUS
  <2> QED BY <1>1, <2>1
<1>2. CASE d # <<>>
  <2>1. PICK n \in cycles : d = <<hydrateOp("decision", n)>>
    BY <1>2 DEF hydrateDecisionCycles, Newest
  <2>2. n \in Event
    BY DEF EngineInv, EngineShape
  <2> DEFINE op == hydrateOp("decision", n)
  <2>3. op \in HydrateOps /\ op.key = "decision" /\ op.whole = n
    BY <2>2 DEF hydrateOp, HydrateOps
  <2>4. OpSound(op)
    <3>1. Fit(written, trades, convs, cycles, op.key, op.whole)
      BY <2>2, <2>3 DEF Fit, Keys
    <3> QED BY <2>3, <3>1, LoadKinds DEF OpSound, OpFit, CacheOps
  <2>5. HydratedOp(op) /\ op \in CacheOps /\ op.key # "positions"
    BY <2>3, <2>4 DEF HydratedOp, CacheOps
  <2> HIDE DEF op
  <2>6. <<op>> \in Seq(CacheOps) /\ \A j \in DOMAIN <<op>> : j = 1 /\ <<op>>[j] = op
    BY <2>5, ShortLists
  <2>7. d = <<op>>
    BY <2>1 DEF op
  <2> QED BY <2>5, <2>6, <2>7
<1> QED BY <1>1, <1>2

(* The operations of a hydration fit the tables, whichever of its queries  *)
(* fail.                                                                   *)
LEMMA Hydrated ==
  ASSUME EngineInv, NEW todo \in HydrateCaches
  PROVE  /\ todo \in Seq(CacheOps)
         /\ \A j \in DOMAIN todo : HydratedOp(todo[j]) /\ (j # 1 => todo[j].key # "positions")
<1>1. CASE todo = <<>>
  <2>1. <<>> \in Seq(CacheOps) /\ DOMAIN <<>> = {}
    OBVIOUS
  <2> QED BY <1>1, <2>1
<1>2. CASE todo # <<>>
  <2>1. PICK q \in RecentByModel, d \in hydrateDecisionCycles : todo = hydratePositions \o hydrateTrades(q) \o d
    BY <1>2 DEF HydrateCaches
  <2> DEFINE a == hydratePositions
             b == hydrateTrades(q)
             c == a \o b
  <2>2. a \in Seq(CacheOps) /\ \A j \in DOMAIN a : j = 1 /\ HydratedOp(a[j])
    BY HydratedPositions
  <2>3. b \in Seq(CacheOps) /\ \A j \in DOMAIN b : HydratedOp(b[j]) /\ b[j].key # "positions"
    BY HydratedTrades
  <2>4. d \in Seq(CacheOps) /\ \A j \in DOMAIN d : HydratedOp(d[j]) /\ d[j].key # "positions"
    BY HydratedCycles
  <2>5. todo = c \o d
    BY <2>1
  <2> HIDE DEF a, b
  <2>6. /\ c \in Seq(CacheOps)
        /\ \A j \in DOMAIN c : \/ j \in DOMAIN a /\ c[j] = a[j]
                               \/ \E i \in DOMAIN b : c[j] = b[i]
    BY <2>2, <2>3, Joined
  <2>7. \A j \in DOMAIN c : HydratedOp(c[j]) /\ (j # 1 => c[j].key # "positions")
    BY <2>2, <2>3, <2>6
  <2> HIDE DEF c
  <2>8. /\ todo \in Seq(CacheOps)
        /\ \A j \in DOMAIN todo : \/ j \in DOMAIN c /\ todo[j] = c[j]
                                  \/ \E i \in DOMAIN d : todo[j] = d[i]
    BY <2>4, <2>5, <2>6, Joined
  <2> QED BY <2>4, <2>7, <2>8
<1> QED BY <1>1, <1>2

(* A crash loses the job and the retry queue; the restart hydrates from    *)
(* the tables.                                                             *)
LEMMA CrashStep ==
  ASSUME EngineInv, EngineCrash
  PROVE  EngineInv'
<1>1. PICK todo \in HydrateCaches : job' = Caching(todo)
  BY DEF EngineCrash
<1>2. UNCHANGED <<events, rows, written, trades, cycles, convs, cache>> /\ held' = NoPositions
  BY DEF EngineCrash, tables
<1>3. slots' = [i \in Slot |-> NoTask] /\ tainted' \in BOOLEAN
  BY DEF EngineCrash, QueueLost
<1>4. NoPositions \in Position
  BY EventFacts DEF NoPositions, Position
<1>5. EngineShape'
  BY <1>2, <1>3, <1>4 DEF EngineInv, EngineShape
<1>6. CacheSound'
  BY <1>2 DEF EngineInv, CacheSound, Sound
<1>7. SlotsSound'
  BY <1>3 DEF SlotsSound
<1>8. JobShape' /\ TodoSound'
  <2>1. todo \in Seq(CacheOps) /\ \A j \in DOMAIN todo : OpFit(written, trades, convs, cycles, todo[j])
    BY Hydrated DEF HydratedOp, OpSound
  <2>2. \A j \in DOMAIN todo : OpFit(written', trades', convs', cycles', todo[j])
    BY <1>2, <2>1
  <2> QED BY <1>1, <2>1, <2>2, CachingSound
<1> QED BY <1>5, <1>6, <1>7, <1>8 DEF EngineInv

(* Every step keeps what is cached backed by what is stored.               *)
LEMMA EngineNextHolds == EngineInv /\ [EngineNext]_engineVars => EngineInv'
<1> SUFFICES ASSUME EngineInv, [EngineNext]_engineVars PROVE EngineInv'
  OBVIOUS
<1>1. ASSUME NEW s \in Symbols, RecordOpen(s) \/ RecordClose(s) \/ Released(s) \/ Adopted(s) PROVE EngineInv'
  BY <1>1, BookSteps
<1>2. CASE RecordDecisionCycle \/ RecordConversation \/ RecordAnalytics
  BY <1>2, SideSteps
<1>3. CASE EngineStep
  BY <1>3, TableSteps, RefreshSteps DEF EngineStep
<1>4. ASSUME NEW i \in Slot, EngineRetry(i) PROVE EngineInv'
  BY <1>4, RetrySteps
<1>5. ASSUME NEW k \in Keys, Expire(k) PROVE EngineInv'
  BY <1>5, ExpireStep
<1>6. CASE EngineCrash
  BY <1>6, CrashStep
<1>7. CASE UNCHANGED engineVars
  BY <1>7 DEF engineVars, EngineInv, EngineShape, JobShape, CacheSound, TodoSound, SlotsSound, OpSound, Sound, Refreshing, Op
<1> QED BY <1>1, <1>2, <1>3, <1>4, <1>5, <1>6, <1>7 DEF EngineNext

(* The tables, the cache, the event being recorded and the retry queue     *)
(* keep to the invariant through every interleaving of handlers, retries,  *)
(* expiries and crashes.                                                   *)
THEOREM EngineInvariant == EngineSpec => []EngineInv
<1>1. EngineInit => EngineInv
  BY EngineInitHolds
<1>2. EngineInv /\ [EngineNext]_engineVars => EngineInv'
  BY EngineNextHolds
<1> QED BY <1>1, <1>2, PTL DEF EngineSpec

(* Whatever is recorded, fails or crashes, tables, cached values and       *)
(* queued retries have their types: lists stay within recentTradesLimit    *)
(* and a retry never exceeds its attempts.                                 *)
THEOREM EngineTypeCorrect == EngineSpec => []EngineTypeOK
<1>1. EngineInv => EngineTypeOK
  <2> SUFFICES ASSUME EngineInv PROVE EngineTypeOK
    OBVIOUS
  <2>1. EngineShape /\ JobShape /\ CacheSound
    BY DEF EngineInv
  <2>2. job.pc \in {"idle", "open", "find", "update", "trade", "load", "write"}
    BY <2>1, JobFacts
  <2>3. ASSUME NEW k \in Keys PROVE cache[k] \in EngineValue(k)
    BY <2>1 DEF CacheSound, Sound, Fit, EngineValue, Lists, Keys
  <2>4. ASSUME NEW i \in Slot, slots[i] # NoTask PROVE slots[i].attempt \in 1..MaxAttempts
    BY <2>1, <2>4 DEF EngineShape, Tasks
  <2>5. rows \in [Symbols -> [status : {"none", "open", "closed"}, entry : Event]]
    BY <2>1 DEF EngineShape, RowsBacked, RowType
  <2> QED BY <2>1, <2>2, <2>3, <2>4, <2>5 DEF EngineTypeOK, EngineShape
<1> QED BY <1>1, EngineInvariant, PTL

(* Postgres before Redis: no interleaving of failed writes, retries of     *)
(* captured values, expiries and restarts lets the cache, or a retry that  *)
(* is still waiting, show what did not reach its table.                    *)
THEOREM CacheStaysBacked == EngineSpec => []CacheFollowsDatabase
<1>1. EngineInv => CacheFollowsDatabase
  <2> SUFFICES ASSUME EngineInv PROVE CacheFollowsDatabase
    OBVIOUS
  <2>1. \A k, x : Sound(k, x) => Backed(k, x)
    BY DEF Sound, Fit, Backed, Keys
  <2>2. CacheSound /\ SlotsSound
    BY DEF EngineInv
  <2> QED BY <2>1, <2>2 DEF CacheFollowsDatabase, CacheSound, SlotsSound, engineTask
<1> QED BY <1>1, EngineInvariant, PTL

-------------------------------------------------------------------------------
(* Entries and trades.                                                     *)

(* A job that only has cache operations left writes no table.              *)
LEMMA CachingPc == \A todo : job' = Caching(todo) => job'.pc \in {"idle", "load", "write"}
<1> SUFFICES ASSUME NEW todo, job' = Caching(todo) PROVE job'.pc \in {"idle", "load", "write"}
  OBVIOUS
<1>1. CASE todo = <<>>
  BY <1>1 DEF Caching, Idle
<1>2. CASE todo # <<>>
  <2> DEFINE p == IF NeedsLoad(Head(todo)) THEN "load" ELSE "write"
  <2>1. job' = [pc |-> p, todo |-> todo, old |-> <<>>]
    BY <1>2 DEF Caching
  <2>2. p \in {"load", "write"}
    OBVIOUS
  <2> HIDE DEF p
  <2> QED BY <2>1, <2>2
<1> QED BY <1>1, <1>2

(* The numbers that Bounded and EntriesKept speak of.                      *)
LEMMA Numbers ==
  ASSUME EngineShape
  PROVE  /\ events \in Nat
         /\ \A s \in Symbols : held[s] \in Nat
         /\ \A n \in written : n \in Nat
         /\ \A t \in trades : t.closed \in Nat /\ t.entry \in Nat
<1>1. \A n \in Event : n \in Nat
  BY EventFacts
<1> QED BY <1>1 DEF EngineShape, Position

(* Steps that store nothing and after which no event is being recorded.    *)
LEMMA OffRecord ==
  ASSUME EngineInv, EngineInv', EntriesInv, events <= events', \A s \in Symbols : held'[s] \in {held[s], 0},
         UNCHANGED <<rows, written, trades>>, job'.pc \in {"idle", "load", "write"}
  PROVE  EntriesInv'
<1>1. /\ events \in Nat /\ \A s \in Symbols : held[s] \in Nat
      /\ \A n \in written : n \in Nat
      /\ \A t \in trades : t.closed \in Nat
  BY Numbers DEF EngineInv
<1>2. events' \in Nat
  BY EventFacts DEF EngineInv, EngineShape
<1>3. job' \notin Recording
  BY DEF Recording
<1>4. Bounded'
  <2>1. \A n \in written' : n <= events'
    BY <1>1, <1>2 DEF EntriesInv, Bounded
  <2>2. \A s \in Symbols : held'[s] <= events'
    <3> SUFFICES ASSUME NEW s \in Symbols PROVE held'[s] <= events'
      OBVIOUS
    <3>1. held[s] <= events /\ held'[s] \in {held[s], 0} /\ held[s] \in Nat
      BY <1>1 DEF EntriesInv, Bounded
    <3> QED BY <1>1, <1>2, <3>1
  <2>3. \A t \in trades' : t.closed <= events'
    BY <1>1, <1>2 DEF EntriesInv, Bounded
  <2> QED BY <1>3, <2>1, <2>2, <2>3 DEF Bounded
<1>5. EntriesKept'
  BY DEF EntriesInv, EntriesKept
<1>6. TradesTruthful'
  BY DEF EntriesInv, TradesTruthful
<1> QED BY <1>4, <1>5, <1>6 DEF EntriesInv

(* No row and no entry.                                                    *)
LEMMA EntriesInit == EngineInit => EntriesInv
<1> SUFFICES ASSUME EngineInit PROVE EntriesInv
  OBVIOUS
<1>1. events = 0 /\ written = {} /\ trades = {} /\ \A s \in Symbols : held[s] = 0
  BY DEF EngineInit, NoPositions
<1>2. job.pc = "idle" /\ job \notin Recording
  BY DEF EngineInit, Idle, Recording
<1> QED BY <1>1, <1>2 DEF EntriesInv, Bounded, EntriesKept, TradesTruthful

(* An event of the position book gives a row an entry only when it opens   *)
(* one.                                                                    *)
LEMMA BookEntries ==
  ASSUME EngineInv, EngineInv', EntriesInv, NEW s \in Symbols,
         RecordOpen(s) \/ RecordClose(s) \/ Released(s) \/ Adopted(s)
  PROVE  EntriesInv'
<1>1. /\ events \in Nat /\ \A z \in Symbols : held[z] \in Nat
      /\ \A n \in written : n \in Nat
      /\ \A t \in trades : t.closed \in Nat
  BY Numbers DEF EngineInv
<1>2. held = [z \in Symbols |-> held[z]] /\ EngineShape
  BY DEF EngineInv, EngineShape, Position
<1>3. UNCHANGED <<rows, written, trades>> /\ job = Idle /\ job.pc = "idle"
  <2>1. job = Idle
    BY DEF RecordOpen, RecordClose, Released, Adopted, NextEvent
  <2> QED BY <2>1 DEF RecordOpen, RecordClose, Released, Adopted, tables, Idle
<1>4. Bounded /\ EntriesKept /\ TradesTruthful
  BY DEF EntriesInv
<1>5. TradesTruthful'
  BY <1>3, <1>4 DEF TradesTruthful
<1>6. \A n \in written : n # events + 1
  BY <1>1, <1>4 DEF Bounded
<1>7. \A n \in Nat : n <= events => n <= events + 1
  BY <1>1
<1>8. CASE RecordOpen(s)
  <2>1. events' = events + 1
    BY <1>2, <1>8, EventNumber DEF RecordOpen
  <2>2. \A z \in Symbols : held'[z] = IF z = s THEN events + 1 ELSE held[z]
    BY <1>2, <1>8 DEF RecordOpen
  <2>3. job' = At("open", s, events + 1, 0)
    BY <1>8 DEF RecordOpen
  <2>4. job'.pc = "open" /\ job'.sym = s /\ job'.id = events + 1 /\ job'.closing = 0
    BY <2>3 DEF At
  <2>5. Bounded'
    BY <1>1, <1>3, <1>4, <1>7, <2>1, <2>2, <2>4 DEF Bounded
  <2>6. \A z \in Symbols : held'[z] # 0 /\ held'[z] \in written' => rows'[z].entry = held'[z]
    BY <1>3, <1>4, <1>6, <2>2 DEF EntriesKept
  <2>7. /\ events + 1 \notin written /\ \A z \in Symbols : z # s => held'[z] # events + 1
        /\ \A t \in trades : t.closed # events + 1
    BY <1>1, <1>4, <1>6, <2>2 DEF Bounded
  <2>8. EntriesKept'
    BY <1>3, <2>2, <2>4, <2>6, <2>7 DEF EntriesKept
  <2> QED BY <1>5, <2>5, <2>8 DEF EntriesInv
<1>9. CASE RecordClose(s)
  <2>1. events' = events + 1
    BY <1>2, <1>9, EventNumber DEF RecordClose
  <2>2. \A z \in Symbols : held'[z] = IF z = s THEN 0 ELSE held[z]
    BY <1>2, <1>9 DEF RecordClose
  <2>3. job' = At("find", s, events + 1, held[s]) /\ held[s] # 0
    BY <1>9 DEF RecordClose
  <2>4. job'.pc = "find" /\ job'.sym = s /\ job'.id = events + 1 /\ job'.closing = held[s]
    BY <2>3 DEF At
  <2>5. Bounded'
    BY <1>1, <1>3, <1>4, <1>7, <2>1, <2>2, <2>4 DEF Bounded
  <2>6. EntriesKept'
    BY <1>3, <1>4, <2>2, <2>3, <2>4 DEF EntriesKept
  <2> QED BY <1>5, <2>5, <2>6 DEF EntriesInv
<1>10. CASE Released(s)
  <2>1. events' = events /\ job' = job /\ \A z \in Symbols : held'[z] \in {held[z], 0}
    BY <1>2, <1>10 DEF Released
  <2> QED BY <1>1, <1>3, <2>1, OffRecord
<1>11. CASE Adopted(s)
  <2>1. events' = events + 1 /\ job' = job
    BY <1>2, <1>11, EventNumber DEF Adopted
  <2>2. \A z \in Symbols : held'[z] = IF z = s THEN events + 1 ELSE held[z]
    BY <1>2, <1>11 DEF Adopted
  <2>3. job' \notin Recording
    BY <1>3, <2>1 DEF Recording
  <2>4. Bounded'
    BY <1>1, <1>3, <1>4, <1>7, <2>1, <2>2, <2>3 DEF Bounded
  <2>5. EntriesKept'
    BY <1>3, <1>4, <1>6, <2>1, <2>2 DEF EntriesKept
  <2> QED BY <1>5, <2>4, <2>5 DEF EntriesInv
<1> QED BY <1>8, <1>9, <1>10, <1>11

(* The open is in its row.                                                 *)
LEMMA CommitEntries ==
  ASSUME EngineInv, EntriesInv, job.pc = "open", UpsertCommits, UNCHANGED <<events, held, trades>>,
         job'.pc \in {"idle", "load", "write"}
  PROVE  EntriesInv'
<1>1. Bounded /\ EntriesKept /\ TradesTruthful /\ EngineShape
  BY DEF EntriesInv, EngineInv
<1>2. job \in Recording /\ job.sym \in Symbols
  BY JobFacts DEF EngineInv
<1>3. job' \notin Recording
  BY DEF Recording
<1>4. /\ job.id \notin written /\ held[job.sym] = job.id
      /\ \A s \in Symbols : s # job.sym => held[s] # job.id
      /\ \A t \in trades : t.closed # job.id
  BY <1>1 DEF EntriesKept
<1> DEFINE o == [status |-> "open", entry |-> job.id]
<1>5. o.entry = job.id
  OBVIOUS
<1>6. rows' = [rows EXCEPT ![job.sym] = o] /\ written' = written \cup {job.id}
  BY DEF UpsertCommits, UpsertRow
<1> HIDE DEF o
<1>7. \A s \in Symbols : rows'[s] = IF s = job.sym THEN o ELSE rows[s]
  BY <1>1, <1>6 DEF EngineShape, RowsBacked
<1>8. Bounded'
  BY <1>1, <1>2, <1>3, <1>6 DEF Bounded
<1>9. EntriesKept'
  <2>1. \A s \in Symbols : held'[s] # 0 /\ held'[s] \in written' => rows'[s].entry = held'[s]
    BY <1>1, <1>4, <1>5, <1>6, <1>7 DEF EntriesKept
  <2> QED BY <2>1 DEF EntriesKept
<1>10. TradesTruthful'
  BY <1>1, <1>4, <1>6 DEF TradesTruthful
<1> QED BY <1>8, <1>9, <1>10 DEF EntriesInv

(* The row of a symbol nothing is held in may change.                      *)
LEMMA UpdateEntries ==
  ASSUME EngineInv, EntriesInv, job \in Recording, job.pc # "open", UpdateRow
  PROVE  \A s \in Symbols : held[s] # 0 /\ held[s] \in written => rows'[s].entry = held[s]
<1>1. EntriesKept /\ EngineShape
  BY DEF EntriesInv, EngineInv
<1>2. job.pc \in {"find", "update", "trade"} /\ job.sym \in Symbols
  BY JobFacts DEF EngineInv, Recording
<1>3. held[job.sym] = 0
  BY <1>1, <1>2 DEF EntriesKept
<1>4. \A s \in Symbols : s # job.sym => rows'[s] = rows[s]
  BY <1>1, <1>2 DEF UpdateRow, EngineShape, RowsBacked
<1> QED BY <1>1, <1>3, <1>4 DEF EntriesKept

(* What the handlers write to the tables keeps entries and trades in step. *)
LEMMA TableEntries ==
  ASSUME EngineInv, EngineInv', EntriesInv,
         OpenStored \/ OpenFails \/ FindRow \/ CloseStored \/ insertTrade \/ CloseFails
  PROVE  EntriesInv'
<1>1. Bounded /\ EntriesKept /\ TradesTruthful /\ EngineShape /\ JobShape
  BY DEF EntriesInv, EngineInv
<1>2. job \in Recording
  BY <1>1, JobFacts DEF OpenStored, OpenFails, FindRow, CloseStored, insertTrade, CloseFails
<1>3. job.sym \in Symbols /\ job.closing \in Event
  BY <1>1, <1>2, JobFacts
<1>4. UNCHANGED <<events, held>> /\ events \in Nat
  BY <1>1, Numbers DEF OpenStored, OpenFails, FindRow, CloseStored, insertTrade, CloseFails
<1>5. Idle.pc = "idle"
  BY DEF Idle
<1>6. CASE OpenStored
  <2>1. job'.pc \in {"idle", "load", "write"}
    BY <1>6, CachingPc DEF OpenStored
  <2> QED BY <1>4, <1>6, <2>1, CommitEntries DEF OpenStored
<1>7. CASE OpenFails
  <2>1. job'.pc \in {"idle", "load", "write"} /\ UNCHANGED trades
    BY <1>5, <1>7 DEF OpenFails
  <2>2. CASE UpsertCommits
    BY <1>4, <1>7, <2>1, <2>2, CommitEntries DEF OpenFails
  <2>3. CASE UNCHANGED <<rows, written>>
    BY <1>4, <2>1, <2>3, OffRecord
  <2> QED BY <1>7, <2>2, <2>3 DEF OpenFails
<1>8. CASE FindRow
  <2>1. UNCHANGED <<rows, written, trades>> /\ job' = [job EXCEPT !.pc = "update", !.found = rows[job.sym]] /\ job.pc = "find"
    BY <1>8 DEF FindRow, tables
  <2>2. job'.pc = "update" /\ job'.found = rows[job.sym] /\ job'.sym = job.sym /\ job'.closing = job.closing /\ job'.id = job.id
    BY <1>2, <2>1 DEF Recording
  <2>3. Bounded'
    BY <1>1, <1>2, <1>4, <2>1, <2>2 DEF Bounded
  <2>4. EntriesKept'
    BY <1>1, <1>3, <1>4, <2>1, <2>2 DEF EntriesKept
  <2> QED BY <1>1, <2>1, <2>3, <2>4 DEF EntriesInv, TradesTruthful
<1>9. CASE CloseStored
  <2>1. UpdateRow /\ UNCHANGED <<written, trades>> /\ job.pc = "update"
    BY <1>9 DEF CloseStored
  <2>2. \A s \in Symbols : held[s] # 0 /\ held[s] \in written => rows'[s].entry = held[s]
    BY <1>2, <2>1, UpdateEntries
  <2>3. CASE job' = [job EXCEPT !.pc = "trade"]
    <3>1. job'.pc = "trade" /\ job'.found = job.found /\ job'.sym = job.sym /\ job'.closing = job.closing /\ job'.id = job.id
      BY <1>2, <2>3 DEF Recording
    <3>2. Bounded'
      BY <1>1, <1>2, <1>4, <2>1, <3>1 DEF Bounded
    <3>3. EntriesKept'
      BY <1>1, <1>3, <1>4, <2>1, <2>2, <3>1 DEF EntriesKept
    <3> QED BY <1>1, <2>1, <3>2, <3>3 DEF EntriesInv, TradesTruthful
  <2>4. CASE job' = Caching(CloseOps(job.sym, <<>>))
    <3>1. job'.pc \in {"idle", "load", "write"}
      BY <2>4, CachingPc
    <3>2. job' \notin Recording
      BY <3>1 DEF Recording
    <3>3. Bounded'
      BY <1>1, <1>4, <2>1, <3>2 DEF Bounded
    <3>4. EntriesKept'
      BY <1>4, <2>1, <2>2, <3>1 DEF EntriesKept
    <3> QED BY <1>1, <2>1, <3>3, <3>4 DEF EntriesInv, TradesTruthful
  <2> QED BY <1>9, <2>3, <2>4 DEF CloseStored
<1>10. ASSUME job.pc = "trade", trades' = trades \cup {Trade}, UNCHANGED <<rows, written>>, job'.pc \in {"idle", "load", "write"}
       PROVE  EntriesInv'
  <2>1. Trade.closed = job.closing /\ Trade.entry = job.found.entry
    BY DEF Trade
  <2>2. job.closing <= events /\ (job.closing \in written => job.found.entry = job.closing)
    BY <1>1, <1>2, <1>10 DEF Bounded, EntriesKept
  <2>3. job' \notin Recording
    BY <1>10 DEF Recording
  <2>4. Bounded'
    BY <1>1, <1>4, <1>10, <2>1, <2>2, <2>3 DEF Bounded
  <2>5. EntriesKept'
    BY <1>1, <1>4, <1>10 DEF EntriesKept
  <2>6. TradesTruthful'
    BY <1>1, <1>10, <2>1, <2>2 DEF TradesTruthful
  <2> QED BY <2>4, <2>5, <2>6 DEF EntriesInv
<1>11. CASE insertTrade
  <2>1. job'.pc \in {"idle", "load", "write"}
    BY <1>11, CachingPc DEF insertTrade
  <2> QED BY <1>10, <1>11, <2>1 DEF insertTrade
<1>12. CASE CloseFails
  <2>1. job'.pc \in {"idle", "load", "write"} /\ UNCHANGED written /\ job.pc # "open"
    BY <1>5, <1>12 DEF CloseFails
  <2>2. CASE UNCHANGED <<rows, trades>>
    BY <1>4, <2>1, <2>2, OffRecord
  <2>3. CASE UpdateRow /\ UNCHANGED trades
    <3>1. \A s \in Symbols : held[s] # 0 /\ held[s] \in written => rows'[s].entry = held[s]
      BY <1>2, <2>1, <2>3, UpdateEntries
    <3>2. job' \notin Recording
      BY <2>1 DEF Recording
    <3>3. Bounded'
      BY <1>1, <1>4, <2>1, <2>3, <3>2 DEF Bounded
    <3>4. EntriesKept'
      BY <1>4, <2>1, <3>1 DEF EntriesKept
    <3> QED BY <1>1, <2>1, <2>3, <3>3, <3>4 DEF EntriesInv, TradesTruthful
  <2>4. CASE job.pc = "trade" /\ trades' = trades \cup {Trade} /\ UNCHANGED rows
    BY <1>10, <2>1, <2>4
  <2> QED BY <1>12, <2>2, <2>3, <2>4 DEF CloseFails
<1> QED BY <1>6, <1>7, <1>8, <1>9, <1>11, <1>12

(* Every step keeps entries and trades in order.                           *)
LEMMA EntriesNext == EngineInv /\ EngineInv' /\ EntriesInv /\ [EngineNext]_engineVars => EntriesInv'
<1> SUFFICES ASSUME EngineInv, EngineInv', EntriesInv, [EngineNext]_engineVars PROVE EntriesInv'
  OBVIOUS
<1>1. ASSUME NEW s \in Symbols, RecordOpen(s) \/ RecordClose(s) \/ Released(s) \/ Adopted(s) PROVE EntriesInv'
  BY <1>1, BookEntries
<1>2. EngineShape /\ JobShape /\ events \in Nat /\ \A s \in Symbols : held[s] \in Nat
  BY Numbers DEF EngineInv
<1>3. CASE RecordDecisionCycle \/ RecordConversation \/ RecordAnalytics
  <2>1. events' = events + 1 /\ events <= events'
    BY <1>2, <1>3, EventNumber DEF RecordDecisionCycle, RecordConversation, RecordAnalytics, SideEvent
  <2>2. job'.pc \in {"idle", "load", "write"}
    <3>1. Idle.pc = "idle"
      BY DEF Idle
    <3> QED BY <1>3, <3>1, CachingPc DEF RecordDecisionCycle, RecordConversation, RecordAnalytics
  <2>3. UNCHANGED <<held, rows, written, trades>>
    BY <1>3 DEF RecordDecisionCycle, RecordConversation, RecordAnalytics, tables
  <2> QED BY <2>1, <2>2, <2>3, OffRecord
<1>4. CASE OpenStored \/ OpenFails \/ FindRow \/ CloseStored \/ insertTrade \/ CloseFails
  BY <1>4, TableEntries
<1>5. CASE LoadCache \/ LoadFails \/ WriteCache \/ WriteFails
  <2>1. UNCHANGED <<events, held, rows, written, trades>> /\ events <= events'
    BY <1>2, <1>5 DEF LoadCache, LoadFails, WriteCache, WriteFails, records, tables
  <2>2. job'.pc \in {"idle", "load", "write"}
    BY <1>5, CachingPc DEF LoadCache, LoadFails, WriteCache, WriteFails, Done
  <2> QED BY <2>1, <2>2, OffRecord
<1>6. ASSUME UNCHANGED <<events, held, rows, written, trades, job>> PROVE EntriesInv'
  BY <1>6 DEF EntriesInv, Bounded, EntriesKept, TradesTruthful
<1>7. ASSUME NEW i \in Slot, EngineRetry(i) PROVE EntriesInv'
  BY <1>6, <1>7 DEF EngineRetry, RetrySucceeds, RetryFails, records, tables
<1>8. ASSUME NEW k \in Keys, Expire(k) PROVE EntriesInv'
  BY <1>6, <1>8 DEF Expire, records, tables
<1>9. CASE EngineCrash
  <2>1. UNCHANGED <<events, rows, written, trades>> /\ \A s \in Symbols : held'[s] = 0
    BY <1>9 DEF EngineCrash, tables, NoPositions
  <2>2. job'.pc \in {"idle", "load", "write"}
    BY <1>9, CachingPc DEF EngineCrash
  <2> QED BY <1>2, <2>1, <2>2, OffRecord
<1>10. CASE UNCHANGED engineVars
  BY <1>6, <1>10 DEF engineVars
<1> QED BY <1>1, <1>3, <1>4, <1>5, <1>7, <1>8, <1>9, <1>10 DEF EngineNext, EngineStep

(* A symbol has one row for all its positions and handleClosePosition is   *)
(* no transaction; still, a recorded trade has the entry of the position   *)
(* it closes whenever that position's open was stored, whatever failed or  *)
(* crashed in between.                                                     *)
THEOREM TradesStayTruthful == EngineSpec => []TradesTruthful
<1>1. EngineInit => EntriesInv
  BY EntriesInit
<1>2. EngineInv /\ EngineInv' /\ EntriesInv /\ [EngineNext]_engineVars => EntriesInv'
  BY EntriesNext
<1>3. EntriesInv => TradesTruthful
  BY DEF EntriesInv
<1> QED BY <1>1, <1>2, <1>3, EngineInvariant, PTL DEF EngineSpec

-------------------------------------------------------------------------------
(* The positions value and its retries.                                    *)

(* A refresh is pending exactly when a slot of the retry queue waits with  *)
(* one.                                                                    *)
LEMMA PendingWaits ==
  ASSUME EngineShape
  PROVE  PositionsPending <=> Waiting(slots) # {}
  BY DEF PositionsPending, PositionsIn, Waiting

(* Fewer symbols on their way, or rows and value as they were.             *)
LEMMA Matching ==
  /\ \A r, due, more, v : due \subseteq more /\ Match(r, due, v) => Match(r, more, v)
  /\ \A r, due, more, q, c : due \subseteq more /\ OneOf(r, due, q, c) => OneOf(r, more, q, c)
  /\ \A r, due : Match(r, due, NoPositions)
<1>1. \A r, due, more, v : due \subseteq more /\ Match(r, due, v) => Match(r, more, v)
  BY DEF Match
<1>2. \A r, due, more, q, c : due \subseteq more /\ OneOf(r, due, q, c) => OneOf(r, more, q, c)
  BY <1>1 DEF OneOf
<1>3. \A r, due : Match(r, due, NoPositions)
  BY DEF Match, NoPositions
<1> QED BY <1>1, <1>2, <1>3

(* No refresh of the positions value is at hand.                           *)
LEMMA NoneDue ==
  job'.pc \in {"idle", "open", "find", "update"} => ~Refreshing' /\ Due' = {}
  BY DEF Refreshing, Due

(* Before the tables are written no refresh of the job is due.             *)
LEMMA NoneDueNow ==
  job.pc \in {"idle", "open", "find", "update"} => ~Refreshing /\ Due = {}
  BY DEF Refreshing, Due

(* A list of refreshes none of which is of the positions value.            *)
LEMMA OtherRefreshes ==
  \A todo \in Seq(CacheOps) :
    job' = Caching(todo) /\ (\A j \in DOMAIN todo : todo[j].key # "positions") =>
      /\ RefreshCurrent' /\ Due' = {}
      /\ ~(job'.pc = "write" /\ Op' \in PositionOps)
<1> SUFFICES ASSUME NEW todo \in Seq(CacheOps), job' = Caching(todo), \A j \in DOMAIN todo : todo[j].key # "positions"
             PROVE  /\ RefreshCurrent' /\ Due' = {}
                    /\ ~(job'.pc = "write" /\ Op' \in PositionOps)
  OBVIOUS
<1>1. CASE todo = <<>>
  <2>1. job'.pc = "idle"
    BY <1>1, CachingMoves
  <2> QED BY <2>1, NoneDue DEF RefreshCurrent
<1>2. CASE todo # <<>>
  <2>1. job'.todo = todo /\ job'.pc \in {"load", "write"}
    BY <1>2, CachingMoves
  <2>2. Op' = todo[1] /\ 1 \in DOMAIN todo
    BY <1>2, <2>1 DEF Op
  <2>3. Op'.key # "positions" /\ Op' \notin PositionOps
    BY <2>2, OpKinds
  <2>4. Due' = {}
    BY <2>1, <2>3 DEF Due
  <2>5. RefreshCurrent'
    BY <2>1, <2>3 DEF RefreshCurrent
  <2> QED BY <2>3, <2>4, <2>5
<1> QED BY <1>1, <1>2

(* The refresh of a position comes first and takes its value from the row. *)
LEMMA PositionFirst ==
  \A todo \in Seq(CacheOps) :
    /\ todo # <<>> /\ job' = Caching(todo) /\ Head(todo) \in PositionOps
    /\ Head(todo).val # 0 => rows'[Head(todo).sym] = OpenRow(Head(todo).val)
    /\ \A j \in DOMAIN todo : j # 1 => todo[j].key # "positions"
    => /\ RefreshCurrent' /\ Due' = {Head(todo).sym} /\ job'.pc = "load"
<1> SUFFICES ASSUME NEW todo \in Seq(CacheOps), todo # <<>>, job' = Caching(todo), Head(todo) \in PositionOps,
                    Head(todo).val # 0 => rows'[Head(todo).sym] = OpenRow(Head(todo).val),
                    \A j \in DOMAIN todo : j # 1 => todo[j].key # "positions"
             PROVE  /\ RefreshCurrent' /\ Due' = {Head(todo).sym} /\ job'.pc = "load"
  OBVIOUS
<1>1. job'.todo = todo /\ job'.pc = "load"
  BY CachingMoves, LoadKinds
<1>2. Op' = Head(todo) /\ Op' \notin HydrateOps
  BY <1>1, LoadKinds DEF Op
<1>3. RefreshCurrent'
  BY <1>1, <1>2 DEF RefreshCurrent
<1>4. Due' = {Head(todo).sym}
  BY <1>1, <1>2 DEF Due, Refreshing
<1> QED BY <1>1, <1>3, <1>4

(* Nothing to repair yet.                                                  *)
LEMMA RepairInit == EngineInit => RepairInv
<1> SUFFICES ASSUME EngineInit PROVE RepairInv
  OBVIOUS
<1>1. job.pc = "idle" /\ Waiting(slots) = {} /\ cache["positions"] = NoPositions
  BY DEF EngineInit, Idle, QueueInit, Waiting, Empty, Keys
<1>2. ~Refreshing /\ Due = {}
  BY <1>1, NoneDueNow
<1> QED BY <1>1, <1>2, Matching DEF RepairInv, RefreshCurrent, OneValue, OneOf

(* Events that change no row.                                              *)
LEMMA EventRepair ==
  ASSUME EngineInv, RepairInv, NEW s,
         \/ RecordOpen(s) \/ RecordClose(s) \/ Released(s) \/ Adopted(s)
         \/ RecordDecisionCycle \/ RecordConversation \/ RecordAnalytics
  PROVE  RepairInv'
<1>1. job = Idle /\ job.pc = "idle" /\ UNCHANGED <<rows, cache, slots, tainted>>
  <2>1. job = Idle
    BY DEF RecordOpen, RecordClose, Released, Adopted, NextEvent, SideEvent, RecordDecisionCycle, RecordConversation, RecordAnalytics
  <2> QED BY <2>1 DEF RecordOpen, RecordClose, Released, Adopted, RecordDecisionCycle, RecordConversation, RecordAnalytics,
                     tables, Idle
<1>2. ~Refreshing /\ Due = {}
  BY <1>1, NoneDueNow
<1>3. ~tainted => OneOf(rows, {}, slots, cache)
  BY <1>2 DEF RepairInv, OneValue
<1>4. ASSUME RefreshCurrent', Due' = {}, ~(job'.pc = "write" /\ Op' \in PositionOps) PROVE RepairInv'
  BY <1>1, <1>3, <1>4 DEF RepairInv, OneValue
<1>5. CASE RecordOpen(s) \/ RecordClose(s) \/ Released(s) \/ Adopted(s) \/ job' = Idle
  <2>1. job'.pc \in {"idle", "open", "find"}
    BY <1>1, <1>5 DEF RecordOpen, RecordClose, Released, Adopted, At, Idle
  <2>2. ~Refreshing' /\ Due' = {}
    BY <2>1, NoneDue
  <2> QED BY <1>4, <2>1, <2>2 DEF RefreshCurrent
<1>6. ASSUME NEW op \in CacheOps, op.key # "positions", job' = Caching(<<op>>) PROVE RepairInv'
  <2> DEFINE q == <<op>>
  <2>1. q \in Seq(CacheOps) /\ job' = Caching(q) /\ \A j \in DOMAIN q : q[j].key # "positions"
    BY <1>6, ShortLists
  <2> HIDE DEF q
  <2> QED BY <1>4, <2>1, OtherRefreshes
<1>7. CASE (RecordDecisionCycle \/ RecordConversation) /\ job' # Idle
  <2>1. events + 1 \in Event
    BY <1>7, EventNumber DEF EngineInv, RecordDecisionCycle, RecordConversation, SideEvent
  <2>2. /\ cacheDecisionSummary(events + 1) \in CacheOps /\ cacheDecisionSummary(events + 1).key # "positions"
        /\ cacheConversationID(events + 1) \in CacheOps /\ cacheConversationID(events + 1).key # "positions"
    BY <2>1, MadeOps DEF CacheOps
  <2>3. job' = Caching(<<cacheDecisionSummary(events + 1)>>) \/ job' = Caching(<<cacheConversationID(events + 1)>>)
    BY <1>7 DEF RecordDecisionCycle, RecordConversation
  <2> QED BY <1>6, <2>2, <2>3
<1>8. CASE RecordAnalytics
  BY <1>4, <1>8, AnalyticsOps, OtherRefreshes DEF RecordAnalytics
<1> QED BY <1>5, <1>7, <1>8

(* A row changes and its symbol becomes due.                               *)
LEMMA RowChanges ==
  ASSUME NEW r, NEW r2, NEW due, NEW more, due \subseteq more, \A s \in Symbols : s \notin more => r2[s] = r[s]
  PROVE  \A q, c : OneOf(r, due, q, c) => OneOf(r2, more, q, c)
<1>1. \A v : Match(r, due, v) => Match(r2, more, v)
  BY DEF Match
<1> QED BY <1>1 DEF OneOf

(* A write to the tables leaves the repair of the cache to the refresh     *)
(* that it makes due.                                                      *)
LEMMA TableRepair ==
  ASSUME EngineInv, RepairInv, OpenStored \/ OpenFails \/ FindRow \/ CloseStored \/ insertTrade \/ CloseFails
  PROVE  RepairInv'
<1>1. EngineShape /\ JobShape
  BY DEF EngineInv
<1>2. job \in Recording /\ job.sym \in Symbols /\ job.id \in Event /\ job.pc \in {"open", "find", "update", "trade"}
  <2>1. job \in Recording
    BY <1>1, JobFacts DEF OpenStored, OpenFails, FindRow, CloseStored, insertTrade, CloseFails
  <2> QED BY <1>1, <2>1, JobFacts
<1>3. UNCHANGED <<cache, slots>> /\ rows \in [Symbols -> RowType] /\ 0 \in Event
  BY <1>1, EventFacts DEF OpenStored, OpenFails, FindRow, CloseStored, insertTrade, CloseFails, EngineShape, RowsBacked
<1>4. job.pc # "trade" => Due = {}
  BY <1>2, NoneDueNow
<1>5. job.pc = "trade" => Due = {job.sym}
  BY DEF Due
<1>6. ~tainted => OneOf(rows, Due, slots, cache)
  BY DEF RepairInv, OneValue
<1>7. \A n \in Event : /\ cacheOpenPosition(job.sym, n) \in PositionOps /\ cacheOpenPosition(job.sym, n).val = n
                       /\ cacheOpenPosition(job.sym, n).sym = job.sym /\ cacheOpenPosition(job.sym, n) \in CacheOps
                       /\ appendRecentTrade(n) \in CacheOps /\ appendRecentTrade(n).key # "positions"
  BY <1>2, MadeOps DEF CacheOps
<1>8. ASSUME NEW n \in Event, n # 0 => rows'[job.sym] = OpenRow(n), job' = Caching(<<cacheOpenPosition(job.sym, n)>>)
      PROVE  RefreshCurrent' /\ Due' = {job.sym} /\ job'.pc = "load"
  <2> DEFINE op == cacheOpenPosition(job.sym, n)
             q == <<op>>
  <2>1. op \in PositionOps /\ op.val = n /\ op.sym = job.sym /\ op \in CacheOps
    BY <1>7
  <2>2. job' = Caching(q)
    BY <1>8
  <2> HIDE DEF op
  <2>3. q \in Seq(CacheOps) /\ q # <<>> /\ Head(q) = op /\ \A j \in DOMAIN q : j = 1
    BY <2>1, ShortLists
  <2> HIDE DEF q
  <2> QED BY <1>8, <2>1, <2>2, <2>3, PositionFirst
<1>9. CASE OpenStored
  <2>1. rows' = [rows EXCEPT ![job.sym] = OpenRow(job.id)] /\ UNCHANGED tainted /\ job.pc = "open"
    BY <1>9 DEF OpenStored, UpsertCommits, UpsertRow, OpenRow
  <2>2. rows'[job.sym] = OpenRow(job.id) /\ \A s \in Symbols : s \notin {job.sym} => rows'[s] = rows[s]
    BY <1>2, <1>3, <2>1
  <2>3. RefreshCurrent' /\ Due' = {job.sym} /\ job'.pc = "load"
    BY <1>2, <1>8, <1>9, <2>2 DEF OpenStored
  <2>4. ~tainted => OneOf(rows', {job.sym}, slots, cache)
    BY <1>4, <1>6, <2>1, <2>2, RowChanges
  <2> QED BY <1>3, <2>1, <2>3, <2>4 DEF RepairInv, OneValue
<1>10. CASE OpenFails \/ CloseFails
  <2>1. job'.pc = "idle"
    BY <1>10 DEF OpenFails, CloseFails, Idle
  <2>2. ~Refreshing' /\ Due' = {}
    BY <2>1, NoneDue
  <2>3. ~tainted' => ~tainted /\ UNCHANGED rows /\ Due = {}
    BY <1>4, <1>10 DEF OpenFails, CloseFails
  <2>4. OneValue'
    BY <1>3, <1>6, <2>1, <2>2, <2>3 DEF OneValue
  <2> QED BY <2>2, <2>4 DEF RepairInv, RefreshCurrent
<1>11. CASE FindRow
  <2>1. UNCHANGED <<rows, tainted>> /\ job' = [job EXCEPT !.pc = "update", !.found = rows[job.sym]] /\ job.pc = "find"
    BY <1>11 DEF FindRow, tables
  <2>2. job'.pc = "update"
    BY <1>2, <2>1 DEF Recording
  <2>3. ~Refreshing' /\ Due' = {}
    BY <2>2, NoneDue
  <2>4. OneValue'
    BY <1>3, <1>4, <1>6, <2>1, <2>2, <2>3 DEF OneValue
  <2> QED BY <2>3, <2>4 DEF RepairInv, RefreshCurrent
<1>12. CASE CloseStored
  <2>1. UpdateRow /\ UNCHANGED tainted /\ job.pc = "update"
    BY <1>12 DEF CloseStored
  <2>2. \A s \in Symbols : s \notin {job.sym} => rows'[s] = rows[s]
    BY <1>2, <1>3, <2>1 DEF UpdateRow
  <2>3. ~tainted => OneOf(rows', {job.sym}, slots, cache)
    BY <1>4, <1>6, <2>1, <2>2, RowChanges
  <2>4. CASE job.found = NoRow
    <3>1. job' = Caching(<<cacheOpenPosition(job.sym, 0)>>)
      BY <1>3, <1>7, <1>12, <2>4, ShortLists DEF CloseStored, CloseOps
    <3>2. RefreshCurrent' /\ Due' = {job.sym} /\ job'.pc = "load"
      BY <1>3, <1>8, <3>1
    <3> QED BY <1>3, <2>1, <2>3, <3>2 DEF RepairInv, OneValue
  <2>5. CASE job.found # NoRow
    <3>1. job' = [job EXCEPT !.pc = "trade"]
      BY <1>12, <2>5 DEF CloseStored
    <3>2. job'.pc = "trade" /\ job'.sym = job.sym
      BY <1>2, <3>1 DEF Recording
    <3>3. ~Refreshing' /\ Due' = {job.sym}
      BY <3>2 DEF Refreshing, Due
    <3> QED BY <1>3, <2>1, <2>3, <3>2, <3>3 DEF RepairInv, OneValue, RefreshCurrent
  <2> QED BY <2>4, <2>5
<1>13. CASE insertTrade
  <2> DEFINE a == cacheOpenPosition(job.sym, 0)
             b == appendRecentTrade(job.id)
             q == <<a>> \o <<b>>
  <2>1. UNCHANGED <<rows, tainted>> /\ job.pc = "trade" /\ job' = Caching(q)
    BY <1>13 DEF insertTrade, CloseOps
  <2>2. a \in PositionOps /\ a.val = 0 /\ a.sym = job.sym /\ a \in CacheOps /\ b \in CacheOps /\ b.key # "positions"
    BY <1>2, <1>3, <1>7
  <2> HIDE DEF a, b
  <2>3. q \in Seq(CacheOps) /\ q # <<>> /\ Head(q) = a /\ \A j \in DOMAIN q : j # 1 => q[j] = b
    BY <2>2, ShortLists
  <2> HIDE DEF q
  <2>4. RefreshCurrent' /\ Due' = {job.sym} /\ job'.pc = "load"
    BY <2>1, <2>2, <2>3, PositionFirst
  <2> QED BY <1>3, <1>5, <1>6, <2>1, <2>4 DEF RepairInv, OneValue
<1> QED BY <1>9, <1>10, <1>11, <1>12, <1>13

(* Which slots a positions value waits in after a failed write.            *)
LEMMA QueueWaits ==
  ASSUME EngineShape
  PROVE  \A task \in CacheTasks : handleCacheFailure(task) =>
           /\ ~(task.key = "positions" /\ task.mode = "set") =>
                /\ Waiting(slots') = Waiting(slots)
                /\ \A i \in Waiting(slots) : slots'[i].do = slots[i].do
           /\ slots' = slots \/ (task.key = "positions" /\ task.mode = "set" =>
                \E i \in Slot : /\ Waiting(slots') = Waiting(slots) \cup {i} /\ slots'[i].do = task)
<1> SUFFICES ASSUME NEW task \in CacheTasks, handleCacheFailure(task)
             PROVE  /\ ~(task.key = "positions" /\ task.mode = "set") =>
                         /\ Waiting(slots') = Waiting(slots)
                         /\ \A i \in Waiting(slots) : slots'[i].do = slots[i].do
                    /\ slots' = slots \/ (task.key = "positions" /\ task.mode = "set" =>
                         \E i \in Slot : /\ Waiting(slots') = Waiting(slots) \cup {i} /\ slots'[i].do = task)
  OBVIOUS
<1>1. \/ slots' = slots
      \/ \E i \in Slot : /\ slots[i] = NoTask /\ slots'[i] # NoTask /\ slots'[i].do = task
                         /\ \A k \in Slot : k # i => slots'[k] = slots[k]
  BY FailureQueued
<1>2. CASE slots' = slots
  BY <1>2
<1>3. ASSUME NEW i \in Slot, slots[i] = NoTask, slots'[i] # NoTask, slots'[i].do = task,
             \A k \in Slot : k # i => slots'[k] = slots[k]
      PROVE  /\ ~(task.key = "positions" /\ task.mode = "set") =>
                  /\ Waiting(slots') = Waiting(slots)
                  /\ \A k \in Waiting(slots) : slots'[k].do = slots[k].do
             /\ (task.key = "positions" /\ task.mode = "set" => Waiting(slots') = Waiting(slots) \cup {i} /\ slots'[i].do = task)
  BY <1>3 DEF Waiting
<1> QED BY <1>1, <1>2, <1>3

(* The value the refresh writes is the one that counts.                    *)
LEMMA ValueMatches ==
  ASSUME EngineInv, RepairInv, job.pc = "write", Op.key = "positions", Op \in HydrateOps \/ ~tainted
  PROVE  Waiting(slots) = {} /\ Match(rows, {}, Value)
<1>1. Refreshing /\ JobShape /\ TodoSound
  BY DEF Refreshing, EngineInv
<1>2. Op \in CacheOps /\ (NeedsLoad(Op) => Sound(Op.key, job.old))
  BY <1>1, JobFacts DEF TodoSound
<1>3. CASE Op \in PositionOps
  <2>1. Op.sym \in Symbols /\ Op.val \in Event /\ NeedsLoad(Op) /\ "whole" \notin DOMAIN Op /\ Op \notin HydrateOps
    BY <1>3, OpKinds, LoadKinds
  <2>2. Value = [job.old EXCEPT ![Op.sym] = Op.val]
    BY <2>1 DEF Value, Payload
  <2>3. job.old \in Position
    BY <1>2, <2>1 DEF Sound, Fit
  <2>4. Waiting(slots) = {} /\ Match(rows, Due, job.old) /\ Due = {Op.sym}
    BY <1>1, <1>3, <2>1 DEF RepairInv, OneValue, Due
  <2>5. Op.val # 0 => rows[Op.sym] = OpenRow(Op.val)
    BY <1>1, <1>3 DEF RepairInv, RefreshCurrent
  <2>6. \A s \in Symbols : Value[s] = IF s = Op.sym THEN Op.val ELSE job.old[s]
    BY <2>1, <2>2, <2>3 DEF Position
  <2>7. Match(rows, {}, Value)
    BY <2>4, <2>5, <2>6 DEF Match
  <2> QED BY <2>4, <2>7
<1>4. CASE Op \in HydrateOps
  <2>1. Value = Op.whole
    BY <1>4, OpKinds DEF Value, Payload
  <2> QED BY <1>1, <1>4, <2>1 DEF RepairInv, RefreshCurrent
<1> QED BY <1>2, <1>3, <1>4, OpKinds DEF CacheOps

(* A refresh that fails waits in the retry queue, one that succeeds brings *)
(* the table's value.                                                      *)
LEMMA RefreshRepair ==
  ASSUME EngineInv, RepairInv, LoadCache \/ LoadFails \/ WriteCache \/ WriteFails
  PROVE  RepairInv'
<1>1. EngineShape /\ JobShape /\ Refreshing /\ UNCHANGED <<rows, written, trades, convs, cycles>>
  BY DEF EngineInv, LoadCache, LoadFails, WriteCache, WriteFails, Refreshing, records, tables
<1>2. /\ job.todo \in Seq(CacheOps) /\ job.todo # <<>> /\ 1 \in DOMAIN job.todo
      /\ Op = job.todo[1] /\ Op \in CacheOps /\ Op.key \in Keys
  BY <1>1, JobFacts, OpKinds
<1>3. cache = [k \in Keys |-> cache[k]] /\ "positions" \in Keys
  BY <1>1 DEF EngineShape, Keys
<1>4. job.pc # "trade"
  BY <1>1 DEF Refreshing
<1>5. Op.key # "positions" => Op \notin PositionOps /\ Due = {}
  BY <1>4, OpKinds DEF Due
<1>6. RefreshCurrent /\ OneValue
  BY DEF RepairInv
<1>7. PositionsPending <=> Waiting(slots) # {}
  BY <1>1, PendingWaits
<1>8. ASSUME Done PROVE RefreshCurrent' /\ Due' = {} /\ ~(job'.pc = "write" /\ Op' \in PositionOps)
  <2> DEFINE q == Tail(job.todo)
  <2>1. q \in Seq(CacheOps) /\ \A j \in DOMAIN q : j + 1 \in DOMAIN job.todo /\ j + 1 # 1 /\ q[j] = job.todo[j + 1]
    BY <1>1, Rest
  <2>2. \A j \in DOMAIN job.todo : j # 1 => job.todo[j].key # "positions"
    BY <1>1, <1>6 DEF RefreshCurrent
  <2>3. job' = Caching(q)
    BY <1>8 DEF Done
  <2> HIDE DEF q
  <2>4. \A j \in DOMAIN q : q[j].key # "positions"
    BY <2>1, <2>2
  <2> QED BY <2>1, <2>3, <2>4, OtherRefreshes
<1>9. CASE LoadCache
  <2>1. job.pc = "load" /\ job' = [pc |-> "write", todo |-> job.todo, old |-> cache[Op.key]] /\ UNCHANGED <<cache, slots>>
    BY <1>9 DEF LoadCache
  <2>2. job'.pc = "write" /\ job'.todo = job.todo /\ job'.old = cache[Op.key] /\ Op' = Op
    BY <2>1 DEF Op
  <2>3. Refreshing' /\ Due' = Due
    BY <1>1, <1>4, <2>2 DEF Refreshing, Due
  <2>4. RefreshCurrent'
    BY <1>1, <1>6, <2>1, <2>2, <2>3 DEF RefreshCurrent
  <2>5. ASSUME ~tainted' PROVE ~tainted /\ (Op.key = "positions" => Waiting(slots) = {})
    BY <1>7, <1>9, <2>5 DEF LoadCache
  <2>6. Op \in PositionOps => Op.key = "positions"
    BY OpKinds
  <2>7. OneValue'
    <3> SUFFICES ASSUME ~tainted' PROVE OneOf(rows', Due', slots', cache')
                                        /\ (Op' \in PositionOps => Waiting(slots') = {} /\ Match(rows', Due', job'.old))
      BY DEF OneValue
    <3>1. OneOf(rows, Due, slots, cache)
      BY <1>6, <2>5 DEF OneValue
    <3>2. Op \in PositionOps => Waiting(slots) = {} /\ Match(rows, Due, cache[Op.key])
      BY <2>5, <2>6, <3>1 DEF OneOf
    <3> QED BY <1>1, <2>1, <2>2, <2>3, <3>1, <3>2
  <2> QED BY <2>4, <2>7 DEF RepairInv
<1>10. CASE LoadFails
  <2>1. Done /\ UNCHANGED <<cache, slots>>
    BY <1>10 DEF LoadFails
  <2>2. ~tainted' => ~tainted /\ Op.key # "positions"
    BY <1>10 DEF LoadFails
  <2>3. OneValue'
    BY <1>1, <1>5, <1>6, <1>8, <2>1, <2>2 DEF OneValue
  <2> QED BY <1>8, <2>1, <2>3 DEF RepairInv
<1>11. CASE WriteCache
  <2>1. Done /\ job.pc = "write" /\ cache' = [cache EXCEPT ![Op.key] = Value]
    BY <1>11 DEF WriteCache
  <2>2. Waiting(slots') = Waiting(slots) /\ \A i \in Waiting(slots) : slots'[i].do = slots[i].do
    <3>1. CASE UNCHANGED slots
      BY <3>1
    <3>2. CASE Op.key \in Hashed /\ handleCacheFailure(ExpireTask(Op.key))
      <4>1. ExpireTask(Op.key) \in CacheTasks /\ ExpireTask(Op.key).mode = "expire"
        BY <3>2, TaskFacts
      <4> QED BY <1>1, <3>2, <4>1, QueueWaits
    <3> QED BY <1>11, <3>1, <3>2 DEF WriteCache
  <2>3. OneValue'
    <3> SUFFICES ASSUME ~tainted' PROVE OneOf(rows', {}, slots', cache')
      BY <1>8, <2>1 DEF OneValue
    <3>1. CASE Op.key # "positions"
      <4>1. ~tainted /\ cache'["positions"] = cache["positions"]
        BY <1>3, <1>11, <2>1, <3>1 DEF WriteCache
      <4>2. OneOf(rows, {}, slots, cache)
        BY <1>5, <1>6, <3>1, <4>1 DEF OneValue
      <4> QED BY <1>1, <2>2, <4>1, <4>2 DEF OneOf
    <3>2. CASE Op.key = "positions"
      <4>1. Op \in HydrateOps \/ ~tainted
        <5>1. Op \in PositionOps \/ Op \in HydrateOps
          BY <1>2, <3>2, OpKinds DEF CacheOps
        <5>2. Op \in PositionOps => NeedsLoad(Op)
          BY LoadKinds
        <5> QED BY <1>11, <5>1, <5>2 DEF WriteCache
      <4>2. Waiting(slots) = {} /\ Match(rows, {}, Value)
        BY <2>1, <3>2, <4>1, ValueMatches
      <4>3. cache'["positions"] = Value
        BY <1>3, <2>1, <3>2
      <4> QED BY <1>1, <2>2, <4>2, <4>3 DEF OneOf
    <3> QED BY <3>1, <3>2
  <2> QED BY <1>8, <2>1, <2>3 DEF RepairInv
<1>12. CASE WriteFails
  <2> DEFINE task == SetTask(Op.key, Value)
  <2>1. Done /\ job.pc = "write" /\ cache' \in {cache, [cache EXCEPT ![Op.key] = Value]} /\ handleCacheFailure(task)
    BY <1>12 DEF WriteFails
  <2>2. task \in CacheTasks /\ task.key = Op.key /\ task.mode = "set" /\ task.val = Value
    BY <1>1, <2>1, Rest, TaskFacts DEF Sound
  <2>3. ~tainted' => ~tainted /\ (Op.key = "positions" => slots' # slots)
    BY <1>12 DEF WriteFails
  <2> HIDE DEF task
  <2>4. OneValue'
    <3> SUFFICES ASSUME ~tainted' PROVE OneOf(rows', {}, slots', cache')
      BY <1>8, <2>1 DEF OneValue
    <3>1. CASE Op.key # "positions"
      <4>1. ~tainted /\ cache'["positions"] = cache["positions"]
        BY <1>3, <2>1, <2>3, <3>1
      <4>2. OneOf(rows, {}, slots, cache)
        BY <1>5, <1>6, <3>1, <4>1 DEF OneValue
      <4>3. Waiting(slots') = Waiting(slots) /\ \A i \in Waiting(slots) : slots'[i].do = slots[i].do
        BY <1>1, <2>1, <2>2, <3>1, QueueWaits
      <4> QED BY <1>1, <4>1, <4>2, <4>3 DEF OneOf
    <3>2. CASE Op.key = "positions"
      <4>1. Waiting(slots) = {} /\ Match(rows, {}, Value)
        BY <2>1, <2>3, <3>2, ValueMatches
      <4>2. PICK i \in Slot : Waiting(slots') = Waiting(slots) \cup {i} /\ slots'[i].do = task
        BY <1>1, <2>1, <2>2, <2>3, <3>2, QueueWaits
      <4>3. Waiting(slots') = {i} /\ slots'[i].do.val = Value
        BY <2>2, <4>1, <4>2
      <4> QED BY <1>1, <4>1, <4>3 DEF OneOf
    <3> QED BY <3>1, <3>2
  <2> QED BY <1>8, <2>1, <2>4 DEF RepairInv
<1> QED BY <1>9, <1>10, <1>11, <1>12

(* A retry writes what it loads now, not what failed then.                 *)
LEMMA RetryRepair ==
  ASSUME EngineInv, RepairInv, NEW i \in Slot, EngineRetry(i)
  PROVE  RepairInv'
<1>1. EngineShape /\ engineTask(i) /\ UNCHANGED <<rows, job>>
  BY DEF EngineInv, EngineRetry, RetrySucceeds, RetryFails, records, tables
<1>2. slots \in [Slot -> {NoTask} \cup Tasks] /\ slots[i] # NoTask /\ slots[i].do.key \in Keys
  BY <1>1 DEF EngineShape, engineTask
<1>3. cache = [k \in Keys |-> cache[k]] /\ "positions" \in Keys
  BY <1>1 DEF EngineShape, Keys
<1>4. RefreshCurrent /\ OneValue
  BY DEF RepairInv
<1>5. Op' = Op /\ Due' = Due /\ (Refreshing' <=> Refreshing)
  BY <1>1 DEF Op, Due, Refreshing
<1>6. /\ \A k \in Slot : k # i => slots'[k] = slots[k]
      /\ slots'[i] # NoTask => slots'[i].do = slots[i].do
  <2>1. CASE Release(i)
    BY <1>2, <2>1 DEF Release
  <2>2. CASE AttemptFails(i, slots[i].do)
    BY <1>1, <1>2, <2>2, AttemptKeeps
  <2> QED BY <2>1, <2>2 DEF EngineRetry, RetrySucceeds, RetryFails
<1>7. /\ Waiting(slots') \subseteq Waiting(slots) /\ \A k \in Waiting(slots') : slots'[k].do = slots[k].do
      /\ i \notin Waiting(slots) => Waiting(slots') = Waiting(slots)
      /\ slots'[i] # NoTask => Waiting(slots') = Waiting(slots)
  BY <1>2, <1>6 DEF Waiting
<1>8. RefreshCurrent'
  BY <1>1, <1>4, <1>5, <1>7 DEF RefreshCurrent
<1>9. cache' \in {cache, TaskApplied(slots[i].do)}
  BY DEF EngineRetry, RetrySucceeds, RetryFails
<1>10. i \in Waiting(slots) <=> PositionsIn(i)
  BY DEF Waiting, PositionsIn
<1>11. ASSUME ~tainted' PROVE ~tainted /\ (i \in Waiting(slots) => slots'[i] # NoTask \/ RetrySucceeds(i))
  <2>1. CASE RetrySucceeds(i)
    BY <1>11, <2>1 DEF RetrySucceeds
  <2>2. CASE RetryFails(i)
    <3>1. tainted' = (tainted \/ (PositionsIn(i) /\ slots'[i] = NoTask))
      BY <2>2 DEF RetryFails
    <3> QED BY <1>10, <1>11, <3>1
  <2> QED BY <2>1, <2>2 DEF EngineRetry
<1>12. i \notin Waiting(slots) => cache'["positions"] = cache["positions"]
  <2>1. CASE cache' = cache
    BY <2>1
  <2>2. CASE cache' # cache /\ i \notin Waiting(slots)
    <3>1. slots[i].do.mode = "set" /\ cache' = [cache EXCEPT ![slots[i].do.key] = slots[i].do.val]
      BY <1>9, <2>2 DEF TaskApplied
    <3>2. slots[i].do.key # "positions"
      BY <1>2, <2>2, <3>1 DEF Waiting
    <3> QED BY <1>3, <3>1, <3>2
  <2> QED BY <2>1, <2>2
<1>13. OneValue'
  <2> SUFFICES ASSUME ~tainted' PROVE OneOf(rows', Due', slots', cache')
                 /\ (job'.pc = "write" /\ Op' \in PositionOps => Waiting(slots') = {} /\ Match(rows', Due', job'.old))
    BY DEF OneValue
  <2>1. /\ OneOf(rows, Due, slots, cache)
        /\ job.pc = "write" /\ Op \in PositionOps => Waiting(slots) = {} /\ Match(rows, Due, job.old)
    BY <1>4, <1>11 DEF OneValue
  <2>2. job'.pc = "write" /\ Op' \in PositionOps => Waiting(slots') = {} /\ Match(rows', Due', job'.old)
    BY <1>1, <1>5, <1>7, <2>1
  <2>3. CASE i \notin Waiting(slots)
    <3>1. OneOf(rows, Due, slots', cache')
      BY <1>7, <1>12, <2>1, <2>3 DEF OneOf
    <3> QED BY <1>1, <1>5, <2>2, <3>1
  <2>4. CASE i \in Waiting(slots) /\ slots'[i] # NoTask
    <3>1. Waiting(slots') = Waiting(slots) /\ Waiting(slots) # {}
      BY <1>7, <2>4
    <3>2. OneOf(rows, Due, slots', cache')
      BY <1>7, <2>1, <3>1 DEF OneOf
    <3> QED BY <1>1, <1>5, <2>2, <3>2
  <2>5. CASE i \in Waiting(slots) /\ slots'[i] = NoTask
    <3>1. RetrySucceeds(i)
      BY <1>11, <2>5
    <3>2. slots[i].do.mode = "set" /\ slots[i].do.key = "positions"
      BY <2>5 DEF Waiting
    <3>3. cache' = [cache EXCEPT !["positions"] = slots[i].do.val]
      BY <3>1, <3>2 DEF RetrySucceeds, TaskApplied
    <3>4. cache'["positions"] = slots[i].do.val
      BY <1>3, <3>3
    <3>5. Match(rows, Due, slots[i].do.val) /\ \A k \in Waiting(slots) : k = i
      BY <2>1, <2>5 DEF OneOf
    <3>6. i \notin Waiting(slots')
      BY <2>5 DEF Waiting
    <3>7. Waiting(slots') = {}
      BY <1>7, <3>5, <3>6
    <3>8. OneOf(rows, Due, slots', cache')
      BY <3>4, <3>5, <3>7 DEF OneOf
    <3> QED BY <1>1, <1>5, <2>2, <3>8
  <2> QED BY <2>3, <2>4, <2>5
<1> QED BY <1>8, <1>13 DEF RepairInv

(* A key that expires shows no old value.                                  *)
LEMMA ExpireRepair ==
  ASSUME EngineInv, RepairInv, NEW k \in Keys, Expire(k)
  PROVE  RepairInv'
<1>1. EngineShape /\ UNCHANGED <<rows, job, slots>> /\ cache' = [cache EXCEPT ![k] = Empty(k)]
  BY DEF EngineInv, Expire, records, tables
<1>2. cache = [c \in Keys |-> cache[c]] /\ "positions" \in Keys
  BY <1>1 DEF EngineShape, Keys
<1>3. RefreshCurrent /\ OneValue
  BY DEF RepairInv
<1>4. Op' = Op /\ Due' = Due /\ (Refreshing' <=> Refreshing)
  BY <1>1 DEF Op, Due, Refreshing
<1>5. RefreshCurrent'
  BY <1>1, <1>3, <1>4 DEF RefreshCurrent
<1>6. cache'["positions"] = cache["positions"] \/ cache'["positions"] = NoPositions
  BY <1>1, <1>2 DEF Empty
<1>7. PositionsPending <=> Waiting(slots) # {}
  BY <1>1, PendingWaits
<1>8. OneValue'
  <2>1. CASE ~tainted
    <3>1. OneOf(rows, Due, slots, cache')
      BY <1>3, <1>6, <2>1, Matching DEF OneValue, OneOf
    <3> QED BY <1>1, <1>3, <1>4, <2>1, <3>1 DEF OneValue
  <2>2. CASE tainted /\ ~tainted'
    <3>1. k = "positions" /\ job = Idle /\ Waiting(slots) = {}
      BY <1>7, <2>2 DEF Expire
    <3>2. cache'["positions"] = NoPositions
      BY <1>1, <1>2, <3>1 DEF Empty
    <3>3. OneOf(rows, Due, slots, cache')
      BY <3>1, <3>2, Matching DEF OneOf
    <3>4. job'.pc = "idle"
      BY <1>1, <3>1 DEF Idle
    <3> QED BY <1>1, <1>4, <3>3, <3>4 DEF OneValue
  <2>3. CASE tainted'
    BY <2>3 DEF OneValue
  <2> QED BY <2>1, <2>2, <2>3
<1> QED BY <1>5, <1>8 DEF RepairInv

(* The restart after a crash makes a refresh of all positions due.         *)
LEMMA CrashRepair ==
  ASSUME EngineInv, RepairInv, EngineCrash
  PROVE  RepairInv'
<1>1. PICK todo \in HydrateCaches : job' = Caching(todo)
  BY DEF EngineCrash
<1>2. UNCHANGED <<rows, cache>> /\ slots' = [i \in Slot |-> NoTask] /\ EngineShape
  BY DEF EngineCrash, tables, QueueLost, EngineInv
<1>3. Waiting(slots') = {}
  BY <1>2 DEF Waiting
<1>4. todo \in Seq(CacheOps) /\ \A j \in DOMAIN todo : HydratedOp(todo[j]) /\ (j # 1 => todo[j].key # "positions")
  BY Hydrated
<1>5. PositionsPending <=> Waiting(slots) # {}
  BY <1>2, PendingWaits
<1>6. ASSUME ~tainted' PROVE OneOf(rows, {}, slots', cache)
  <2>1. ~tainted /\ job = Idle /\ Waiting(slots) = {}
    BY <1>5, <1>6 DEF EngineCrash
  <2>2. job.pc = "idle"
    BY <2>1 DEF Idle
  <2>3. Due = {}
    BY <2>2, NoneDueNow
  <2>4. Match(rows, {}, cache["positions"])
    BY <2>1, <2>3 DEF RepairInv, OneValue, OneOf
  <2> QED BY <1>3, <2>4 DEF OneOf
<1>7. ASSUME Due' = {}, ~(job'.pc = "write" /\ Op' \in PositionOps) PROVE OneValue'
  BY <1>2, <1>6, <1>7 DEF OneValue
<1>8. CASE todo = <<>>
  <2>1. job'.pc = "idle"
    BY <1>1, <1>4, <1>8, CachingMoves
  <2>2. ~Refreshing' /\ Due' = {}
    BY <2>1, NoneDue
  <2> QED BY <1>7, <2>1, <2>2 DEF RepairInv, RefreshCurrent
<1>9. CASE todo # <<>>
  <2>1. job'.todo = todo /\ job'.pc \in {"load", "write"}
    BY <1>1, <1>4, <1>9, CachingMoves
  <2>2. Op' = todo[1] /\ 1 \in DOMAIN todo
    BY <1>4, <1>9, <2>1 DEF Op
  <2>3. Op' \in HydrateOps /\ (Op'.key = "positions" => Match(rows, {}, Op'.whole))
    BY <1>4, <2>2 DEF HydratedOp
  <2>4. Op' \notin PositionOps
    BY <2>3, LoadKinds
  <2>5. Due' = {}
    BY <2>1, <2>4 DEF Due
  <2>6. RefreshCurrent'
    BY <1>2, <1>3, <1>4, <2>1, <2>3, <2>4 DEF RefreshCurrent
  <2> QED BY <1>7, <2>4, <2>5, <2>6 DEF RepairInv
<1> QED BY <1>8, <1>9

(* Every step keeps the value that counts right, or taints it.             *)
LEMMA RepairNext == EngineInv /\ RepairInv /\ [EngineNext]_engineVars => RepairInv'
<1> SUFFICES ASSUME EngineInv, RepairInv, [EngineNext]_engineVars PROVE RepairInv'
  OBVIOUS
<1>1. ASSUME NEW s \in Symbols, RecordOpen(s) \/ RecordClose(s) \/ Released(s) \/ Adopted(s) PROVE RepairInv'
  BY <1>1, EventRepair
<1>2. CASE RecordDecisionCycle \/ RecordConversation \/ RecordAnalytics
  BY <1>2, EventRepair
<1>3. CASE EngineStep
  BY <1>3, TableRepair, RefreshRepair DEF EngineStep
<1>4. ASSUME NEW i \in Slot, EngineRetry(i) PROVE RepairInv'
  BY <1>4, RetryRepair
<1>5. ASSUME NEW k \in Keys, Expire(k) PROVE RepairInv'
  BY <1>5, ExpireRepair
<1>6. CASE EngineCrash
  BY <1>6, CrashRepair
<1>7. CASE UNCHANGED engineVars
  BY <1>7 DEF engineVars, RepairInv, RefreshCurrent, OneValue, Refreshing, Op, Due
<1> QED BY <1>1, <1>2, <1>3, <1>4, <1>5, <1>6, <1>7 DEF EngineNext

(* The retry queue repairs failed writes of the positions value: when it   *)
(* has drained and no refresh was lost, skipped or overtaken, every cached *)
(* position is open in the table with the same entry.                      *)
THEOREM RetriesRepair == EngineSpec => []RetryRepairs
<1>1. EngineInit => RepairInv
  BY RepairInit
<1>2. EngineInv /\ RepairInv /\ [EngineNext]_engineVars => RepairInv'
  BY RepairNext
<1>3. EngineInv /\ RepairInv => RetryRepairs
  <2> SUFFICES ASSUME EngineInv, RepairInv, job = Idle, ~PositionsPending, ~tainted
               PROVE  \A s \in Symbols : cache["positions"][s] # 0 =>
                        rows[s] = [status |-> "open", entry |-> cache["positions"][s]]
    BY DEF RetryRepairs
  <2>1. Waiting(slots) = {}
    BY PendingWaits DEF EngineInv
  <2>2. job.pc = "idle"
    BY DEF Idle
  <2>3. Due = {}
    BY <2>2, NoneDueNow
  <2>4. Match(rows, {}, cache["positions"])
    BY <2>1, <2>3 DEF RepairInv, OneValue, OneOf
  <2> QED BY <2>4 DEF Match, OpenRow
<1> QED BY <1>1, <1>2, <1>3, EngineInvariant, PTL DEF EngineSpec

-------------------------------------------------------------------------------
(* A queued retry runs down.                                               *)

(* What a step may do to a slot that is taken: free it, or put the same    *)
(* captured write back as the next attempt, which there still is.          *)
SlotRunsDown(i) ==
  slots[i] # NoTask =>
    \/ slots'[i] \in {slots[i], NoTask}
    \/ /\ slots[i].attempt < MaxAttempts
       /\ slots'[i] = [do |-> slots[i].do, attempt |-> slots[i].attempt + 1]

(* No step puts another task over one that is queued, changes the value it *)
(* captured, or takes an attempt back.                                     *)
RetriesRunDown == \A i \in Slot : SlotRunsDown(i)

(* A new failure takes a free slot, or none.                               *)
LEMMA FailureTakesFree ==
  ASSUME EngineShape, NEW task, handleCacheFailure(task)
  PROVE  RetriesRunDown
<1>1. slots' = slots \/ \E i \in Slot : slots[i] = NoTask /\ slots' = [slots EXCEPT ![i] = [do |-> task, attempt |-> 1]]
  BY DEF handleCacheFailure, Enqueue, Free
<1>2. slots \in [Slot -> {NoTask} \cup Tasks]
  BY DEF EngineShape
<1>3. CASE slots' = slots
  BY <1>3 DEF RetriesRunDown, SlotRunsDown
<1>4. ASSUME NEW i \in Slot, slots[i] = NoTask, slots' = [slots EXCEPT ![i] = [do |-> task, attempt |-> 1]]
      PROVE  RetriesRunDown
  <2>1. \A k \in Slot : k # i => slots'[k] = slots[k]
    BY <1>2, <1>4
  <2> QED BY <1>4, <2>1 DEF RetriesRunDown, SlotRunsDown
<1> QED BY <1>1, <1>3, <1>4

(* An attempt of one slot leaves the others alone.                         *)
LEMMA AttemptRunsDown ==
  ASSUME EngineShape, NEW i \in Slot, slots[i] # NoTask, Release(i) \/ AttemptFails(i, slots[i].do)
  PROVE  RetriesRunDown
<1>1. slots \in [Slot -> {NoTask} \cup Tasks]
  BY DEF EngineShape
<1>2. CASE Release(i)
  <2>1. slots'[i] = NoTask /\ \A k \in Slot : k # i => slots'[k] = slots[k]
    BY <1>1, <1>2 DEF Release
  <2> QED BY <2>1 DEF RetriesRunDown, SlotRunsDown
<1>3. CASE slots[i].attempt < MaxAttempts
           /\ slots' = [slots EXCEPT ![i] = [do |-> slots[i].do, attempt |-> @.attempt + 1]]
  <2>1. /\ slots'[i] = [do |-> slots[i].do, attempt |-> slots[i].attempt + 1]
        /\ \A k \in Slot : k # i => slots'[k] = slots[k]
    BY <1>1, <1>3
  <2> QED BY <1>3, <2>1 DEF RetriesRunDown, SlotRunsDown
<1> QED BY <1>2, <1>3 DEF AttemptFails

(* Only a failed write, an attempt and a crash touch the queue.            *)
LEMMA EngineRunsDown == EngineInv /\ [EngineNext]_engineVars => RetriesRunDown
<1> SUFFICES ASSUME EngineInv, [EngineNext]_engineVars PROVE RetriesRunDown
  OBVIOUS
<1>0. EngineShape
  BY DEF EngineInv
<1>1. CASE UNCHANGED slots
  BY <1>1 DEF RetriesRunDown, SlotRunsDown
<1>2. CASE WriteCache \/ WriteFails
  <2>1. UNCHANGED slots \/ \E task : handleCacheFailure(task)
    BY <1>2 DEF WriteCache, WriteFails
  <2> QED BY <1>0, <1>1, <2>1, FailureTakesFree
<1>3. ASSUME NEW i \in Slot, EngineRetry(i) PROVE RetriesRunDown
  <2>1. slots[i] # NoTask /\ (Release(i) \/ AttemptFails(i, slots[i].do))
    BY <1>3 DEF EngineRetry, RetrySucceeds, RetryFails, engineTask
  <2> QED BY <1>0, <2>1, AttemptRunsDown
<1>4. CASE EngineCrash
  BY <1>4 DEF EngineCrash, QueueLost, RetriesRunDown, SlotRunsDown
<1>5. ASSUME NEW s \in Symbols, RecordOpen(s) \/ RecordClose(s) \/ Released(s) \/ Adopted(s) PROVE UNCHANGED slots
  BY <1>5 DEF RecordOpen, RecordClose, Released, Adopted
<1>6. CASE RecordDecisionCycle \/ RecordConversation \/ RecordAnalytics
  BY <1>1, <1>6 DEF RecordDecisionCycle, RecordConversation, RecordAnalytics
<1>7. CASE EngineStep
  <2>1. CASE OpenStored \/ OpenFails \/ FindRow \/ CloseStored \/ insertTrade \/ CloseFails
    BY <1>1, <2>1 DEF OpenStored, OpenFails, FindRow, CloseStored, insertTrade, CloseFails
  <2>2. CASE LoadCache \/ LoadFails
    BY <1>1, <2>2 DEF LoadCache, LoadFails
  <2> QED BY <1>2, <1>7, <2>1, <2>2 DEF EngineStep
<1>8. ASSUME NEW k \in Keys, Expire(k) PROVE UNCHANGED slots
  BY <1>8 DEF Expire
<1>9. CASE UNCHANGED engineVars
  BY <1>1, <1>9 DEF engineVars
<1> QED BY <1>1, <1>3, <1>4, <1>5, <1>6, <1>7, <1>8, <1>9 DEF EngineNext

(* The queue never loses a captured write to a newer failure and never     *)
(* retries one for ever: from the moment it is queued a task keeps its     *)
(* slot and its value, every step of its slot is the next of MaxAttempts   *)
(* attempts or its end, and only its own goroutine, or the death of the    *)
(* process, ends it.  This is the safety half of RetriesDrain.             *)
THEOREM QueuedRetriesRunDown == EngineSpec => [][RetriesRunDown]_engineVars
<1>1. EngineInv /\ [EngineNext]_engineVars => [RetriesRunDown]_engineVars
  BY EngineRunsDown
<1> QED BY <1>1, EngineInvariant, PTL DEF EngineSpec
===============================================================================
