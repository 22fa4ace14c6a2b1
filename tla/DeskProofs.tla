------------------------------ MODULE DeskProofs ------------------------------
(***************************************************************************)
(* Proofs about three components around the trading core, for any values   *)
(* of their constants: the in-memory control queue, the token budget of    *)
(* the LLM client and the decision cycle.                                  *)
(***************************************************************************)
EXTENDS CommandQueue, LLMClient, DecisionCheck, FiniteSetTheorems, SequenceTheorems, TLAPS

-------------------------------------------------------------------------------
(* CommandQueue.                                                           *)

Indexes == {"decision", "order"} \X CommandRefs \X {"approve", "reject", "other"} \X (IdemKeys \cup {NoKey})

IsFunction(f) == f = [x \in DOMAIN f |-> f[x]]

(* The maps are functions; commands are numbered in the order they came.   *)
QueueShape ==
  /\ queue = [seq |-> queue.seq, commands |-> queue.commands, byID |-> queue.byID,
              toID |-> queue.toID, toIndex |-> queue.toIndex]
  /\ queue.seq \in Nat /\ queue.commands \in Seq(Nat)
  /\ IsFunction(queue.byID) /\ IsFunction(queue.toID) /\ IsFunction(queue.toIndex)
  /\ DOMAIN queue.byID \subseteq 1..queue.seq
  /\ \A id \in DOMAIN queue.byID :
       /\ queue.byID[id] \in Indexes
       /\ queue.byID[id][4] # NoKey => id \in DOMAIN queue.toIndex /\ queue.byID[id] \in DOMAIN queue.toID
  /\ \A i \in DOMAIN queue.toID : queue.toID[i] \in DOMAIN queue.byID /\ i[4] # NoKey
  /\ handler = [h \in Handlers |-> handler[h]]
  /\ \A h \in Handlers : handler[h] = [st |-> handler[h].st, id |-> handler[h].id]

(* A command is audited by the handler that made it, and only while that   *)
(* handler is neither idle nor about to take the command back.             *)
HandlersOwn ==
  /\ \A h \in Handlers :
       \/ handler[h] = IdleHandler
       \/ /\ handler[h].st \in {"auditing", "removing"}
          /\ handler[h].id \in DOMAIN queue.byID \ audited
  /\ \A h, g \in Handlers : handler[h].id = handler[g].id /\ handler[h].id # 0 => h = g
  /\ audited \subseteq 1..queue.seq

QueueInv == QueueShape /\ HandlersOwn /\ QueueConsistent

(* The empty queue.                                                        *)
LEMMA QueueInitHolds == CommandQueueInit => QueueInv
<1> SUFFICES ASSUME CommandQueueInit PROVE QueueInv
  OBVIOUS
<1>1. /\ queue.seq = 0 /\ queue.commands = <<>> /\ queue.byID = <<>> /\ queue.toID = <<>>
      /\ queue.toIndex = <<>> /\ audited = {} /\ accepted = {}
      /\ \A h \in Handlers : handler[h] = IdleHandler
      /\ handler = [h \in Handlers |-> handler[h]]
  BY DEF CommandQueueInit
<1>2. QueueShape
  BY <1>1 DEF CommandQueueInit, QueueShape, IsFunction, IdleHandler
<1>3. HandlersOwn
  BY <1>1 DEF HandlersOwn, IdleHandler
<1>4. QueueConsistent
  BY <1>1 DEF QueueConsistent, ToSet
<1> QED BY <1>2, <1>3, <1>4 DEF QueueInv

(* Remove's loop over an ordered list of commands.                         *)
LEMMA RemoveFirstFacts ==
  ASSUME NEW s \in Seq(Nat), NEW e \in Nat,
         \A i, j \in DOMAIN s : i < j => s[i] < s[j]
  PROVE  LET r == RemoveFirst(s, e)
         IN  /\ r \in Seq(Nat) /\ ToSet(r) = ToSet(s) \ {e}
             /\ \A i, j \in DOMAIN r : i < j => r[i] < r[j]
<1> DEFINE r == RemoveFirst(s, e)
<1> SUFFICES /\ r \in Seq(Nat) /\ ToSet(r) = ToSet(s) \ {e}
             /\ \A i, j \in DOMAIN r : i < j => r[i] < r[j]
  OBVIOUS
<1>0. DOMAIN s = 1..Len(s) /\ Len(s) \in Nat /\ \A i \in DOMAIN s : s[i] \in Nat
  OBVIOUS
<1>1. CASE ~\E i \in 1..Len(s) : s[i] = e
  <2>1. r = s
    BY <1>1 DEF RemoveFirst
  <2>2. ToSet(s) = ToSet(s) \ {e}
    BY <1>0, <1>1 DEF ToSet
  <2> HIDE DEF r
  <2> QED BY <2>1, <2>2
<1>2. CASE \E i \in 1..Len(s) : s[i] = e
  <2>1. PICK k \in 1..Len(s) : s[k] = e
    BY <1>2
  <2>0. k \in Int /\ Len(s) \in Nat
    BY <1>0, <2>1
  <2>2. \A i \in 1..Len(s) : s[i] = e => i = k
    BY <1>0, <2>1
  <2>3. {i \in 1..Len(s) : s[i] = e} = {k}
    BY <2>1, <2>2
  <2>4. Min({k}) = k
    BY <2>1 DEF Min
  <2>5. SelectInSeq(s, LAMBDA v : v = e) = k
    BY <2>3, <2>4, Zenon DEF SelectInSeq
  <2>6. r = SubSeq(s, 1, k - 1) \o SubSeq(s, k + 1, Len(s))
    BY <1>2, <2>5 DEF RemoveFirst, RemoveAt
  <2> HIDE DEF r
  <2>7. /\ r \in Seq(Nat) /\ Len(r) = Len(s) - 1 /\ DOMAIN r = 1..(Len(s) - 1)
        /\ \A i \in 1..(Len(s) - 1) : r[i] = IF i < k THEN s[i] ELSE s[i + 1]
    <3> DEFINE a == SubSeq(s, 1, k - 1)
               b == SubSeq(s, k + 1, Len(s))
    <3>1. a \in Seq(Nat) /\ Len(a) = k - 1 /\ \A i \in 1..(k - 1) : a[i] = s[i]
      BY <1>0, <2>1, SubSeqProperties
    <3>2. b \in Seq(Nat) /\ Len(b) = Len(s) - k /\ \A i \in 1..(Len(s) - k) : b[i] = s[k + i]
      <4>1. /\ b \in Seq(Nat)
            /\ Len(b) = IF k + 1 <= Len(s) THEN Len(s) - (k + 1) + 1 ELSE 0
            /\ \A i \in 1..(Len(s) - (k + 1) + 1) : b[i] = s[(k + 1) + i - 1]
        BY <1>0, <2>1, SubSeqProperties
      <4>2. k \in Nat /\ k <= Len(s)
        BY <1>0, <2>1
      <4>3. \A n \in Nat, m \in Nat : m <= n =>
              n - (m + 1) + 1 = n - m /\ (m + 1 <= n \/ n - m = 0)
        OBVIOUS
      <4>4. \A i \in 1..(Len(s) - k) : (k + 1) + i - 1 = k + i
        BY <4>2
      <4> HIDE DEF b
      <4> QED BY <1>0, <4>1, <4>2, <4>3, <4>4
    <3> HIDE DEF a, b
    <3>3. r = a \o b
      BY <2>6 DEF a, b
    <3>4. /\ r \in Seq(Nat) /\ Len(r) = Len(s) - 1
          /\ \A i \in 1..(Len(s) - 1) : r[i] = IF i <= k - 1 THEN a[i] ELSE b[i - (k - 1)]
      <4>1. /\ a \o b \in Seq(Nat) /\ Len(a \o b) = Len(a) + Len(b)
            /\ \A i \in 1..(Len(a) + Len(b)) : (a \o b)[i] = IF i <= Len(a) THEN a[i] ELSE b[i - Len(a)]
        BY <3>1, <3>2, ConcatProperties
      <4>2. (k - 1) + (Len(s) - k) = Len(s) - 1
        BY <1>0, <2>1
      <4> QED BY <3>1, <3>2, <3>3, <4>1, <4>2, Zenon
    <3>5. \A i \in 1..(Len(s) - 1) : ~(i <= k - 1) => i - (k - 1) \in 1..(Len(s) - k) /\ k + (i - (k - 1)) = i + 1
      BY <1>0, <2>1
    <3>6. \A i \in 1..(Len(s) - 1) : i <= k - 1 <=> i < k
      BY <1>0, <2>1
    <3>7. ASSUME NEW i \in 1..(Len(s) - 1) PROVE r[i] = IF i < k THEN s[i] ELSE s[i + 1]
      <4>1. CASE i <= k - 1
        <5>1. i \in 1..(k - 1)
          BY <1>0, <2>1, <4>1
        <5>2. r[i] = a[i] /\ a[i] = s[i]
          BY <3>1, <3>4, <4>1, <5>1, Zenon
        <5> QED BY <3>6, <4>1, <5>2, Zenon
      <4>2. CASE ~(i <= k - 1)
        <5>1. i - (k - 1) \in 1..(Len(s) - k) /\ k + (i - (k - 1)) = i + 1
          BY <3>5, <4>2, Zenon
        <5>2. r[i] = b[i - (k - 1)] /\ b[i - (k - 1)] = s[k + (i - (k - 1))]
          BY <3>2, <3>4, <4>2, <5>1, Zenon
        <5> QED BY <3>6, <4>2, <5>1, <5>2, Zenon
      <4> QED BY <4>1, <4>2, Zenon
    <3> QED BY <3>4, <3>7
  <2>8. \A i, j \in DOMAIN r : i < j => r[i] < r[j]
    <3> SUFFICES ASSUME NEW i \in 1..(Len(s) - 1), NEW j \in 1..(Len(s) - 1), i < j
                 PROVE  r[i] < r[j]
      BY <2>7
    <3>1. i < j + 1 /\ i + 1 < j + 1 /\ i \in DOMAIN s /\ i + 1 \in DOMAIN s /\ j \in DOMAIN s /\ j + 1 \in DOMAIN s
      BY <1>0
    <3>2. s[i] < s[j] /\ s[i] < s[j + 1] /\ s[i + 1] < s[j + 1]
      BY <3>1
    <3>3. j < k => i < k
      BY <2>1
    <3>4. r[i] = (IF i < k THEN s[i] ELSE s[i + 1]) /\ r[j] = (IF j < k THEN s[j] ELSE s[j + 1])
      BY <2>7
    <3> QED BY <3>2, <3>3, <3>4, Zenon
  <2>9. ToSet(r) = ToSet(s) \ {e}
    <3>1. ASSUME NEW i \in DOMAIN r PROVE r[i] \in ToSet(s) \ {e}
      <4>0. i \in 1..(Len(s) - 1) /\ k \in Int /\ Len(s) \in Nat
        BY <2>7, <2>0, Zenon
      <4>1. i \in 1..Len(s) /\ i + 1 \in 1..Len(s) /\ (i < k => i # k) /\ (~(i < k) => i + 1 # k)
        BY <4>0
      <4>2. PICK n \in 1..Len(s) : r[i] = s[n] /\ n # k
        BY <2>7, <4>0, <4>1, Zenon
      <4> QED BY <1>0, <2>2, <4>2 DEF ToSet
    <3>2. ASSUME NEW i \in DOMAIN s, s[i] # e PROVE s[i] \in ToSet(r)
      <4>1. CASE i < k
        <5>1. i \in 1..(Len(s) - 1)
          BY <1>0, <2>1, <4>1
        <5>2. i \in DOMAIN r /\ r[i] = s[i]
          BY <2>7, <4>1, <5>1, Zenon
        <5> QED BY <5>2 DEF ToSet
      <4>2. CASE i > k
        <5>1. i - 1 \in 1..(Len(s) - 1) /\ ~(i - 1 < k) /\ (i - 1) + 1 = i
          BY <1>0, <2>1, <4>2
        <5>2. i - 1 \in DOMAIN r /\ r[i - 1] = s[i]
          BY <2>7, <5>1, Zenon
        <5> QED BY <5>2 DEF ToSet
      <4> QED BY <1>0, <2>1, <3>2, <4>1, <4>2
    <3> QED BY <3>1, <3>2 DEF ToSet
  <2> QED BY <2>7, <2>8, <2>9
<1> QED BY <1>1, <1>2

(* An entry above all others goes to the end of an ordered list.           *)
LEMMA AppendOrdered ==
  ASSUME NEW s \in Seq(Nat), NEW e \in Nat, \A x \in ToSet(s) : x < e,
         \A i, j \in DOMAIN s : i < j => s[i] < s[j]
  PROVE  /\ Append(s, e) \in Seq(Nat) /\ ToSet(Append(s, e)) = ToSet(s) \cup {e}
         /\ \A i, j \in DOMAIN Append(s, e) : i < j => Append(s, e)[i] < Append(s, e)[j]
<1> DEFINE r == Append(s, e)
<1>1. DOMAIN s = 1..Len(s) /\ Len(s) \in Nat
  OBVIOUS
<1>2. /\ r \in Seq(Nat) /\ DOMAIN r = 1..(Len(s) + 1)
      /\ \A i \in 1..Len(s) : r[i] = s[i]
      /\ r[Len(s) + 1] = e
  OBVIOUS
<1> HIDE DEF r
<1>3. ToSet(r) = ToSet(s) \cup {e}
  <2>1. ASSUME NEW i \in DOMAIN r PROVE r[i] \in ToSet(s) \cup {e}
    <3>1. i \in DOMAIN s \/ i = Len(s) + 1
      BY <1>1, <1>2
    <3> QED BY <1>1, <1>2, <3>1 DEF ToSet
  <2>2. ASSUME NEW i \in DOMAIN s PROVE s[i] \in ToSet(r)
    <3>1. i \in DOMAIN r /\ r[i] = s[i]
      BY <1>1, <1>2
    <3> QED BY <3>1 DEF ToSet
  <2>3. Len(s) + 1 \in DOMAIN r
    BY <1>1, <1>2
  <2> QED BY <1>2, <2>1, <2>2, <2>3 DEF ToSet
<1>4. ASSUME NEW i \in DOMAIN r, NEW j \in DOMAIN r, i < j PROVE r[i] < r[j]
  <2>1. i \in DOMAIN s /\ r[i] = s[i] /\ (j \in DOMAIN s \/ j = Len(s) + 1)
    BY <1>1, <1>2, <1>4
  <2>2. CASE j \in DOMAIN s
    BY <1>1, <1>2, <1>4, <2>1, <2>2
  <2>3. CASE j = Len(s) + 1
    BY <1>2, <2>1, <2>3 DEF ToSet
  <2> QED BY <2>1, <2>2, <2>3
<1> QED BY <1>2, <1>3, <1>4 DEF r

(* Enqueue makes a command: its number is new, and so is its key.          *)
LEMMA EnqueueKeeps ==
  ASSUME QueueInv, NEW h \in Handlers, NEW r \in CommandRequests, EnqueueCommand(h, r)
  PROVE  QueueInv'
<1>1. audited' = audited /\ accepted' = accepted /\ handler[h].st = "idle"
  BY DEF EnqueueCommand
<1>2. CASE UNCHANGED <<queue, handler>>
  BY <1>1, <1>2 DEF QueueInv, QueueShape, HandlersOwn, QueueConsistent
<1> DEFINE id == queue.seq + 1
           ix == idempotencyIndex(r)
<1>3. CASE /\ Reusable(r) = {} /\ queue' = Appended(r, id)
           /\ handler' = [handler EXCEPT ![h] = [st |-> "auditing", id |-> id]]
  <2>1. /\ ix \in Indexes /\ ix[4] = r.key
    BY DEF idempotencyIndex, Indexes, CommandRequests
  <2>2. /\ queue'.seq = id /\ queue'.commands = Append(queue.commands, id)
        /\ queue'.byID = With(queue.byID, id, ix)
        /\ queue'.toID = IF r.key = NoKey THEN queue.toID ELSE With(queue.toID, ix, id)
        /\ queue'.toIndex = IF r.key = NoKey THEN queue.toIndex ELSE With(queue.toIndex, id, ix)
        /\ queue' = [seq |-> queue'.seq, commands |-> queue'.commands, byID |-> queue'.byID,
                     toID |-> queue'.toID, toIndex |-> queue'.toIndex]
    <3>1. queue = [seq |-> queue.seq, commands |-> queue.commands, byID |-> queue.byID,
                   toID |-> queue.toID, toIndex |-> queue.toIndex]
      BY DEF QueueInv, QueueShape
    <3>2. queue' = [seq |-> id, commands |-> Append(queue.commands, id),
                    byID |-> With(queue.byID, id, ix),
                    toID |-> IF r.key = NoKey THEN queue.toID ELSE With(queue.toID, ix, id),
                    toIndex |-> IF r.key = NoKey THEN queue.toIndex ELSE With(queue.toIndex, id, ix)]
      BY <1>3, <3>1 DEF Appended
    <3> HIDE DEF id, ix
    <3> QED BY <3>2
  <2>3. /\ id \in Nat /\ id > queue.seq /\ id # 0 /\ id \notin DOMAIN queue.byID /\ id \notin audited
        /\ id \notin DOMAIN queue.toIndex
    BY DEF QueueInv, QueueShape, HandlersOwn, QueueConsistent
  <2>4. r.key # NoKey => ix \notin DOMAIN queue.toID
    BY <1>3 DEF Reusable, QueueInv, QueueShape
  <2>5. /\ IsFunction(queue'.byID) /\ DOMAIN queue'.byID = DOMAIN queue.byID \cup {id}
        /\ queue'.byID[id] = ix
        /\ \A k \in DOMAIN queue.byID : queue'.byID[k] = queue.byID[k]
    <3>1. queue'.byID = With(queue.byID, id, ix) /\ id \notin DOMAIN queue.byID
      BY <2>2, <2>3
    <3> HIDE DEF id, ix
    <3> QED BY <3>1 DEF With, IsFunction
  <2>6. /\ IsFunction(queue'.toID) /\ IsFunction(queue'.toIndex)
        /\ r.key = NoKey => queue'.toID = queue.toID /\ queue'.toIndex = queue.toIndex
        /\ r.key # NoKey => /\ DOMAIN queue'.toID = DOMAIN queue.toID \cup {ix} /\ queue'.toID[ix] = id
                            /\ DOMAIN queue'.toIndex = DOMAIN queue.toIndex \cup {id}
                            /\ queue'.toIndex[id] = ix
        /\ \A i \in DOMAIN queue.toID : i \in DOMAIN queue'.toID /\ queue'.toID[i] = queue.toID[i]
        /\ \A k \in DOMAIN queue.toIndex : k \in DOMAIN queue'.toIndex /\ queue'.toIndex[k] = queue.toIndex[k]
    <3>1. IsFunction(queue.toID) /\ IsFunction(queue.toIndex)
      BY DEF QueueInv, QueueShape
    <3>2. CASE r.key = NoKey
      BY <2>2, <3>1, <3>2
    <3>3. CASE r.key # NoKey
      <4>1. /\ queue'.toID = With(queue.toID, ix, id) /\ ix \notin DOMAIN queue.toID
            /\ queue'.toIndex = With(queue.toIndex, id, ix) /\ id \notin DOMAIN queue.toIndex
        BY <2>2, <2>3, <2>4, <3>3
      <4> HIDE DEF id, ix
      <4> QED BY <3>3, <4>1 DEF With, IsFunction
    <3> QED BY <3>2, <3>3
  <2>7. /\ handler' = [g \in Handlers |-> handler'[g]] /\ handler'[h] = [st |-> "auditing", id |-> id]
        /\ \A g \in Handlers : g # h => handler'[g] = handler[g]
    BY <1>3 DEF QueueInv, QueueShape
  <2>8. handler[h] = IdleHandler
    BY <1>1 DEF QueueInv, HandlersOwn
  <2>9. /\ queue'.commands \in Seq(Nat) /\ ToSet(queue'.commands) = ToSet(queue.commands) \cup {id}
        /\ \A i, j \in DOMAIN queue'.commands : i < j => queue'.commands[i] < queue'.commands[j]
    <3>1. queue.commands \in Seq(Nat) /\ \A x \in ToSet(queue.commands) : x < id
      BY <2>3 DEF QueueInv, QueueShape, QueueConsistent
    <3>2. \A i, j \in DOMAIN queue.commands : i < j => queue.commands[i] < queue.commands[j]
      BY DEF QueueInv, QueueConsistent
    <3> HIDE DEF id
    <3> QED BY <2>2, <2>3, <3>1, <3>2, AppendOrdered
  <2> HIDE DEF ix
  <2>10. QueueShape'
    <3>1. DOMAIN queue'.byID \subseteq 1..queue'.seq /\ queue'.seq \in Nat
      BY <2>2, <2>5 DEF QueueInv, QueueShape
    <3>2. \A k \in DOMAIN queue'.byID :
            /\ queue'.byID[k] \in Indexes
            /\ queue'.byID[k][4] # NoKey => k \in DOMAIN queue'.toIndex /\ queue'.byID[k] \in DOMAIN queue'.toID
      BY <2>1, <2>5, <2>6 DEF QueueInv, QueueShape
    <3>3. \A i \in DOMAIN queue'.toID : queue'.toID[i] \in DOMAIN queue'.byID /\ i[4] # NoKey
      BY <2>1, <2>5, <2>6 DEF QueueInv, QueueShape
    <3>4. \A g \in Handlers : handler'[g] = [st |-> handler'[g].st, id |-> handler'[g].id]
      BY <2>7 DEF QueueInv, QueueShape
    <3> QED BY <2>2, <2>5, <2>6, <2>7, <2>9, <3>1, <3>2, <3>3, <3>4 DEF QueueShape
  <2>11. HandlersOwn'
    <3>1. \A g \in Handlers : g # h => handler[g].id # id
      BY <2>3 DEF QueueInv, HandlersOwn, IdleHandler
    <3>2. \A g, k \in Handlers : handler'[g].id = handler'[k].id /\ handler'[g].id # 0 => g = k
      BY <2>7, <3>1 DEF QueueInv, HandlersOwn
    <3>3. audited' \subseteq 1..queue'.seq
      BY <1>1, <2>2 DEF QueueInv, QueueShape, HandlersOwn
    <3>4. ASSUME NEW g \in Handlers
          PROVE  \/ handler'[g] = IdleHandler
                 \/ /\ handler'[g].st \in {"auditing", "removing"}
                    /\ handler'[g].id \in DOMAIN queue'.byID \ audited'
      BY <1>1, <2>3, <2>5, <2>7 DEF QueueInv, HandlersOwn
    <3> QED BY <3>2, <3>3, <3>4 DEF HandlersOwn
  <2>12. QueueConsistent'
    <3>1. ToSet(queue'.commands) = DOMAIN queue'.byID /\ DOMAIN queue'.toIndex \subseteq DOMAIN queue'.byID
      BY <2>5, <2>6, <2>9 DEF QueueInv, QueueConsistent
    <3>2. ASSUME NEW k \in DOMAIN queue'.byID
          PROVE  IF queue'.byID[k][4] = NoKey THEN k \notin DOMAIN queue'.toIndex
                 ELSE queue'.toIndex[k] = queue'.byID[k] /\ queue'.toID[queue'.byID[k]] = k
      <4>1. CASE k = id
        BY <2>1, <2>3, <2>5, <2>6, <4>1
      <4>2. CASE k # id
        BY <2>3, <2>5, <2>6, <4>2 DEF QueueInv, QueueConsistent, QueueShape
      <4> QED BY <4>1, <4>2
    <3>3. \A i \in DOMAIN queue'.toID : queue'.byID[queue'.toID[i]] = i
      BY <2>5, <2>6 DEF QueueInv, QueueConsistent, QueueShape
    <3>4. ASSUME NEW k \in DOMAIN queue'.byID
          PROVE  k \in audited' \/ \E g \in Handlers : handler'[g].id = k
      <4>1. CASE k = id
        BY <2>7, <4>1
      <4>2. CASE k # id
        <5>1. k \in DOMAIN queue.byID /\ k # 0
          BY <2>5, <4>2 DEF QueueInv, QueueShape
        <5>2. k \in audited \/ \E g \in Handlers : handler[g].id = k
          BY <5>1 DEF QueueInv, QueueConsistent
        <5> QED BY <1>1, <2>7, <2>8, <5>1, <5>2 DEF IdleHandler
      <4> QED BY <4>1, <4>2
    <3>5. accepted' \subseteq DOMAIN queue'.byID \cap audited'
      BY <1>1, <2>5 DEF QueueInv, QueueConsistent
    <3> QED BY <2>9, <3>1, <3>2, <3>3, <3>4, <3>5 DEF QueueConsistent
  <2> QED BY <2>10, <2>11, <2>12 DEF QueueInv
<1> QED BY <1>2, <1>3 DEF EnqueueCommand

(* The audit event is recorded: the command is accepted and its handler    *)
(* has nothing more to do with it.                                         *)
LEMMA AuditRecordedKeeps ==
  ASSUME QueueInv, NEW h \in Handlers, AuditRecorded(h)
  PROVE  QueueInv'
<1>1. /\ queue' = queue /\ audited' = audited \cup {handler[h].id} /\ accepted' = accepted \cup {handler[h].id}
      /\ handler[h].st = "auditing" /\ handler' = [handler EXCEPT ![h] = IdleHandler]
  BY DEF AuditRecorded
<1>2. /\ handler' = [g \in Handlers |-> handler'[g]] /\ handler'[h] = IdleHandler
      /\ \A g \in Handlers : g # h => handler'[g] = handler[g]
  BY <1>1 DEF QueueInv, QueueShape
<1>3. /\ handler[h].id \in DOMAIN queue.byID /\ handler[h].id \in 1..queue.seq
      /\ handler[h].id # 0
  <2>1. handler[h].id \in DOMAIN queue.byID
    BY <1>1 DEF QueueInv, HandlersOwn, IdleHandler
  <2> QED BY <2>1 DEF QueueInv, QueueShape
<1>4. QueueShape'
  BY <1>1, <1>2 DEF QueueInv, QueueShape, IdleHandler
<1>5. HandlersOwn'
  <2>1. \A g \in Handlers : g # h => handler[g].id # handler[h].id
    BY <1>3 DEF QueueInv, HandlersOwn
  <2>2. \A g, k \in Handlers : handler'[g].id = handler'[k].id /\ handler'[g].id # 0 => g = k
    BY <1>2 DEF QueueInv, HandlersOwn, IdleHandler
  <2> QED BY <1>1, <1>2, <1>3, <2>1, <2>2 DEF QueueInv, HandlersOwn
<1>6. QueueConsistent'
  <2>1. ASSUME NEW k \in DOMAIN queue.byID
        PROVE  k \in audited' \/ \E g \in Handlers : handler'[g].id = k
    <3>1. k \in audited \/ \E g \in Handlers : handler[g].id = k
      BY DEF QueueInv, QueueConsistent
    <3> QED BY <1>1, <1>2, <3>1
  <2>2. accepted' \subseteq DOMAIN queue.byID \cap audited'
    BY <1>1, <1>3 DEF QueueInv, QueueConsistent
  <2> QED BY <1>1, <2>1, <2>2 DEF QueueInv, QueueConsistent
<1> QED BY <1>4, <1>5, <1>6 DEF QueueInv

(* A refusal is written to the audit table only.                           *)
LEMMA AuditRefusedKeeps ==
  ASSUME QueueInv, NEW h \in Handlers, AuditRefused(h)
  PROVE  QueueInv'
<1>1. /\ queue' = queue /\ audited' = audited /\ accepted' = accepted
      /\ handler[h].st = "auditing" /\ handler' = [handler EXCEPT ![h].st = "removing"]
  BY DEF AuditRefused
<1>2. /\ handler' = [g \in Handlers |-> handler'[g]]
      /\ handler'[h] = [st |-> "removing", id |-> handler[h].id]
      /\ \A g \in Handlers : g # h => handler'[g] = handler[g]
  BY <1>1 DEF QueueInv, QueueShape
<1>3. handler[h].id \in DOMAIN queue.byID \ audited
  BY <1>1 DEF QueueInv, HandlersOwn, IdleHandler
<1>4. /\ \A g \in Handlers : handler'[g].id = handler[g].id
      /\ \A g \in Handlers : handler'[g] = [st |-> handler'[g].st, id |-> handler'[g].id]
  BY <1>2 DEF QueueInv, QueueShape
<1>5. QueueShape'
  BY <1>1, <1>2, <1>4 DEF QueueInv, QueueShape
<1>6. HandlersOwn'
  BY <1>1, <1>2, <1>3, <1>4 DEF QueueInv, HandlersOwn
<1>7. QueueConsistent'
  BY <1>1, <1>4 DEF QueueInv, QueueConsistent
<1> QED BY <1>5, <1>6, <1>7 DEF QueueInv

(* Remove: the handler that takes its command back is the only one that    *)
(* knows it, and no client was told of it by its own request.              *)
LEMMA RemoveKeeps ==
  ASSUME QueueInv, NEW h \in Handlers, RemoveCommand(h)
  PROVE  QueueInv'
<1> DEFINE id == handler[h].id
           ix == queue.byID[id]
<1>1. /\ queue' = Removed(id) /\ audited' = audited /\ accepted' = accepted
      /\ handler[h].st = "removing" /\ handler' = [handler EXCEPT ![h] = IdleHandler]
  BY DEF RemoveCommand
<1>2. /\ handler' = [g \in Handlers |-> handler'[g]] /\ handler'[h] = IdleHandler
      /\ \A g \in Handlers : g # h => handler'[g] = handler[g]
  BY <1>1 DEF QueueInv, QueueShape
<1>3. /\ id \in DOMAIN queue.byID \ audited /\ id \in Nat /\ id # 0
  <2>1. id \in DOMAIN queue.byID \ audited
    BY <1>1 DEF QueueInv, HandlersOwn, IdleHandler
  <2> QED BY <2>1 DEF QueueInv, QueueShape
<1> HIDE DEF id
<1>4. /\ queue'.seq = queue.seq /\ queue'.commands = RemoveFirst(queue.commands, id)
      /\ queue'.byID = Without(queue.byID, id) /\ queue'.toIndex = Without(queue.toIndex, id)
      /\ queue'.toID = IF id \in DOMAIN queue.toIndex THEN Without(queue.toID, queue.toIndex[id]) ELSE queue.toID
      /\ queue' = [seq |-> queue'.seq, commands |-> queue'.commands, byID |-> queue'.byID,
                   toID |-> queue'.toID, toIndex |-> queue'.toIndex]
  <2>1. queue = [seq |-> queue.seq, commands |-> queue.commands, byID |-> queue.byID,
                 toID |-> queue.toID, toIndex |-> queue.toIndex]
    BY DEF QueueInv, QueueShape
  <2>2. queue' = [seq |-> queue.seq, commands |-> RemoveFirst(queue.commands, id),
                  byID |-> Without(queue.byID, id),
                  toID |-> IF id \in DOMAIN queue.toIndex THEN Without(queue.toID, queue.toIndex[id]) ELSE queue.toID,
                  toIndex |-> Without(queue.toIndex, id)]
    BY <1>1, <2>1 DEF Removed
  <2> QED BY <2>2
<1>5. /\ IsFunction(queue'.byID) /\ DOMAIN queue'.byID = DOMAIN queue.byID \ {id}
      /\ \A k \in DOMAIN queue'.byID : queue'.byID[k] = queue.byID[k]
      /\ IsFunction(queue'.toIndex) /\ DOMAIN queue'.toIndex = DOMAIN queue.toIndex \ {id}
      /\ \A k \in DOMAIN queue'.toIndex : queue'.toIndex[k] = queue.toIndex[k]
  BY <1>4 DEF Without, Restrict, IsFunction
<1>6. /\ IsFunction(queue'.toID)
      /\ DOMAIN queue'.toID = DOMAIN queue.toID \ {i \in DOMAIN queue.toID : queue.toID[i] = id}
      /\ \A i \in DOMAIN queue'.toID : queue'.toID[i] = queue.toID[i]
  <2>1. CASE id \in DOMAIN queue.toIndex
    <3>1. queue'.toID = Without(queue.toID, queue.toIndex[id])
      BY <1>4, <2>1
    <3>2. queue.toIndex[id] = ix /\ queue.toID[ix] = id
      BY <1>3, <2>1 DEF QueueInv, QueueConsistent
    <3>3. {i \in DOMAIN queue.toID : queue.toID[i] = id} = {ix} \cap DOMAIN queue.toID
      BY <3>2 DEF QueueInv, QueueConsistent
    <3> HIDE DEF ix
    <3> QED BY <3>1, <3>2, <3>3 DEF Without, Restrict, IsFunction
  <2>2. CASE id \notin DOMAIN queue.toIndex
    <3>1. ix[4] = NoKey
      BY <1>3, <2>2 DEF QueueInv, QueueShape
    <3>2. \A i \in DOMAIN queue.toID : queue.toID[i] # id
      BY <3>1 DEF QueueInv, QueueShape, QueueConsistent
    <3> QED BY <1>4, <2>2, <3>2 DEF QueueInv, QueueShape
  <2> QED BY <2>1, <2>2
<1>7. /\ queue'.commands \in Seq(Nat) /\ ToSet(queue'.commands) = ToSet(queue.commands) \ {id}
      /\ \A i, j \in DOMAIN queue'.commands : i < j => queue'.commands[i] < queue'.commands[j]
  <2>1. queue.commands \in Seq(Nat) /\ \A i, j \in DOMAIN queue.commands : i < j => queue.commands[i] < queue.commands[j]
    BY DEF QueueInv, QueueShape, QueueConsistent
  <2> QED BY <1>3, <1>4, <2>1, RemoveFirstFacts
<1> HIDE DEF ix
<1>8. QueueShape'
  <2>1. ASSUME NEW k \in DOMAIN queue'.byID
        PROVE  /\ queue'.byID[k] \in Indexes
               /\ queue'.byID[k][4] # NoKey => k \in DOMAIN queue'.toIndex /\ queue'.byID[k] \in DOMAIN queue'.toID
    <3>1. k \in DOMAIN queue.byID /\ k # id /\ queue'.byID[k] = queue.byID[k]
      BY <1>5
    <3>2. queue.byID[k][4] # NoKey => queue.toID[queue.byID[k]] = k
      BY <3>1 DEF QueueInv, QueueConsistent
    <3> QED BY <1>5, <1>6, <3>1, <3>2 DEF QueueInv, QueueShape
  <2>2. \A i \in DOMAIN queue'.toID : queue'.toID[i] \in DOMAIN queue'.byID /\ i[4] # NoKey
    BY <1>5, <1>6 DEF QueueInv, QueueShape
  <2>3. \A g \in Handlers : handler'[g] = [st |-> handler'[g].st, id |-> handler'[g].id]
    BY <1>2 DEF QueueInv, QueueShape, IdleHandler
  <2> QED BY <1>2, <1>4, <1>5, <1>6, <1>7, <2>1, <2>2, <2>3 DEF QueueInv, QueueShape
<1>9. HandlersOwn'
  <2>1. \A g \in Handlers : g # h => handler[g].id # id
    BY <1>3 DEF QueueInv, HandlersOwn, id
  <2>2. \A g, k \in Handlers : handler'[g].id = handler'[k].id /\ handler'[g].id # 0 => g = k
    BY <1>2 DEF QueueInv, HandlersOwn, IdleHandler
  <2> QED BY <1>1, <1>2, <1>4, <1>5, <2>1, <2>2 DEF QueueInv, HandlersOwn
<1>10. QueueConsistent'
  <2>1. ToSet(queue'.commands) = DOMAIN queue'.byID /\ DOMAIN queue'.toIndex \subseteq DOMAIN queue'.byID
    BY <1>5, <1>7 DEF QueueInv, QueueConsistent
  <2>2. ASSUME NEW k \in DOMAIN queue'.byID
        PROVE  IF queue'.byID[k][4] = NoKey THEN k \notin DOMAIN queue'.toIndex
               ELSE queue'.toIndex[k] = queue'.byID[k] /\ queue'.toID[queue'.byID[k]] = k
    <3>1. k \in DOMAIN queue.byID /\ k # id /\ queue'.byID[k] = queue.byID[k]
      BY <1>5
    <3>2. CASE queue.byID[k][4] = NoKey
      BY <1>5, <3>1, <3>2 DEF QueueInv, QueueConsistent
    <3>3. CASE queue.byID[k][4] # NoKey
      <4>1. /\ queue.toIndex[k] = queue.byID[k] /\ queue.toID[queue.byID[k]] = k
            /\ k \in DOMAIN queue.toIndex /\ queue.byID[k] \in DOMAIN queue.toID
        BY <3>1, <3>3 DEF QueueInv, QueueConsistent, QueueShape
      <4> QED BY <1>5, <1>6, <3>1, <3>3, <4>1
    <3> QED BY <3>2, <3>3
  <2>3. \A i \in DOMAIN queue'.toID : queue'.byID[queue'.toID[i]] = i
    BY <1>5, <1>6 DEF QueueInv, QueueConsistent, QueueShape
  <2>4. ASSUME NEW k \in DOMAIN queue'.byID
        PROVE  k \in audited' \/ \E g \in Handlers : handler'[g].id = k
    <3>1. k \in DOMAIN queue.byID /\ k # id
      BY <1>5
    <3>2. k \in audited \/ \E g \in Handlers : handler[g].id = k
      BY <3>1 DEF QueueInv, QueueConsistent
    <3> QED BY <1>1, <1>2, <3>1, <3>2 DEF id
  <2>5. accepted' \subseteq DOMAIN queue'.byID \cap audited'
    BY <1>1, <1>3, <1>5 DEF QueueInv, QueueConsistent
  <2> QED BY <1>7, <2>1, <2>2, <2>3, <2>4, <2>5 DEF QueueConsistent
<1> QED BY <1>8, <1>9, <1>10 DEF QueueInv

(* Every step of the queue keeps the invariant.                            *)
LEMMA QueueStep == QueueInv /\ [CommandQueueNext]_queueVars => QueueInv'
<1> SUFFICES ASSUME QueueInv, [CommandQueueNext]_queueVars PROVE QueueInv'
  OBVIOUS
<1>1. CASE CommandQueueNext
  <2>1. PICK h \in Handlers : \/ \E r \in CommandRequests : EnqueueCommand(h, r)
                              \/ AuditRecorded(h) \/ AuditRefused(h) \/ RemoveCommand(h)
    BY <1>1 DEF CommandQueueNext
  <2> QED BY <2>1, EnqueueKeeps, AuditRecordedKeeps, AuditRefusedKeeps, RemoveKeeps
<1>2. CASE UNCHANGED queueVars
  BY <1>2 DEF queueVars, QueueInv, QueueShape, HandlersOwn, QueueConsistent
<1> QED BY <1>1, <1>2

(* List, map and idempotency maps of the in-memory queue stay consistent   *)
(* for any number of handlers and requests, and no failure of one request  *)
(* takes back the command of another.                                      *)
THEOREM QueueStaysConsistent == CommandQueueSpec => []QueueConsistent
<1>1. CommandQueueInit => QueueInv
  BY QueueInitHolds
<1>2. QueueInv /\ [CommandQueueNext]_queueVars => QueueInv'
  BY QueueStep
<1>3. QueueInv => QueueConsistent
  BY DEF QueueInv
<1> QED BY <1>1, <1>2, <1>3, PTL DEF CommandQueueSpec
-------------------------------------------------------------------------------
(* LLMClient.                                                              *)

CallStates == {"idle", "sent", "backoff", "answered", "ended"}

LLMShape ==
  /\ call = [c \in Callers |-> call[c]]
  /\ \A c \in Callers :
       /\ call[c] = [st |-> call[c].st, via |-> call[c].via, attempt |-> call[c].attempt,
                     tokens |-> call[c].tokens, result |-> call[c].result]
       /\ call[c].st \in CallStates /\ call[c].tokens \in 0..MaxTokens
  /\ guard = [period |-> guard.period, used |-> guard.used] /\ guard.used \in Nat
  /\ spent \in Nat

(* What the guard has counted of the current day.                          *)
UsedToday == IF guard.period = day THEN guard.used ELSE 0

(* Requests whose answer may still come, answers not yet counted, and the  *)
(* tokens of those, each as a pair.                                        *)
Inflight == {c \in Callers : call[c].st \in {"sent", "backoff"}}

Answered == {c \in Callers : call[c].st = "answered"}

Owed == {p \in Callers \X (1..MaxTokens) : p[1] \in Answered /\ p[2] <= call[p[1]].tokens}

(* Spent is counted or owed.                                               *)
SpentAccounted == Strict /\ ~unseen => spent <= UsedToday + Cardinality(Owed)

(* The bound leaves room for every request in flight.                      *)
RoomForInflight ==
  Strict /\ ~unseen =>
    spent + MaxTokens * Cardinality(Inflight) < TokenLimit + MaxTokens * Cardinality(Callers)

LLMInv == LLMShape /\ SpentAccounted /\ RoomForInflight

(* Products with the token bound, which the provers do not see by          *)
(* themselves.                                                             *)
LEMMA TimesTokens ==
  ASSUME NEW a \in Nat, NEW b \in Nat
  PROVE  /\ MaxTokens * a \in Nat /\ MaxTokens * b \in Nat
         /\ MaxTokens * (a + b) = MaxTokens * a + MaxTokens * b
         /\ a <= b => MaxTokens * a <= MaxTokens * b
<1>1. MaxTokens \in Nat
  BY LLMAssumption
<1> QED BY <1>1

(* Callers in flight and callers answered share the pool of callers, and   *)
(* each one that was answered owes MaxTokens at most.                      *)
LEMMA CallerSizes ==
  ASSUME NEW I \in SUBSET Callers, NEW A \in SUBSET Callers, I \cap A = {},
         NEW O \in SUBSET (A \X (1..MaxTokens))
  PROVE  /\ IsFiniteSet(I) /\ Cardinality(I) \in Nat
         /\ IsFiniteSet(A) /\ Cardinality(A) \in Nat
         /\ IsFiniteSet(O) /\ Cardinality(O) \in Nat /\ Cardinality(Callers) \in Nat
         /\ Cardinality(I) + Cardinality(A) <= Cardinality(Callers)
         /\ Cardinality(O) <= MaxTokens * Cardinality(A)
<1>1. IsFiniteSet(Callers) /\ MaxTokens \in Nat
  BY LLMAssumption
<1>2. /\ IsFiniteSet(I) /\ Cardinality(I) \in Nat
      /\ IsFiniteSet(A) /\ Cardinality(A) \in Nat /\ Cardinality(Callers) \in Nat
  BY <1>1, FS_Subset, FS_CardinalityType
<1>3. /\ IsFiniteSet(1..MaxTokens) /\ Cardinality(1..MaxTokens) = MaxTokens
  BY <1>1, FS_Interval
<1>4. IsFiniteSet(A \X (1..MaxTokens)) /\ Cardinality(A \X (1..MaxTokens)) = Cardinality(A) * MaxTokens
  BY <1>2, <1>3, FS_Product
<1>5. /\ IsFiniteSet(O) /\ Cardinality(O) \in Nat /\ Cardinality(O) <= Cardinality(A) * MaxTokens
  BY <1>4, FS_Subset, FS_CardinalityType
<1>6. Cardinality(I) + Cardinality(A) <= Cardinality(Callers)
  <2>1. Cardinality(I \cup A) = Cardinality(I) + Cardinality(A)
    <3>1. Cardinality(I \cap A) = 0
      BY FS_EmptySet
    <3>2. Cardinality(I \cup A) = Cardinality(I) + Cardinality(A) - Cardinality(I \cap A)
      BY <1>2, FS_Union
    <3> QED BY <1>2, <3>1, <3>2
  <2>2. I \cup A \in SUBSET Callers
    OBVIOUS
  <2>3. Cardinality(I \cup A) <= Cardinality(Callers)
    BY <1>1, <2>2, FS_Subset
  <2> QED BY <2>1, <2>3
<1>7. Cardinality(A) * MaxTokens = MaxTokens * Cardinality(A)
  BY <1>1, <1>2
<1> QED BY <1>2, <1>5, <1>6, <1>7

(* What is spent while the count is below the limit, whoever is waiting.   *)
LEMMA BelowLimitFits ==
  ASSUME NEW I \in SUBSET Callers, NEW A \in SUBSET Callers, I \cap A = {},
         NEW O \in SUBSET (A \X (1..MaxTokens)),
         NEW s \in Nat, NEW u \in Nat, u < TokenLimit, s <= u + Cardinality(O)
  PROVE  s + MaxTokens * Cardinality(I) < TokenLimit + MaxTokens * Cardinality(Callers)
<1>1. /\ Cardinality(I) \in Nat /\ Cardinality(A) \in Nat /\ Cardinality(O) \in Nat
      /\ Cardinality(Callers) \in Nat
      /\ Cardinality(I) + Cardinality(A) <= Cardinality(Callers)
      /\ Cardinality(O) <= MaxTokens * Cardinality(A)
  BY CallerSizes
<1> DEFINE i == Cardinality(I)
           a == Cardinality(A)
           n == Cardinality(Callers)
           mi == MaxTokens * i
           ma == MaxTokens * a
           mn == MaxTokens * n
<1>2. MaxTokens * (i + a) = mi + ma /\ mi \in Nat /\ ma \in Nat
  BY <1>1, TimesTokens
<1>3. MaxTokens * (i + a) <= mn /\ mn \in Nat
  <2> HIDE DEF i, a, n
  <2>1. i + a \in Nat /\ n \in Nat /\ i + a <= n
    BY <1>1 DEF i, a, n
  <2> QED BY <2>1, TimesTokens
<1>4. TokenLimit \in Nat /\ Cardinality(O) <= ma /\ Cardinality(O) \in Nat
  BY <1>1, LLMAssumption
<1> HIDE DEF mi, ma, mn
<1>5. s + mi < TokenLimit + mn
  BY <1>2, <1>3, <1>4
<1> QED BY <1>5 DEF mi, mn

(* The sets that the spend is accounted with, before and after a step.     *)
LEMMA LLMSets ==
  /\ Inflight \in SUBSET Callers /\ Answered \in SUBSET Callers /\ Inflight \cap Answered = {}
  /\ Owed \in SUBSET (Answered \X (1..MaxTokens))
  /\ Inflight' \in SUBSET Callers /\ Answered' \in SUBSET Callers /\ Inflight' \cap Answered' = {}
  /\ Owed' \in SUBSET (Answered' \X (1..MaxTokens))
BY DEF Inflight, Answered, Owed

(* They are finite.                                                        *)
LEMMA LLMSizes ==
  /\ IsFiniteSet(Inflight) /\ Cardinality(Inflight) \in Nat
  /\ IsFiniteSet(Owed) /\ Cardinality(Owed) \in Nat
  /\ IsFiniteSet(Inflight') /\ Cardinality(Inflight') \in Nat
  /\ IsFiniteSet(Owed') /\ Cardinality(Owed') \in Nat
  /\ Cardinality(Callers) \in Nat /\ MaxTokens \in Nat /\ TokenLimit \in Nat \ {0}
<1>1. IsFiniteSet(Inflight) /\ Cardinality(Inflight) \in Nat /\ IsFiniteSet(Owed) /\ Cardinality(Owed) \in Nat
  BY LLMSets, CallerSizes
<1>2. IsFiniteSet(Inflight') /\ Cardinality(Inflight') \in Nat /\ IsFiniteSet(Owed') /\ Cardinality(Owed') \in Nat
  BY LLMSets, CallerSizes
<1> QED BY <1>1, <1>2, LLMAssumption, FS_CardinalityType

(* The reset of a new day leaves what was used today.                      *)
LEMMA ResetFacts ==
  ASSUME LLMShape
  PROVE  resetIfNeeded = [period |-> day, used |-> UsedToday] /\ UsedToday \in Nat
BY DEF LLMShape, resetIfNeeded, UsedToday

(* Nobody has called yet.                                                  *)
LEMMA LLMInitHolds == LLMInit => LLMInv
<1> SUFFICES ASSUME LLMInit PROVE LLMInv
  OBVIOUS
<1>1. /\ \A c \in Callers : call[c] = NoCall
      /\ call = [c \in Callers |-> call[c]] /\ guard = NewBudgetGuard /\ spent = 0
  BY DEF LLMInit
<1>2. LLMShape
  BY <1>1, LLMAssumption DEF LLMShape, NoCall, NewBudgetGuard, CallStates
<1>3. UsedToday \in Nat
  BY <1>2, ResetFacts
<1>4. Inflight = {} /\ Cardinality(Inflight) = 0
  BY <1>1, FS_EmptySet DEF Inflight, NoCall
<1>5. MaxTokens * Cardinality(Callers) \in Nat /\ MaxTokens * Cardinality(Inflight) = 0
  BY <1>4, LLMSizes, TimesTokens
<1>6. SpentAccounted /\ RoomForInflight
  <2>1. spent <= UsedToday + Cardinality(Owed)
    BY <1>1, <1>3, LLMSizes
  <2>2. spent + MaxTokens * Cardinality(Inflight) < TokenLimit + MaxTokens * Cardinality(Callers)
    <3> DEFINE a == MaxTokens * Cardinality(Inflight)
               b == MaxTokens * Cardinality(Callers)
    <3>1. a = 0 /\ b \in Nat
      BY <1>5
    <3> HIDE DEF a, b
    <3>2. spent + a < TokenLimit + b
      BY <1>1, <3>1, LLMSizes
    <3> QED BY <3>2 DEF a, b
  <2> QED BY <2>1, <2>2 DEF SpentAccounted, RoomForInflight
<1> QED BY <1>2, <1>6 DEF LLMInv

(* A step after which no more requests wait than before, and that moves    *)
(* tokens at most from owed to counted.                                    *)
LEMMA CountingKeeps ==
  ASSUME LLMInv, LLMShape', spent' = spent, unseen' = unseen,
         Inflight' \subseteq Inflight,
         UsedToday' + Cardinality(Owed') = UsedToday + Cardinality(Owed)
  PROVE  LLMInv'
<1>1. Cardinality(Inflight') <= Cardinality(Inflight)
  BY LLMSizes, FS_Subset
<1>2. /\ MaxTokens * Cardinality(Inflight') \in Nat /\ MaxTokens * Cardinality(Inflight) \in Nat
      /\ MaxTokens * Cardinality(Inflight') <= MaxTokens * Cardinality(Inflight)
      /\ MaxTokens * Cardinality(Callers) \in Nat
  BY <1>1, LLMSizes, TimesTokens
<1>3. spent \in Nat /\ TokenLimit \in Nat
  BY LLMSizes DEF LLMInv, LLMShape
<1>4. SpentAccounted'
  BY DEF LLMInv, SpentAccounted
<1>5. RoomForInflight'
  <2> SUFFICES ASSUME Strict, ~unseen
               PROVE  spent + MaxTokens * Cardinality(Inflight') < TokenLimit + MaxTokens * Cardinality(Callers)
    BY DEF RoomForInflight
  <2>1. spent + MaxTokens * Cardinality(Inflight) < TokenLimit + MaxTokens * Cardinality(Callers)
    BY DEF LLMInv, RoomForInflight
  <2> QED BY <1>2, <1>3, <2>1
<1> QED BY <1>4, <1>5 DEF LLMInv

(* A request the guard lets pass, whether it is sent or found invalid.     *)
LEMMA AllowedKeeps ==
  ASSUME LLMInv, LLMShape', AllowAttempt, day' = day, spent' = spent, unseen' = unseen,
         Owed' = Owed
  PROVE  LLMInv'
<1>1. UsedToday' = UsedToday /\ UsedToday \in Nat /\ (Strict => UsedToday < TokenLimit)
  <2>1. resetIfNeeded = [period |-> day, used |-> UsedToday] /\ UsedToday \in Nat
    BY ResetFacts DEF LLMInv
  <2>2. guard' = [period |-> day, used |-> UsedToday]
    BY <2>1 DEF AllowAttempt
  <2>3. UsedToday' = UsedToday
    BY <2>2 DEF UsedToday
  <2>4. Strict => ~(UsedToday >= TokenLimit)
    BY <2>1 DEF AllowAttempt, Exhausted
  <2> QED BY <2>1, <2>3, <2>4, LLMSizes
<1>2. SpentAccounted'
  BY <1>1 DEF LLMInv, SpentAccounted
<1>3. RoomForInflight'
  <2> SUFFICES ASSUME Strict, ~unseen'
               PROVE  spent' + MaxTokens * Cardinality(Inflight') < TokenLimit + MaxTokens * Cardinality(Callers)
    BY DEF RoomForInflight
  <2>1. /\ spent' \in Nat /\ UsedToday' \in Nat /\ UsedToday' < TokenLimit
        /\ spent' <= UsedToday' + Cardinality(Owed')
    BY <1>1, <1>2 DEF LLMShape, SpentAccounted
  <2> QED BY <2>1, LLMSets, BelowLimitFits
<1> QED BY <1>2, <1>3 DEF LLMInv

(* One caller changes its call; tokens are owed only by answered calls.    *)
LEMMA CallerChange ==
  ASSUME LLMShape, NEW c \in Callers,
         call' = [d \in Callers |-> call'[d]], \A d \in Callers : d # c => call'[d] = call[d],
         call'[c] = [st |-> call'[c].st, via |-> call'[c].via, attempt |-> call'[c].attempt,
                     tokens |-> call'[c].tokens, result |-> call'[c].result],
         call'[c].st \in CallStates, call'[c].tokens \in 0..MaxTokens,
         guard' = [period |-> guard'.period, used |-> guard'.used], guard'.used \in Nat, spent' \in Nat
  PROVE  /\ LLMShape'
         /\ call[c].st # "answered" /\ call'[c].st # "answered" => Owed' = Owed
         /\ call[c].st \in {"sent", "backoff"} \/ call'[c].st \notin {"sent", "backoff"} => Inflight' \subseteq Inflight
<1>1. LLMShape'
  BY DEF LLMShape
<1>2. ASSUME call[c].st # "answered", call'[c].st # "answered" PROVE Owed' = Owed
  <2>1. Answered' = Answered
    BY <1>2 DEF Answered
  <2>2. \A d \in Answered : call'[d] = call[d]
    BY <1>2 DEF Answered
  <2> QED BY <2>1, <2>2 DEF Owed
<1>3. ASSUME call[c].st \in {"sent", "backoff"} \/ call'[c].st \notin {"sent", "backoff"}
      PROVE  Inflight' \subseteq Inflight
  BY <1>3 DEF Inflight
<1> QED BY <1>1, <1>2, <1>3

(* A caller ends its call, is sent, or waits, and the guard counts nothing *)
(* new.                                                                    *)
LEMMA QuietCallKeeps ==
  ASSUME LLMInv, NEW c \in Callers,
         call' = [d \in Callers |-> call'[d]], \A d \in Callers : d # c => call'[d] = call[d],
         call'[c] = [st |-> call'[c].st, via |-> call'[c].via, attempt |-> call'[c].attempt,
                     tokens |-> call'[c].tokens, result |-> call'[c].result],
         call'[c].st \in {"sent", "backoff", "ended"}, call'[c].tokens \in 0..MaxTokens,
         call[c].st # "answered",
         call[c].st \in {"sent", "backoff"} \/ call'[c].st = "ended",
         guard' = guard \/ guard' = resetIfNeeded,
         day' = day, spent' = spent, unseen' = unseen
  PROVE  LLMInv'
<1>1. /\ resetIfNeeded = [period |-> day, used |-> UsedToday] /\ UsedToday \in Nat
      /\ guard = [period |-> guard.period, used |-> guard.used] /\ guard.used \in Nat /\ spent' \in Nat
  BY ResetFacts DEF LLMInv, LLMShape
<1>2. /\ guard' = [period |-> guard'.period, used |-> guard'.used] /\ guard'.used \in Nat
      /\ UsedToday' = UsedToday
  BY <1>1 DEF UsedToday
<1>3. /\ call'[c].st \in CallStates /\ call'[c].st # "answered"
      /\ call[c].st \in {"sent", "backoff"} \/ call'[c].st \notin {"sent", "backoff"}
  BY DEF CallStates
<1>4. LLMShape
  BY DEF LLMInv
<1>5. LLMShape' /\ Owed' = Owed /\ Inflight' \subseteq Inflight
  BY <1>1, <1>2, <1>3, <1>4, CallerChange
<1>6. UsedToday' + Cardinality(Owed') = UsedToday + Cardinality(Owed)
  BY <1>2, <1>5
<1> QED BY <1>5, <1>6, CountingKeeps

(* A call that ends touches no other, and keeps the tokens it was answered *)
(* with.                                                                   *)
LEMMA EndedFacts ==
  ASSUME LLMShape, NEW c \in Callers, NEW result, Ended(c, result)
  PROVE  /\ call' = [d \in Callers |-> call'[d]] /\ \A d \in Callers : d # c => call'[d] = call[d]
         /\ call'[c] = [st |-> call'[c].st, via |-> call'[c].via, attempt |-> call'[c].attempt,
                        tokens |-> call'[c].tokens, result |-> call'[c].result]
         /\ call'[c].st = "ended" /\ call'[c].tokens = call[c].tokens /\ call[c].tokens \in 0..MaxTokens
<1>1. /\ call = [d \in Callers |-> call[d]]
      /\ call[c] = [st |-> call[c].st, via |-> call[c].via, attempt |-> call[c].attempt,
                    tokens |-> call[c].tokens, result |-> call[c].result]
      /\ call[c].tokens \in 0..MaxTokens
  BY DEF LLMShape
<1>2. call' = [call EXCEPT ![c] = [[call[c] EXCEPT !.st = "ended"] EXCEPT !.result = result]]
  BY <1>1 DEF Ended
<1>3. /\ call' = [d \in Callers |-> call'[d]] /\ \A d \in Callers : d # c => call'[d] = call[d]
      /\ call'[c] = [[call[c] EXCEPT !.st = "ended"] EXCEPT !.result = result]
  BY <1>1, <1>2
<1>4. call'[c] = [st |-> "ended", via |-> call[c].via, attempt |-> call[c].attempt,
                  tokens |-> call[c].tokens, result |-> result]
  BY <1>1, <1>3
<1> QED BY <1>1, <1>3, <1>4

(* A request goes out only when the budget has room for it.                *)
LEMMA SendKeeps ==
  ASSUME LLMInv, NEW c \in Callers, NEW via \in Vias, SendRequest(c, via)
  PROVE  LLMInv'
<1>1. /\ call[c].st \in {"idle", "ended"} /\ AllowAttempt
      /\ call' = [call EXCEPT ![c] = [NoCall EXCEPT !.st = "sent", !.via = via]]
      /\ day' = day /\ spent' = spent /\ unseen' = unseen
  BY DEF SendRequest, CanBegin
<1>2. /\ LLMShape /\ call = [d \in Callers |-> call[d]] /\ spent' \in Nat
      /\ resetIfNeeded = [period |-> day, used |-> UsedToday] /\ UsedToday \in Nat
  BY <1>1, ResetFacts DEF LLMInv, LLMShape
<1>3. /\ call' = [d \in Callers |-> call'[d]] /\ \A d \in Callers : d # c => call'[d] = call[d]
      /\ call'[c] = [st |-> "sent", via |-> via, attempt |-> 0, tokens |-> 0, result |-> "none"]
  BY <1>1, <1>2 DEF NoCall
<1>4. /\ guard' = [period |-> guard'.period, used |-> guard'.used] /\ guard'.used \in Nat
  BY <1>1, <1>2 DEF AllowAttempt
<1>5. /\ call'[c] = [st |-> call'[c].st, via |-> call'[c].via, attempt |-> call'[c].attempt,
                     tokens |-> call'[c].tokens, result |-> call'[c].result]
      /\ call'[c].st \in CallStates /\ call'[c].tokens \in 0..MaxTokens
      /\ call[c].st # "answered" /\ call'[c].st # "answered"
  <2>1. 0 \in 0..MaxTokens
    BY LLMAssumption
  <2> QED BY <1>1, <1>3, <2>1 DEF CallStates
<1>6. LLMShape' /\ Owed' = Owed
  BY <1>2, <1>3, <1>4, <1>5, CallerChange
<1> QED BY <1>1, <1>6, AllowedKeeps

(* A request that is not sent spends nothing.                              *)
LEMMA RejectKeeps ==
  ASSUME LLMInv, NEW c \in Callers, RejectRequest(c) \/ RefuseRequest(c)
  PROVE  LLMInv'
<1>1. /\ call[c].st \in {"idle", "ended"} /\ guard' = resetIfNeeded
      /\ Ended(c, "invalid") \/ Ended(c, "exhausted")
      /\ day' = day /\ spent' = spent /\ unseen' = unseen
  BY DEF RejectRequest, RefuseRequest, CanBegin, AllowAttempt
<1>2. LLMShape
  BY DEF LLMInv
<1>3. /\ call' = [d \in Callers |-> call'[d]] /\ \A d \in Callers : d # c => call'[d] = call[d]
      /\ call'[c] = [st |-> call'[c].st, via |-> call'[c].via, attempt |-> call'[c].attempt,
                     tokens |-> call'[c].tokens, result |-> call'[c].result]
      /\ call'[c].st = "ended" /\ call'[c].tokens \in 0..MaxTokens
  BY <1>1, <1>2, EndedFacts
<1>4. call[c].st # "answered" /\ call'[c].st \in {"sent", "backoff", "ended"}
  BY <1>1, <1>3
<1> QED BY <1>1, <1>3, <1>4, QuietCallKeeps

(* An attempt fails, waits, is made again, or meets its deadline.          *)
LEMMA AttemptKeeps ==
  ASSUME LLMInv, NEW c \in Callers,
         (\E retryable \in BOOLEAN : FailAttempt(c, retryable)) \/ Retry(c) \/ Deadline(c)
  PROVE  LLMInv'
<1>1. /\ call[c].st \in {"sent", "backoff"} /\ guard' = guard
      /\ \/ Ended(c, "error")
         \/ call' = [call EXCEPT ![c].st = "backoff", ![c].attempt = @ + 1]
         \/ call' = [call EXCEPT ![c].st = "sent"]
      /\ day' = day /\ spent' = spent /\ unseen' = unseen
  <2>1. CASE Deadline(c)
    BY <2>1 DEF Deadline
  <2>2. CASE Retry(c)
    BY <2>2 DEF Retry
  <2>3. CASE \E retryable \in BOOLEAN : FailAttempt(c, retryable)
    BY <2>3, Zenon DEF FailAttempt
  <2> QED BY <2>1, <2>2, <2>3
<1>2. /\ LLMShape /\ call = [d \in Callers |-> call[d]] /\ call[c].tokens \in 0..MaxTokens
      /\ call[c] = [st |-> call[c].st, via |-> call[c].via, attempt |-> call[c].attempt,
                    tokens |-> call[c].tokens, result |-> call[c].result]
  BY DEF LLMInv, LLMShape
<1>3. /\ call' = [d \in Callers |-> call'[d]] /\ \A d \in Callers : d # c => call'[d] = call[d]
      /\ call'[c] = [st |-> call'[c].st, via |-> call'[c].via, attempt |-> call'[c].attempt,
                     tokens |-> call'[c].tokens, result |-> call'[c].result]
      /\ call'[c].st \in {"sent", "backoff", "ended"} /\ call'[c].tokens \in 0..MaxTokens
  <2>1. CASE Ended(c, "error")
    BY <1>2, <2>1, EndedFacts
  <2>2. CASE call' = [call EXCEPT ![c].st = "sent"]
    <3>1. call'[c] = [st |-> "sent", via |-> call[c].via, attempt |-> call[c].attempt,
                      tokens |-> call[c].tokens, result |-> call[c].result]
      BY <1>2, <2>2
    <3> QED BY <1>2, <2>2, <3>1
  <2>3. CASE call' = [call EXCEPT ![c].st = "backoff", ![c].attempt = @ + 1]
    <3>1. call' = [call EXCEPT ![c] = [[call[c] EXCEPT !.st = "backoff"] EXCEPT !.attempt = call[c].attempt + 1]]
      BY <1>2, <2>3
    <3>2. /\ call' = [d \in Callers |-> call'[d]] /\ \A d \in Callers : d # c => call'[d] = call[d]
          /\ call'[c] = [[call[c] EXCEPT !.st = "backoff"] EXCEPT !.attempt = call[c].attempt + 1]
      BY <1>2, <3>1
    <3>3. call'[c] = [st |-> "backoff", via |-> call[c].via, attempt |-> call[c].attempt + 1,
                      tokens |-> call[c].tokens, result |-> call[c].result]
      BY <1>2, <3>2
    <3> QED BY <1>2, <3>2, <3>3
  <2> QED BY <1>1, <2>1, <2>2, <2>3
<1>4. call[c].st # "answered"
  BY <1>1
<1> QED BY <1>1, <1>3, <1>4, QuietCallKeeps

(* An answer: the request no longer waits, its tokens are spent and owed.  *)
LEMMA AnswerKeeps ==
  ASSUME LLMInv, NEW c \in Callers, NEW tokens \in 0..MaxTokens, ReceiveAnswer(c, tokens)
  PROVE  LLMInv'
<1>1. /\ call[c].st = "sent" /\ spent' = spent + tokens /\ guard' = guard /\ day' = day
      /\ unseen' = (unseen \/ call[c].via # "chat")
      /\ \/ call[c].via = "chat" /\ call' = [call EXCEPT ![c].st = "answered", ![c].tokens = tokens]
         \/ call[c].via # "chat" /\ Ended(c, "ok")
  BY DEF ReceiveAnswer
<1>2. /\ LLMShape /\ call = [d \in Callers |-> call[d]] /\ call[c].tokens \in 0..MaxTokens
      /\ call[c] = [st |-> call[c].st, via |-> call[c].via, attempt |-> call[c].attempt,
                    tokens |-> call[c].tokens, result |-> call[c].result]
      /\ guard = [period |-> guard.period, used |-> guard.used] /\ guard.used \in Nat
      /\ spent \in Nat /\ MaxTokens \in Nat
  BY LLMAssumption DEF LLMInv, LLMShape
<1>3. spent' \in Nat /\ UsedToday' = UsedToday /\ UsedToday \in Nat
  BY <1>1, <1>2, ResetFacts DEF UsedToday
<1>4. CASE call[c].via # "chat" /\ Ended(c, "ok")
  <2>1. /\ call' = [d \in Callers |-> call'[d]] /\ \A d \in Callers : d # c => call'[d] = call[d]
        /\ call'[c] = [st |-> call'[c].st, via |-> call'[c].via, attempt |-> call'[c].attempt,
                       tokens |-> call'[c].tokens, result |-> call'[c].result]
        /\ call'[c].st = "ended" /\ call'[c].tokens \in 0..MaxTokens
    BY <1>2, <1>4, EndedFacts
  <2>2. call'[c].st \in CallStates
    BY <2>1 DEF CallStates
  <2>3. LLMShape'
    BY <1>1, <1>2, <1>3, <2>1, <2>2, CallerChange
  <2>4. unseen'
    BY <1>1, <1>4
  <2> QED BY <2>3, <2>4 DEF LLMInv, SpentAccounted, RoomForInflight
<1>5. CASE call[c].via = "chat" /\ call' = [call EXCEPT ![c].st = "answered", ![c].tokens = tokens]
  <2>1. /\ call' = [d \in Callers |-> call'[d]] /\ \A d \in Callers : d # c => call'[d] = call[d]
        /\ call'[c] = [st |-> "answered", via |-> call[c].via, attempt |-> call[c].attempt,
                       tokens |-> tokens, result |-> call[c].result]
    <3>1. call' = [call EXCEPT ![c] = [[call[c] EXCEPT !.st = "answered"] EXCEPT !.tokens = tokens]]
      BY <1>2, <1>5
    <3>2. /\ call' = [d \in Callers |-> call'[d]] /\ \A d \in Callers : d # c => call'[d] = call[d]
          /\ call'[c] = [[call[c] EXCEPT !.st = "answered"] EXCEPT !.tokens = tokens]
      BY <1>2, <3>1
    <3> QED BY <1>2, <3>2
  <2>2. LLMShape'
    <3>1. /\ call'[c] = [st |-> call'[c].st, via |-> call'[c].via, attempt |-> call'[c].attempt,
                         tokens |-> call'[c].tokens, result |-> call'[c].result]
          /\ call'[c].st \in CallStates /\ call'[c].tokens \in 0..MaxTokens
      BY <2>1 DEF CallStates
    <3> QED BY <1>1, <1>2, <1>3, <2>1, <3>1, CallerChange
  <2>3. ~unseen' => ~unseen
    BY <1>1
  <2>4. Inflight' = Inflight \ {c} /\ c \in Inflight
    BY <1>1, <2>1 DEF Inflight
  <2>5. Cardinality(Inflight) = Cardinality(Inflight') + 1
    BY <2>4, LLMSizes, FS_RemoveElement
  <2> DEFINE mine == {c} \X (1..tokens)
  <2>6. Owed' = Owed \cup mine /\ Owed \cap mine = {}
    <3>1. Answered' = Answered \cup {c} /\ c \notin Answered /\ c \in Answered'
      BY <1>1, <2>1 DEF Answered
    <3>2. \A d \in Answered : call'[d] = call[d]
      BY <2>1, <3>1 DEF Answered
    <3>3. \A k \in 1..MaxTokens : k <= tokens <=> k \in 1..tokens
      BY <1>2
    <3>4. 1..tokens \subseteq 1..MaxTokens
      BY <1>2
    <3>5. ASSUME NEW p \in Callers \X (1..MaxTokens)
          PROVE  p \in Owed' <=> p \in Owed \cup mine
      <4>1. p = <<p[1], p[2]>> /\ p[1] \in Callers /\ p[2] \in 1..MaxTokens
        OBVIOUS
      <4>2. CASE p[1] = c
        BY <2>1, <3>1, <3>3, <4>1, <4>2 DEF Owed
      <4>3. CASE p[1] # c
        BY <3>1, <3>2, <4>1, <4>3 DEF Owed
      <4> QED BY <4>2, <4>3
    <3>6. Owed' \subseteq Callers \X (1..MaxTokens) /\ Owed \cup mine \subseteq Callers \X (1..MaxTokens)
      BY <3>4 DEF Owed
    <3>7. Owed \cap mine = {}
      BY <3>1 DEF Owed
    <3> QED BY <3>5, <3>6, <3>7
  <2>7. IsFiniteSet(mine) /\ Cardinality(mine) = tokens
    <3>1. IsFiniteSet({c}) /\ Cardinality({c}) = 1
      BY FS_Singleton
    <3>2. IsFiniteSet(1..tokens) /\ Cardinality(1..tokens) = tokens
      <4>1. tokens \in Nat
        BY <1>2
      <4> QED BY <4>1, FS_Interval
    <3>3. IsFiniteSet(mine) /\ Cardinality(mine) = 1 * tokens
      BY <3>1, <3>2, FS_Product
    <3> QED BY <1>2, <3>3
  <2> HIDE DEF mine
  <2>8. Cardinality(Owed') = Cardinality(Owed) + tokens
    <3>1. Cardinality(Owed \cup mine) = Cardinality(Owed) + Cardinality(mine) - Cardinality(Owed \cap mine)
      BY <2>7, LLMSizes, FS_Union
    <3>2. Cardinality(Owed \cap mine) = 0
      BY <2>6, FS_EmptySet
    <3> QED BY <1>2, <2>6, <2>7, <3>1, <3>2, LLMSizes
  <2>9. SpentAccounted'
    <3> SUFFICES ASSUME Strict, ~unseen, ~unseen' PROVE spent' <= UsedToday' + Cardinality(Owed')
      BY <2>3 DEF SpentAccounted
    <3>1. spent <= UsedToday + Cardinality(Owed)
      BY DEF LLMInv, SpentAccounted
    <3> QED BY <1>1, <1>2, <1>3, <2>8, <3>1, LLMSizes
  <2>10. RoomForInflight'
    <3> SUFFICES ASSUME Strict, ~unseen, ~unseen'
                 PROVE  spent' + MaxTokens * Cardinality(Inflight') < TokenLimit + MaxTokens * Cardinality(Callers)
      BY <2>3 DEF RoomForInflight
    <3> DEFINE a == MaxTokens * Cardinality(Inflight)
               b == MaxTokens * Cardinality(Inflight')
               n == MaxTokens * Cardinality(Callers)
    <3>1. spent + a < TokenLimit + n
      BY DEF LLMInv, RoomForInflight
    <3>2. a = b + MaxTokens /\ b \in Nat /\ n \in Nat
      <4>1. MaxTokens * (Cardinality(Inflight') + 1) = MaxTokens * Cardinality(Inflight') + MaxTokens * 1
        BY LLMSizes, TimesTokens
      <4>2. MaxTokens * 1 = MaxTokens /\ b \in Nat /\ n \in Nat
        BY LLMSizes, TimesTokens
      <4> QED BY <2>5, <4>1, <4>2
    <3> HIDE DEF a, b, n
    <3>3. spent' + b < TokenLimit + n
      BY <1>1, <1>2, <3>1, <3>2, LLMSizes
    <3> QED BY <3>3 DEF b, n
  <2> QED BY <2>2, <2>9, <2>10 DEF LLMInv
<1> QED BY <1>1, <1>4, <1>5

(* RecordUsage: what was owed is counted.                                  *)
LEMMA RecordKeeps ==
  ASSUME LLMInv, NEW c \in Callers, NEW parsed \in BOOLEAN, RecordUsage(c, parsed)
  PROVE  LLMInv'
<1> DEFINE tokens == call[c].tokens
<1>1. /\ call[c].st = "answered" /\ day' = day /\ spent' = spent /\ unseen' = unseen
      /\ guard' = IF tokens > 0 THEN Counted(tokens) ELSE guard
      /\ Ended(c, "exhausted") \/ Ended(c, "ok") \/ Ended(c, "unparsed")
  BY DEF RecordUsage
<1>2. /\ LLMShape /\ tokens \in 0..MaxTokens /\ MaxTokens \in Nat /\ tokens \in Nat
      /\ guard = [period |-> guard.period, used |-> guard.used] /\ guard.used \in Nat
      /\ spent \in Nat /\ UsedToday \in Nat
      /\ resetIfNeeded = [period |-> day, used |-> UsedToday]
  BY LLMAssumption, ResetFacts DEF LLMInv, LLMShape
<1>3. /\ guard' = [period |-> guard'.period, used |-> guard'.used] /\ guard'.used \in Nat
      /\ UsedToday' = UsedToday + tokens
  <2>1. CASE tokens = 0
    BY <1>1, <1>2, <2>1 DEF UsedToday
  <2>2. CASE tokens > 0
    <3>1. guard' = [period |-> day, used |-> UsedToday + tokens]
      <4>1. guard' = [[period |-> day, used |-> UsedToday] EXCEPT !.used = @ + tokens]
        BY <1>1, <1>2, <2>2, Zenon DEF Counted
      <4> QED BY <4>1
    <3> QED BY <1>1, <1>2, <3>1 DEF UsedToday
  <2> QED BY <1>2, <2>1, <2>2
<1>4. /\ call' = [d \in Callers |-> call'[d]] /\ \A d \in Callers : d # c => call'[d] = call[d]
      /\ call'[c] = [st |-> call'[c].st, via |-> call'[c].via, attempt |-> call'[c].attempt,
                     tokens |-> call'[c].tokens, result |-> call'[c].result]
      /\ call'[c].st = "ended" /\ call'[c].tokens \in 0..MaxTokens
  BY <1>1, <1>2, EndedFacts
<1>5. LLMShape' /\ Inflight' \subseteq Inflight
  <2>1. call'[c].st \in CallStates /\ call'[c].st \notin {"sent", "backoff"}
    BY <1>4 DEF CallStates
  <2> QED BY <1>1, <1>2, <1>3, <1>4, <2>1, CallerChange
<1> DEFINE mine == {c} \X (1..tokens)
<1>6. Owed = Owed' \cup mine /\ Owed' \cap mine = {}
  <2>1. Answered' = Answered \ {c} /\ c \in Answered
    BY <1>1, <1>4 DEF Answered
  <2>2. \A d \in Answered' : call'[d] = call[d]
    BY <1>4, <2>1 DEF Answered
  <2>3. /\ \A k \in 1..MaxTokens : k <= tokens <=> k \in 1..tokens
        /\ 1..tokens \subseteq 1..MaxTokens
    BY <1>2
  <2>4. ASSUME NEW p \in Callers \X (1..MaxTokens)
        PROVE  p \in Owed <=> p \in Owed' \cup mine
    <3>1. p = <<p[1], p[2]>> /\ p[1] \in Callers /\ p[2] \in 1..MaxTokens
      OBVIOUS
    <3>2. CASE p[1] = c
      BY <1>4, <2>1, <2>3, <3>1, <3>2 DEF Owed
    <3>3. CASE p[1] # c
      BY <2>1, <2>2, <3>1, <3>3 DEF Owed
    <3> QED BY <3>2, <3>3
  <2>5. Owed \subseteq Callers \X (1..MaxTokens) /\ Owed' \cup mine \subseteq Callers \X (1..MaxTokens)
    BY <2>3 DEF Owed
  <2>6. Owed' \cap mine = {}
    BY <2>1 DEF Owed
  <2> QED BY <2>4, <2>5, <2>6
<1>7. IsFiniteSet(mine) /\ Cardinality(mine) = tokens
  <2>1. IsFiniteSet({c}) /\ Cardinality({c}) = 1
    BY FS_Singleton
  <2>2. IsFiniteSet(1..tokens) /\ Cardinality(1..tokens) = tokens
    <3>1. tokens \in Nat
      BY <1>2
    <3> HIDE DEF tokens
    <3> QED BY <3>1, FS_Interval
  <2>3. IsFiniteSet(mine) /\ Cardinality(mine) = 1 * tokens
    BY <2>1, <2>2, FS_Product
  <2> QED BY <1>2, <2>3
<1> HIDE DEF mine
<1>8. Cardinality(Owed) = Cardinality(Owed') + tokens
  <2>1. Cardinality(Owed' \cup mine) = Cardinality(Owed') + Cardinality(mine) - Cardinality(Owed' \cap mine)
    BY <1>7, LLMSizes, FS_Union
  <2>2. Cardinality(Owed' \cap mine) = 0
    BY <1>6, FS_EmptySet
  <2> QED BY <1>2, <1>6, <1>7, <2>1, <2>2, LLMSizes
<1>9. UsedToday' + Cardinality(Owed') = UsedToday + Cardinality(Owed)
  BY <1>2, <1>3, <1>8, LLMSizes
<1> QED BY <1>1, <1>5, <1>9, CountingKeeps

(* A new day or a restarted process has spent nothing, or nothing that the *)
(* bound speaks of.                                                        *)
LEMMA FreshKeeps ==
  ASSUME LLMInv, NewDay \/ RestartClient
  PROVE  LLMInv'
<1>1. LLMShape'
  <2>1. CASE NewDay
    BY <2>1 DEF NewDay, LLMInv, LLMShape
  <2>2. CASE RestartClient
    <3>1. /\ call' = [c \in Callers |-> call'[c]] /\ \A c \in Callers : call'[c] = NoCall
          /\ guard' = NewBudgetGuard /\ spent' = spent /\ 0 \in 0..MaxTokens
      BY <2>2, LLMAssumption DEF RestartClient
    <3> QED BY <3>1 DEF LLMInv, LLMShape, NoCall, NewBudgetGuard, CallStates
  <2> QED BY <2>1, <2>2
<1>2. ~unseen' => spent' = 0
  <2>1. CASE NewDay
    BY <2>1 DEF NewDay
  <2>2. CASE RestartClient
    <3>1. spent' = spent /\ spent \in Nat
      BY <2>2 DEF RestartClient, LLMInv, LLMShape
    <3>2. ~unseen' => ~(spent > 0)
      BY <2>2 DEF RestartClient
    <3> QED BY <3>1, <3>2
  <2> QED BY <2>1, <2>2
<1>3. UsedToday' \in Nat
  BY <1>1 DEF UsedToday, LLMShape
<1>4. 0 <= UsedToday' + Cardinality(Owed')
  BY <1>3, LLMSizes
<1>5. 0 + MaxTokens * Cardinality(Inflight') < TokenLimit + MaxTokens * Cardinality(Callers)
  <2>1. Cardinality(Inflight') <= Cardinality(Callers)
    BY LLMSets, LLMAssumption, FS_Subset
  <2> DEFINE a == MaxTokens * Cardinality(Inflight')
             n == MaxTokens * Cardinality(Callers)
  <2>2. a <= n /\ a \in Nat /\ n \in Nat
    BY <2>1, LLMSizes, TimesTokens
  <2> HIDE DEF a, n
  <2>3. 0 + a < TokenLimit + n
    BY <2>2, LLMSizes
  <2> QED BY <2>3 DEF a, n
<1> QED BY <1>1, <1>2, <1>4, <1>5 DEF LLMInv, SpentAccounted, RoomForInflight

(* Every step of the client keeps the invariant.                           *)
LEMMA LLMStep == LLMInv /\ [LLMNext]_llmVars => LLMInv'
<1> SUFFICES ASSUME LLMInv, [LLMNext]_llmVars PROVE LLMInv'
  OBVIOUS
<1>1. ASSUME NEW c \in Callers, CallerStep(c) PROVE LLMInv'
  <2>1. CASE \E tokens \in 0..MaxTokens : ReceiveAnswer(c, tokens)
    BY <2>1, AnswerKeeps
  <2>2. CASE (\E retryable \in BOOLEAN : FailAttempt(c, retryable)) \/ Retry(c) \/ Deadline(c)
    BY <2>2, AttemptKeeps
  <2>3. CASE \E parsed \in BOOLEAN : RecordUsage(c, parsed)
    BY <2>3, RecordKeeps
  <2> QED BY <1>1, <2>1, <2>2, <2>3 DEF CallerStep
<1>2. ASSUME NEW c \in Callers, \E via \in Vias : SendRequest(c, via) PROVE LLMInv'
  BY <1>2, SendKeeps
<1>3. CASE UNCHANGED llmVars
  <2>1. call' = call /\ guard' = guard /\ day' = day /\ spent' = spent /\ unseen' = unseen
    BY <1>3 DEF llmVars
  <2>2. LLMShape' /\ Inflight' = Inflight /\ Owed' = Owed /\ UsedToday' = UsedToday
    BY <2>1 DEF LLMInv, LLMShape, Inflight, Owed, Answered, UsedToday
  <2> QED BY <2>1, <2>2 DEF LLMInv, SpentAccounted, RoomForInflight
<1> QED BY <1>1, <1>2, <1>3, RejectKeeps, FreshKeeps DEF LLMNext

(* A strict daily budget is overrun by less than one answer per caller,    *)
(* for any number of callers that share the client, any limit and any      *)
(* number of retries.                                                      *)
THEOREM SpendStaysBounded == LLMSpec => []SpendBounded
<1>1. LLMInit => LLMInv
  BY LLMInitHolds
<1>2. LLMInv /\ [LLMNext]_llmVars => LLMInv'
  BY LLMStep
<1>3. LLMInv => SpendBounded
  <2> SUFFICES ASSUME LLMInv, Strict, ~unseen
               PROVE  spent < TokenLimit + MaxTokens * Cardinality(Callers)
    BY DEF SpendBounded
  <2> DEFINE a == MaxTokens * Cardinality(Inflight)
             n == MaxTokens * Cardinality(Callers)
  <2>1. spent + a < TokenLimit + n
    BY DEF LLMInv, RoomForInflight
  <2>2. a \in Nat /\ n \in Nat /\ spent \in Nat
    BY LLMSizes, TimesTokens DEF LLMInv, LLMShape
  <2> HIDE DEF a, n
  <2>3. spent < TokenLimit + n
    BY <2>1, <2>2, LLMSizes
  <2> QED BY <2>3 DEF n
<1> QED BY <1>1, <1>2, <1>3, PTL DEF LLMSpec

Active == {"sent", "backoff", "answered"}

(* How many more steps a call can take.                                    *)
StepsLeft(k) ==
  CASE k.st = "sent" -> 2 * (MaxRetries - k.attempt) + 2
    [] k.st = "backoff" -> 2 * (MaxRetries - k.attempt) + 3
    [] k.st = "answered" -> 1
    [] OTHER -> 0

AttemptsBounded == \A c \in Callers : call[c].attempt \in 0..MaxRetries

(* Every step of a call brings its end nearer, whatever the provider and   *)
(* the other callers do, across days and restarts: the retry loop counts   *)
(* every failed attempt, and no retry begins the count anew.               *)
CallsShrink ==
  \A c \in Callers :
    call[c].st \in Active /\ call'[c] # call[c] => StepsLeft(call'[c]) < StepsLeft(call[c])

CallsBounded == \A c \in Callers : StepsLeft(call[c]) \in Nat

(* The measure of a call with a counted number of attempts.                *)
LEMMA StepsCounted ==
  ASSUME NEW k, k.attempt \in 0..MaxRetries
  PROVE  /\ StepsLeft(k) \in Nat
         /\ k.st = "sent" => StepsLeft(k) >= 2
         /\ k.st = "backoff" => StepsLeft(k) >= 3
         /\ k.st = "answered" => StepsLeft(k) = 1
         /\ k.st \in {"ended", "idle"} => StepsLeft(k) = 0
BY LLMAssumption DEF StepsLeft

(* What a step does to one caller's call.                                  *)
LEMMA CallMoves ==
  ASSUME LLMShape, AttemptsBounded, [LLMNext]_llmVars, NEW c \in Callers
  PROVE  /\ call'[c].attempt \in 0..MaxRetries
         /\ call[c].st \in Active /\ call'[c] # call[c] => StepsLeft(call'[c]) < StepsLeft(call[c])
<1>1. /\ call[c].attempt \in 0..MaxRetries /\ call[c].st \in CallStates /\ MaxRetries \in Nat
      /\ call = [x \in Callers |-> call[x]]
      /\ call[c] = [st |-> call[c].st, via |-> call[c].via, attempt |-> call[c].attempt,
                    tokens |-> call[c].tokens, result |-> call[c].result]
  BY LLMAssumption DEF LLMShape, AttemptsBounded
<1> DEFINE k == call[c]
           n == call'[c]
<1>2. ASSUME n = k PROVE n.attempt \in 0..MaxRetries
  BY <1>1, <1>2
<1>3. ASSUME n.st \in {"ended", "idle"}, n.attempt \in 0..MaxRetries, k.st \in Active
      PROVE  StepsLeft(n) < StepsLeft(k)
  <2>1. StepsLeft(n) = 0
    BY <1>3, StepsCounted
  <2>2. StepsLeft(k) \in Nat /\ StepsLeft(k) >= 1
    BY <1>1, <1>3, StepsCounted DEF Active
  <2> QED BY <2>1, <2>2
<1>4. ASSUME NEW d \in Callers, NEW result, Ended(d, result)
      PROVE  n = k \/ (n.st = "ended" /\ n.attempt = k.attempt)
  BY <1>1, <1>4 DEF Ended
<1>5. ASSUME NEW d \in Callers, NEW via \in Vias, SendRequest(d, via)
      PROVE  n = k \/ (k.st \in {"idle", "ended"} /\ n.attempt = 0)
  BY <1>1, <1>5 DEF SendRequest, CanBegin, NoCall
<1>6. ASSUME NEW d \in Callers, RejectRequest(d) \/ RefuseRequest(d)
      PROVE  n = k \/ (k.st \in {"idle", "ended"} /\ n.attempt = k.attempt)
  <2>1. call[d].st \in {"idle", "ended"} /\ \E result : Ended(d, result)
    BY <1>6 DEF RejectRequest, RefuseRequest, CanBegin
  <2> QED BY <1>1, <2>1 DEF Ended
<1>7. ASSUME NEW d \in Callers, NEW tokens \in 0..MaxTokens, ReceiveAnswer(d, tokens)
      PROVE  n = k \/ (n.st = "ended" /\ n.attempt = k.attempt)
                   \/ (k.st = "sent" /\ n.st = "answered" /\ n.attempt = k.attempt)
  BY <1>1, <1>4, <1>7 DEF ReceiveAnswer
<1>8. ASSUME NEW d \in Callers, NEW retryable \in BOOLEAN, FailAttempt(d, retryable)
      PROVE  n = k \/ (n.st = "ended" /\ n.attempt = k.attempt)
                   \/ (k.st = "sent" /\ k.attempt < MaxRetries /\ n.st = "backoff" /\ n.attempt = k.attempt + 1)
  <2>1. Ended(d, "error") \/ (/\ call[d].st = "sent" /\ call[d].attempt < MaxRetries
                               /\ call' = [call EXCEPT ![d].st = "backoff", ![d].attempt = @ + 1])
    BY <1>8 DEF FailAttempt
  <2>2. CASE Ended(d, "error")
    BY <1>4, <2>2
  <2>3. CASE /\ call[d].st = "sent" /\ call[d].attempt < MaxRetries
             /\ call' = [call EXCEPT ![d].st = "backoff", ![d].attempt = @ + 1]
    BY <1>1, <2>3
  <2> QED BY <2>1, <2>2, <2>3
<1>9. ASSUME NEW d \in Callers, Retry(d)
      PROVE  n = k \/ (k.st = "backoff" /\ n.st = "sent" /\ n.attempt = k.attempt)
  BY <1>1, <1>9 DEF Retry
<1>10. ASSUME NEW d \in Callers, Deadline(d) \/ \E parsed \in BOOLEAN : RecordUsage(d, parsed)
       PROVE  n = k \/ (n.st = "ended" /\ n.attempt = k.attempt)
  <2>1. \E result : Ended(d, result)
    BY <1>10, Zenon DEF Deadline, RecordUsage
  <2> QED BY <1>4, <2>1
<1>11. ASSUME RestartClient PROVE n.st = "idle" /\ n.attempt = 0
  BY <1>11 DEF RestartClient, NoCall
<1>12. ASSUME NewDay \/ UNCHANGED llmVars PROVE n = k
  BY <1>12 DEF NewDay, llmVars
<1> DEFINE Moved == \/ n = k
                    \/ n.st \in {"ended", "idle"} /\ n.attempt \in 0..MaxRetries
                    \/ k.st \in {"idle", "ended"} /\ n.attempt \in 0..MaxRetries
                    \/ k.st = "sent" /\ n.st = "answered" /\ n.attempt = k.attempt
                    \/ k.st = "sent" /\ k.attempt < MaxRetries /\ n.st = "backoff" /\ n.attempt = k.attempt + 1
                    \/ k.st = "backoff" /\ n.st = "sent" /\ n.attempt = k.attempt
<1>13. Moved
  <2>1. k.attempt \in 0..MaxRetries /\ 0 \in 0..MaxRetries
    BY <1>1
  <2> HIDE DEF k, n
  <2>2. ASSUME NEW d \in Callers, CallerStep(d) PROVE Moved
    BY <1>7, <1>8, <1>9, <1>10, <2>1, <2>2 DEF CallerStep
  <2>3. ASSUME NEW d \in Callers, (\E via \in Vias : SendRequest(d, via)) \/ RejectRequest(d) \/ RefuseRequest(d)
        PROVE Moved
    BY <1>5, <1>6, <2>1, <2>3
  <2>4. CASE NewDay \/ RestartClient \/ UNCHANGED llmVars
    BY <1>11, <1>12, <2>1, <2>4
  <2> QED BY <2>2, <2>3, <2>4 DEF LLMNext
<1> HIDE DEF k, n
<1>14. k.attempt \in 0..MaxRetries
  BY <1>1 DEF k
<1>15. CASE n.st \in {"ended", "idle"} /\ n.attempt \in 0..MaxRetries
  BY <1>3, <1>15 DEF k, n
<1>16. CASE k.st \in {"idle", "ended"} /\ n.attempt \in 0..MaxRetries
  BY <1>16 DEF k, n, Active
<1>17. CASE k.st = "sent" /\ n.st = "answered" /\ n.attempt = k.attempt
  <2>1. StepsLeft(k) \in Nat /\ StepsLeft(k) >= 2 /\ StepsLeft(n) = 1
    BY <1>14, <1>17, StepsCounted
  <2> QED BY <1>14, <1>17, <2>1 DEF k, n
<1>18. CASE k.st = "sent" /\ k.attempt < MaxRetries /\ n.st = "backoff" /\ n.attempt = k.attempt + 1
  <2>1. n.attempt \in 0..MaxRetries
    BY <1>1, <1>14, <1>18
  <2>2. StepsLeft(k) = 2 * (MaxRetries - k.attempt) + 2 /\ StepsLeft(n) = 2 * (MaxRetries - (k.attempt + 1)) + 3
    BY <1>18 DEF StepsLeft
  <2>3. StepsLeft(n) < StepsLeft(k)
    BY <1>1, <1>14, <2>2
  <2> QED BY <2>1, <2>3 DEF k, n
<1>19. CASE k.st = "backoff" /\ n.st = "sent" /\ n.attempt = k.attempt
  <2>1. StepsLeft(k) = 2 * (MaxRetries - k.attempt) + 3 /\ StepsLeft(n) = 2 * (MaxRetries - k.attempt) + 2
    BY <1>19 DEF StepsLeft
  <2>2. StepsLeft(n) < StepsLeft(k)
    BY <1>1, <1>14, <2>1
  <2> QED BY <1>14, <1>19, <2>2 DEF k, n
<1> QED BY <1>2, <1>13, <1>15, <1>16, <1>17, <1>18, <1>19 DEF k, n

(* The safety half of CallsEnd: a call under way has a finite number of    *)
(* steps left, and every step it takes lowers that number.                 *)
THEOREM CallsRunDown == LLMSpec => []CallsBounded /\ [][CallsShrink]_llmVars
<1>1. LLMInit => LLMInv /\ AttemptsBounded
  BY LLMInitHolds, LLMAssumption DEF LLMInit, NoCall, AttemptsBounded
<1>2. LLMInv /\ [LLMNext]_llmVars => LLMInv'
  BY LLMStep
<1>3. LLMInv /\ AttemptsBounded /\ [LLMNext]_llmVars => AttemptsBounded'
  BY CallMoves DEF LLMInv, AttemptsBounded
<1>4. LLMInv /\ AttemptsBounded /\ [LLMNext]_llmVars => [CallsShrink]_llmVars
  BY CallMoves, Zenon DEF LLMInv, CallsShrink
<1>5. AttemptsBounded => CallsBounded
  BY StepsCounted DEF AttemptsBounded, CallsBounded
<1> QED BY <1>1, <1>2, <1>3, <1>4, <1>5, PTL DEF LLMSpec
-------------------------------------------------------------------------------
(* DecisionCheck.                                                          *)

CtxShape ==
  /\ ectx = [st |-> ectx.st, acctRead |-> ectx.acctRead, posRead |-> ectx.posRead, moved |-> ectx.moved,
             equity |-> ectx.equity, margin |-> ectx.margin, positions |-> ectx.positions,
             candidates |-> ectx.candidates, illiquid |-> ectx.illiquid,
             assetMeta |-> ectx.assetMeta, decision |-> ectx.decision]
  /\ ectx.st \in {"idle", "market", "asked", "accepted", "forwarded"}

(* What was read of the account is what the account is.                    *)
ContextCurrent ==
  /\ ectx.positions = IF ectx.posRead THEN filterPositionsForTrader(held) ELSE [c \in Coins |-> "none"]
  /\ ectx.acctRead => ectx.equity = equity /\ ectx.margin = HeldMargin * Cardinality(HeldIn(held))

(* The decision passed the validation against the context.                 *)
DecisionValid ==
  LET d == ectx.decision
  IN  /\ IsOpen(d) =>
           /\ d.coin \in Coins /\ d.size \in Nat /\ d.spelling \in {"exact", "folded", "padded"}
           /\ PositionGuards(d) /\ EquityGuards(d)
      /\ d.action = "close_long" => d.coin \in Coins /\ ectx.positions[d.coin] = "long"
      /\ d.action = "close_short" => d.coin \in Coins /\ ectx.positions[d.coin] = "short"

DeskInv ==
  /\ CtxShape
  /\ equity \in Nat
  /\ ectx.st # "idle" /\ ~ectx.moved => ContextCurrent
  /\ ectx.st \in {"accepted", "forwarded"} => DecisionValid

(* No cycle has begun.                                                     *)
LEMMA DeskInitHolds == DeskInit => DeskInv
BY DecisionAssumption DEF DeskInit, DeskInv, NoContext, CtxShape

(* A cycle that is given up leaves no context behind.                      *)
LEMMA NoContextKeeps ==
  ASSUME DeskInv, ectx' = NoContext, equity' = equity
  PROVE  DeskInv'
BY DEF DeskInv, NoContext, CtxShape

(* A cycle begins with the account it reads.                               *)
LEMMA ReadAccountKeeps ==
  ASSUME DeskInv, NEW acctRead \in BOOLEAN, NEW posRead \in BOOLEAN, NEW candidates \in SUBSET Coins,
         ReadAccount(acctRead, posRead, candidates)
  PROVE  DeskInv'
<1> DEFINE none == [c \in Coins |-> "none"]
           mine == filterPositionsForTrader(held)
           used == HeldMargin * Cardinality(HeldIn(held))
<1>1. held' = held /\ foreign' = foreign /\ equity' = equity
  BY DEF ReadAccount
<1>2. ectx' = [st |-> "market", acctRead |-> acctRead, posRead |-> posRead, moved |-> FALSE,
               equity |-> IF acctRead THEN equity ELSE 0, margin |-> IF acctRead THEN used ELSE 0,
               positions |-> IF posRead THEN mine ELSE none,
               candidates |-> candidates, illiquid |-> {}, assetMeta |-> {}, decision |-> Hold]
  BY DEF ReadAccount, NoContext
<1>3. filterPositionsForTrader(held)' = mine /\ (HeldMargin * Cardinality(HeldIn(held)))' = used
  BY <1>1 DEF filterPositionsForTrader, HeldIn
<1> HIDE DEF mine, used
<1>4. CtxShape' /\ ectx'.st = "market"
  BY <1>2 DEF CtxShape
<1>5. ContextCurrent'
  <2>1. ectx'.positions = IF ectx'.posRead THEN mine ELSE none
    BY <1>2
  <2>2. ectx'.acctRead => ectx'.equity = equity' /\ ectx'.margin = used
    BY <1>1, <1>2
  <2> QED BY <1>3, <2>1, <2>2 DEF ContextCurrent
<1> QED BY <1>1, <1>4, <1>5 DEF DeskInv

(* Steps within the cycle leave what was read of the account alone.        *)
LEMMA CycleKeeps ==
  ASSUME DeskInv, CtxShape', held' = held, foreign' = foreign, equity' = equity, ectx.st # "idle",
         ectx'.acctRead = ectx.acctRead, ectx'.posRead = ectx.posRead, ectx'.moved = ectx.moved,
         ectx'.equity = ectx.equity, ectx'.margin = ectx.margin, ectx'.positions = ectx.positions,
         ectx'.st \in {"accepted", "forwarded"} => DecisionValid'
  PROVE  DeskInv'
<1>1. ~ectx'.moved => ContextCurrent'
  BY DEF DeskInv, ContextCurrent, filterPositionsForTrader, HeldIn
<1> QED BY <1>1 DEF DeskInv

(* The market data complete the context, the account stays the one that    *)
(* was read.                                                               *)
LEMMA ReadMarketKeeps ==
  ASSUME DeskInv, NEW snaps \in SUBSET Coins, NEW listed \in BOOLEAN, ReadMarket(snaps, listed)
  PROVE  DeskInv'
<1>1. held' = held /\ foreign' = foreign /\ equity' = equity /\ ectx.st = "market"
  BY DEF ReadMarket
<1> DEFINE meta == IF listed THEN HeldIn(ectx.positions) ELSE {}
<1>2. ectx' = [st |-> "asked", acctRead |-> ectx.acctRead, posRead |-> ectx.posRead, moved |-> ectx.moved,
               equity |-> ectx.equity, margin |-> ectx.margin, positions |-> ectx.positions,
               candidates |-> {}, illiquid |-> snaps \cap thin, assetMeta |-> meta, decision |-> ectx.decision]
  BY DEF ReadMarket, DeskInv, CtxShape
<1> HIDE DEF meta
<1>3. /\ ectx'.acctRead = ectx.acctRead /\ ectx'.posRead = ectx.posRead /\ ectx'.moved = ectx.moved
      /\ ectx'.equity = ectx.equity /\ ectx'.margin = ectx.margin /\ ectx'.positions = ectx.positions
      /\ CtxShape' /\ ectx'.st = "asked"
  BY <1>2 DEF CtxShape
<1>4. ectx.st # "idle" /\ (ectx'.st \in {"accepted", "forwarded"} => DecisionValid')
  BY <1>1, <1>3
<1> QED BY <1>1, <1>3, <1>4, CycleKeeps

(* A decision is kept only when the validators pass it in the context of   *)
(* its cycle.                                                              *)
LEMMA DecideKeeps ==
  ASSUME DeskInv, NEW answer \in Answers, GetFullDecision(answer)
  PROVE  DeskInv'
<1> DEFINE d == mapDecisionContract(answer)
<1>1. /\ held' = held /\ foreign' = foreign /\ equity' = equity /\ ectx.st = "asked"
      /\ \/ ectx' = NoContext
         \/ /\ ValidateDecisions(d, answer.sound)
            /\ ectx' = [ectx EXCEPT !.st = "accepted", !.decision = Accepted(d), !.illiquid = {}, !.assetMeta = {}]
  BY DEF GetFullDecision
<1>2. CASE ectx' = NoContext
  BY <1>1, <1>2, NoContextKeeps
<1>3. CASE /\ ValidateDecisions(d, answer.sound)
           /\ ectx' = [ectx EXCEPT !.st = "accepted", !.decision = Accepted(d), !.illiquid = {}, !.assetMeta = {}]
  <2>1. /\ d.coin \in Coins /\ d.size \in Nat /\ d.spelling \in {"exact", "folded", "padded", "blank"}
        /\ d.action \in {"open_long", "open_short", "close_long", "close_short", "hold"}
        /\ d = [action |-> d.action, coin |-> d.coin, spelling |-> d.spelling, leverage |-> d.leverage, size |-> d.size]
    <3>1. /\ answer.coin \in Coins /\ answer.size \in Nat
          /\ answer.spelling \in {"exact", "folded", "padded", "blank"}
      BY DecisionAssumption DEF Answers
    <3>2. d.coin = answer.coin /\ d.size = answer.size /\ d.spelling = answer.spelling
      BY DEF mapDecisionContract
    <3>3. d.action \in {"open_long", "open_short", "close_long", "close_short", "hold"}
      BY DEF mapDecisionContract
    <3>4. d = [action |-> d.action, coin |-> d.coin, spelling |-> d.spelling, leverage |-> d.leverage, size |-> d.size]
      BY DEF mapDecisionContract
    <3> HIDE DEF d
    <3> QED BY <3>1, <3>2, <3>3, <3>4
  <2> HIDE DEF d
  <2> DEFINE a == Accepted(d)
  <2>2. ectx' = [st |-> "accepted", acctRead |-> ectx.acctRead, posRead |-> ectx.posRead, moved |-> ectx.moved,
                 equity |-> ectx.equity, margin |-> ectx.margin, positions |-> ectx.positions,
                 candidates |-> ectx.candidates, illiquid |-> {}, assetMeta |-> {}, decision |-> a]
    BY <1>3 DEF DeskInv, CtxShape
  <2>3. /\ ectx'.acctRead = ectx.acctRead /\ ectx'.posRead = ectx.posRead /\ ectx'.moved = ectx.moved
        /\ ectx'.equity = ectx.equity /\ ectx'.margin = ectx.margin /\ ectx'.positions = ectx.positions
        /\ CtxShape' /\ ectx'.st = "accepted" /\ ectx'.decision = a
    <3> HIDE DEF a
    <3> QED BY <2>2 DEF CtxShape
  <2>4. DecisionValid'
    <3>1. CASE d.action \in {"open_long", "open_short"}
      <4>1. a = d
        BY <3>1 DEF Accepted
      <4>2. d.spelling # "blank" /\ EquityGuards(d) /\ PositionGuards(d)
        BY <1>3, <3>1 DEF ValidateDecisions, IsOpen
      <4>3. (PositionGuards(ectx.decision) /\ EquityGuards(ectx.decision))'
        BY <2>3, <4>1, <4>2 DEF PositionGuards, EquityGuards, ValueBand, WithinMargin, isBTCETH
      <4>4. ectx'.decision = d
        BY <2>3, <4>1
      <4> QED BY <2>1, <3>1, <4>2, <4>3, <4>4 DEF DecisionValid
    <3>2. CASE d.action \in {"close_long", "close_short"}
      <4>1. a.action = d.action /\ a.coin = d.coin
        BY <2>1, <3>2 DEF Accepted
      <4>2. ectx.positions[d.coin] = (IF d.action = "close_short" THEN "short" ELSE "long")
        BY <1>3, <3>2 DEF ValidateDecisions, IsOpen, EqualFold
      <4>3. ~IsOpen(ectx.decision)'
        BY <2>3, <3>2, <4>1 DEF IsOpen
      <4> QED BY <2>1, <2>3, <3>2, <4>1, <4>2, <4>3 DEF DecisionValid
    <3>3. CASE d.action = "hold"
      <4>1. ectx'.decision.action = "hold"
        BY <2>3, <3>3 DEF Accepted, Hold
      <4> QED BY <4>1 DEF DecisionValid, IsOpen
    <3> QED BY <2>1, <3>1, <3>2, <3>3
  <2> HIDE DEF a
  <2>5. ectx.st # "idle"
    BY <1>1
  <2> QED BY <1>1, <2>3, <2>4, <2>5, CycleKeeps
<1> QED BY <1>1, <1>2, <1>3

(* What is forwarded was decided with the context that is there.           *)
LEMMA ForwardKeeps ==
  ASSUME DeskInv, ForwardDecision
  PROVE  DeskInv'
<1>1. /\ held' = held /\ foreign' = foreign /\ equity' = equity /\ ectx.st = "accepted"
      /\ ectx' = NoContext \/ ectx' = [ectx EXCEPT !.st = "forwarded"]
  BY DEF ForwardDecision
<1>2. CASE ectx' = NoContext
  BY <1>1, <1>2, NoContextKeeps
<1>3. CASE ectx' = [ectx EXCEPT !.st = "forwarded"]
  <2>1. ectx' = [st |-> "forwarded", acctRead |-> ectx.acctRead, posRead |-> ectx.posRead, moved |-> ectx.moved,
                 equity |-> ectx.equity, margin |-> ectx.margin, positions |-> ectx.positions,
                 candidates |-> ectx.candidates, illiquid |-> ectx.illiquid, assetMeta |-> ectx.assetMeta,
                 decision |-> ectx.decision]
    BY <1>3 DEF DeskInv, CtxShape
  <2>2. /\ ectx'.acctRead = ectx.acctRead /\ ectx'.posRead = ectx.posRead /\ ectx'.moved = ectx.moved
        /\ ectx'.equity = ectx.equity /\ ectx'.margin = ectx.margin /\ ectx'.positions = ectx.positions
        /\ CtxShape' /\ ectx'.st = "forwarded" /\ ectx'.decision = ectx.decision
    BY <2>1 DEF CtxShape
  <2>3. DecisionValid'
    <3>1. DecisionValid
      BY <1>1 DEF DeskInv
    <3> QED BY <2>2, <3>1 DEF DecisionValid, PositionGuards, EquityGuards, ValueBand, WithinMargin, isBTCETH
  <2>4. ectx.st # "idle"
    BY <1>1
  <2> QED BY <1>1, <2>2, <2>3, <2>4, CycleKeeps
<1> QED BY <1>1, <1>2, <1>3

(* The account moves: nothing is claimed of the cycle under way any more.  *)
LEMMA MovingKeeps ==
  ASSUME DeskInv, Moving, equity' \in Nat
  PROVE  DeskInv'
<1>1. ectx' = [ectx EXCEPT !.moved = ectx.st # "idle"]
  BY DEF Moving
<1>2. ectx' = [st |-> ectx.st, acctRead |-> ectx.acctRead, posRead |-> ectx.posRead, moved |-> ectx.st # "idle",
               equity |-> ectx.equity, margin |-> ectx.margin, positions |-> ectx.positions,
               candidates |-> ectx.candidates, illiquid |-> ectx.illiquid, assetMeta |-> ectx.assetMeta,
               decision |-> ectx.decision]
  BY <1>1 DEF DeskInv, CtxShape
<1>3. /\ ectx'.st = ectx.st /\ ectx'.moved = (ectx.st # "idle")
      /\ ectx'.equity = ectx.equity /\ ectx'.margin = ectx.margin /\ ectx'.positions = ectx.positions
      /\ ectx'.decision = ectx.decision
  BY <1>2
<1>4. CtxShape'
  BY <1>2, <1>3 DEF DeskInv, CtxShape
<1>5. ectx.st \in {"accepted", "forwarded"} => DecisionValid'
  <2> SUFFICES ASSUME DecisionValid PROVE DecisionValid'
    BY DEF DeskInv
  <2> QED BY <1>3 DEF DecisionValid, PositionGuards, EquityGuards, ValueBand, WithinMargin, isBTCETH
<1> QED BY <1>3, <1>4, <1>5 DEF DeskInv

(* Every step of a cycle keeps the invariant.                              *)
LEMMA DeskStep == DeskInv /\ [DeskNext]_deskVars => DeskInv'
<1> SUFFICES ASSUME DeskInv, [DeskNext]_deskVars PROVE DeskInv'
  OBVIOUS
<1>1. CASE \E acctRead, posRead \in BOOLEAN, candidates \in SUBSET Coins :
             ReadAccount(acctRead, posRead, candidates)
  BY <1>1, ReadAccountKeeps
<1>2. CASE \E snaps \in SUBSET Coins, listed \in BOOLEAN : ReadMarket(snaps, listed)
  BY <1>2, ReadMarketKeeps
<1>3. CASE AskFails \/ EndCycle
  BY <1>3, NoContextKeeps DEF AskFails, EndCycle
<1>4. CASE \E answer \in Answers : GetFullDecision(answer)
  BY <1>4, DecideKeeps
<1>5. CASE ForwardDecision
  BY <1>5, ForwardKeeps
<1>6. CASE \E c \in Coins, side \in {"none", "long", "short"}, other \in BOOLEAN : PositionMoves(c, side, other)
  <2>1. Moving /\ equity' = equity
    BY <1>6 DEF PositionMoves
  <2> QED BY <2>1, MovingKeeps DEF DeskInv
<1>7. CASE \E value \in Equities : EquityMoves(value)
  <2>1. Moving /\ equity' \in Nat
    BY <1>7, DecisionAssumption DEF EquityMoves
  <2> QED BY <2>1, MovingKeeps
<1>8. CASE \/ \E c \in Coins : LiquidityMoves(c)
           \/ UNCHANGED deskVars
  <2>1. ectx' = ectx /\ held' = held /\ foreign' = foreign /\ equity' = equity
    BY <1>8 DEF LiquidityMoves, deskVars
  <2>2. /\ CtxShape' <=> CtxShape
        /\ DecisionValid' <=> DecisionValid
        /\ ContextCurrent' <=> ContextCurrent
    BY <2>1 DEF CtxShape, DecisionValid, ContextCurrent, PositionGuards, EquityGuards, ValueBand, WithinMargin,
                isBTCETH, filterPositionsForTrader, HeldIn
  <2> QED BY <2>1, <2>2 DEF DeskInv
<1> QED BY <1>1, <1>2, <1>3, <1>4, <1>5, <1>6, <1>7, <1>8 DEF DeskNext

(* A decision passed on fits the account as it is unless the account moved *)
(* while the model was asked, for any coins, equities, bands and caps.     *)
THEOREM AcceptedDecisionsFit == DeskSpec => []AcceptedFits
<1>1. ASSUME DeskInv PROVE AcceptedFits
  <2> DEFINE d == ectx.decision
             mine == filterPositionsForTrader(held)
  <2> SUFFICES ASSUME ectx.st \in {"accepted", "forwarded"}, ~ectx.moved
               PROVE  /\ IsOpen(d) /\ ectx.posRead =>
                           /\ Cardinality(HeldIn(mine)) < MaxPositions
                           /\ d.spelling # "padded" => mine[d.coin] = "none"
                      /\ IsOpen(d) /\ ectx.acctRead /\ equity > 0 =>
                           /\ equity * (IF d.coin \in Majors THEN MajorFloor ELSE AltFloor) <= d.size
                           /\ d.size <= equity * (IF d.coin \in Majors THEN MajorMultiple ELSE AltMultiple)
                           /\ WithinMargin(HeldMargin * Cardinality(HeldIn(held)), equity, d)
                      /\ d.action = "close_long" => mine[d.coin] = "long"
                      /\ d.action = "close_short" => mine[d.coin] = "short"
    BY DEF AcceptedFits
  <2>1. ContextCurrent /\ DecisionValid /\ equity \in Nat
    BY <1>1 DEF DeskInv
  <2>2. ectx.posRead => ectx.positions = mine
    BY <2>1 DEF ContextCurrent
  <2>3. ASSUME IsOpen(d), ectx.posRead
        PROVE  Cardinality(HeldIn(mine)) < MaxPositions /\ (d.spelling # "padded" => mine[d.coin] = "none")
    <3>1. /\ PositionGuards(d) /\ d.coin \in Coins /\ d.spelling \in {"exact", "folded", "padded"}
      BY <2>1, <2>3 DEF DecisionValid
    <3> HIDE DEF d, mine
    <3>2. Cardinality(HeldIn(mine)) < MaxPositions /\ EqualFold(d) \cap HeldIn(mine) = {}
      BY <2>2, <2>3, <3>1 DEF PositionGuards
    <3> QED BY <3>1, <3>2 DEF EqualFold, HeldIn
  <2>4. ASSUME IsOpen(d), ectx.acctRead, equity > 0
        PROVE  /\ equity * (IF d.coin \in Majors THEN MajorFloor ELSE AltFloor) <= d.size
               /\ d.size <= equity * (IF d.coin \in Majors THEN MajorMultiple ELSE AltMultiple)
               /\ WithinMargin(HeldMargin * Cardinality(HeldIn(held)), equity, d)
    <3>1. /\ EquityGuards(d) /\ d.coin \in Coins /\ d.spelling \in {"exact", "folded", "padded"} /\ d.size \in Nat
      BY <2>1, <2>4 DEF DecisionValid
    <3>2. ectx.equity = equity /\ ectx.margin = HeldMargin * Cardinality(HeldIn(held))
      BY <2>1, <2>4 DEF ContextCurrent
    <3> HIDE DEF d
    <3>3. isBTCETH(d) <=> d.coin \in Majors
      BY <3>1 DEF isBTCETH, Trimmed
    <3>4. /\ ValueBand(d).least = (IF d.coin \in Majors THEN MajorFloor ELSE AltFloor)
          /\ ValueBand(d).most = (IF d.coin \in Majors THEN MajorMultiple ELSE AltMultiple)
      BY <3>3 DEF ValueBand
    <3>5. /\ ValueBand(d).least * equity <= d.size /\ d.size <= ValueBand(d).most * equity
          /\ WithinMargin(HeldMargin * Cardinality(HeldIn(held)), equity, d)
      BY <2>4, <3>1, <3>2 DEF EquityGuards
    <3>6. \A x \in Nat : x * equity = equity * x
      BY <2>1
    <3>7. ValueBand(d).least \in Nat /\ ValueBand(d).most \in Nat
      BY <3>4, DecisionAssumption
    <3> QED BY <3>4, <3>5, <3>6, <3>7
  <2>5. /\ d.action = "close_long" => mine[d.coin] = "long"
        /\ d.action = "close_short" => mine[d.coin] = "short"
    <3>1. ~ectx.posRead => \A c \in Coins : ectx.positions[c] = "none"
      BY <2>1 DEF ContextCurrent
    <3>2. /\ d.action = "close_long" => d.coin \in Coins /\ ectx.positions[d.coin] = "long"
          /\ d.action = "close_short" => d.coin \in Coins /\ ectx.positions[d.coin] = "short"
      BY <2>1 DEF DecisionValid
    <3> QED BY <2>2, <3>1, <3>2
  <2> QED BY <2>3, <2>4, <2>5
<1>2. DeskInit => DeskInv
  BY DeskInitHolds
<1>3. DeskInv /\ [DeskNext]_deskVars => DeskInv'
  BY DeskStep
<1> QED BY <1>1, <1>2, <1>3, PTL DEF DeskSpec
===============================================================================
